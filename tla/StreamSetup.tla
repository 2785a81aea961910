---------------------------- MODULE StreamSetup ----------------------------
(***************************************************************************)
(* The set-up of the streams: the store of ChannelStore together with the   *)
(* list of publishers, each with a channel list of its own                  *)
(* (components/MultiPublisher.js, StreamConfigPage.js), the panels that     *)
(* write to it and what Start hands to the back end.  Every action is one   *)
(* callback of the page, run to completion; Start is a coroutine and runs   *)
(* from await to await, with any other callback in between.                 *)
(***************************************************************************)
EXTENDS ChannelStore

CONSTANTS
  Custom,     \* ids a user may give to a channel
  Typed,      \* equations a user may type
  Rates,      \* samples per cycle a user may choose
  Files,      \* configuration files: partial records of std, freq, spc,
              \* equations (a list of [id, hz]) and selected
  Starters,   \* bound: startAll() calls in flight together, by name
  MaxStreams, \* bound on the publishers listed at a time
  MaxEvents   \* bound on the callbacks

Ids == ToSet(PoolOrder) \cup {Preset[i].id : i \in DOMAIN Preset} \cup Custom

ASSUME SetupAssumption ==
  /\ IsFiniteSet(Custom) /\ Typed \subseteq SUBSET Waves /\ Rates \subseteq Nat
  /\ MaxStreams \in Nat /\ MaxEvents \in Nat
\* A file is one the page has saved, from its own settings.
ASSUME FilesAssumption ==
  \A file \in Files :
    /\ "std" \in DOMAIN file => file.std \in Standards
    /\ "freq" \in DOMAIN file => file.freq \in Frequencies
    /\ "spc" \in DOMAIN file => file.spc \in Nat
    /\ "equations" \in DOMAIN file =>
         file.equations \in Seq([id : Ids, hz : SUBSET Waves])
    /\ "selected" \in DOMAIN file =>
         file.selected \in Seq(Ids) /\ IsInjective(file.selected)

VARIABLES
  store,      \* the state of ChannelStore
  pubs,       \* _publishers: id, number given at creation, channels, count
  nextId,     \* _nextLocalId
  chosen,     \* _selectedLocalId, 0 for null
  running,    \* _isRunning
  starts,     \* the startAll() calls, each at one of its awaits or idle
  typed,      \* history: channels whose equation was typed or loaded
  orphans,    \* history: channels removed from the pool but not the selection
  events

vars == <<store, pubs, nextId, chosen, running, starts, typed, orphans, events>>

Lists == UNION {[1..n -> Ids] : n \in 0..Cardinality(Ids)}

\* A startAll() under way: the stream it configures next, storeChannels as
\* taken when it was pressed, and the configuration it sent last.  limit, asked
\* and typed are history: the standard's limit, the frequency and the typed
\* equations storeChannels was taken under.
NoConf == [chs |-> <<>>, freq |-> 0]
Idle == [next |-> 0, pool |-> <<>>, limit |-> 0, asked |-> 0, typed |-> {},
         conf |-> NoConf]

Init ==
  /\ store = NewStore
  /\ pubs = <<>>
  /\ nextId = 1
  /\ chosen = 0
  /\ running = FALSE
  /\ starts = [t \in Starters |-> Idle]
  /\ typed = {}
  /\ orphans = {}
  /\ events = 0

Event == events < MaxEvents /\ events' = events + 1

\* A callback that ends in store s and touches nothing else.
StoreBecomes(s) ==
  /\ Event
  /\ store' = s
  /\ UNCHANGED <<pubs, nextId, chosen, running, starts>>

(***************************************************************************)
(* Panels that write to the store.                                          *)
(***************************************************************************)
ChooseStandard(std) ==
  /\ std # store.std
  /\ StoreBecomes(SetStandard(store, std))
  /\ UNCHANGED <<typed, orphans>>

\* A rate once more, as the handlers of StreamSettings do after setConfig().
ThenRate(s) == Notified(RateUpdated(s))

ChooseFrequency(f) ==
  /\ f # store.freq
  /\ StoreBecomes(ThenRate(Notified(SetConfig(store, [freq |-> f]))))
  /\ UNCHANGED <<typed, orphans>>

\* Any value with "Custom...", which 9-2LE does not offer.
ChooseSpc(n) ==
  /\ n # store.spc
  /\ store.std = "9-2LE" => n \in SettingsLE
  /\ StoreBecomes(ThenRate(Notified(SetConfig(store, [spc |-> n]))))
  /\ UNCHANGED <<typed, orphans>>

ChooseAsdu(n) ==
  /\ n # store.asdu
  /\ StoreBecomes(Notified(SetConfig(store, [asdu |-> n])))
  /\ UNCHANGED <<typed, orphans>>

ApplyEquation(id, hz) ==
  /\ id \in IdsOf(store.channels)
  /\ StoreBecomes(UpdateEquation(store, id, hz))
  /\ typed' = typed \cup {id}
  /\ UNCHANGED orphans

CreateChannel(id, hz) ==
  /\ CanAdd(store, id)
  /\ StoreBecomes(AddChannel(store, id, hz))
  /\ typed' = typed \cup {id}
  /\ orphans' = orphans \ {id}

\* A fault template writes the channels of a phase, which the base channels
\* here are, at the frequency of the store.
Templated(s) ==
  [i \in DOMAIN s.channels |->
     IF s.channels[i].id \in ToSet(PoolOrder)
     THEN [s.channels[i] EXCEPT !.hz = {s.freq}] ELSE s.channels[i]]

ApplyTemplate ==
  /\ StoreBecomes(SetChannels(store, Templated(store)))
  /\ typed' = typed \ ToSet(PoolOrder)
  /\ UNCHANGED orphans

\* applyConfig(): the standard, one batch of settings, the equations one by
\* one, then the selection; each part is absent from some files.
FileSettings(s, file) ==
  LET f == IF "freq" \in DOMAIN file THEN SetConfig(s, [freq |-> file.freq]) ELSE s
  IN  Notified(IF "spc" \in DOMAIN file THEN SetConfig(f, [spc |-> file.spc]) ELSE f)

Equated(s, eqs) ==
  LET upto[n \in 0..Len(eqs)] ==
        IF n = 0 THEN s ELSE UpdateEquation(upto[n - 1], eqs[n].id, eqs[n].hz)
  IN  upto[Len(eqs)]

FileEquations(s, file) ==
  IF "equations" \in DOMAIN file THEN Equated(s, file.equations) ELSE s

FileApplied(s, file) ==
  LET a == IF "std" \in DOMAIN file THEN SetStandard(s, file.std) ELSE s
      b == FileEquations(FileSettings(a, file), file)
  IN  IF "selected" \in DOMAIN file THEN SetSelected(b, file.selected) ELSE b

LoadConfig(file) ==
  /\ StoreBecomes(FileApplied(store, file))
  /\ typed' = typed \cup (IF "equations" \in DOMAIN file
                          THEN {e.id : e \in ToSet(file.equations)} ELSE {})
  /\ UNCHANGED orphans

(***************************************************************************)
(* The public methods of the store no component calls; app.js exposes the   *)
(* store as window.__store.                                                 *)
(***************************************************************************)
ConsoleEdit ==
  /\ \/ \E n \in {1, 4} : n # store.asdu /\ StoreBecomes(SetNoASDU(store, n))
     \/ \E id \in Ids : id \in ToSet(store.selected) /\ StoreBecomes(RemoveSelected(store, id))
     \/ \E i, j \in DOMAIN store.selected :
          i # j /\ StoreBecomes(ReorderSelected(store, i, j))
     \/ \E i \in DOMAIN store.selected, id \in Ids :
          StoreBecomes(ChangeSelectedAt(store, i, id))
     \/ StoreBecomes(AddPresets(store))
  /\ UNCHANGED <<typed, orphans>>

ConsoleRemove(id) ==
  /\ StoreBecomes(RemoveChannel(store, id))
  /\ UNCHANGED <<typed, orphans>>

\* clearCustomChannels() and resetChannels() leave the selection alone.
ConsoleClear ==
  /\ \/ StoreBecomes(ClearCustom(store)) /\ UNCHANGED typed
     \/ StoreBecomes(ResetChannels(store)) /\ typed' = {}
  /\ orphans' = orphans \cup (ToSet(store.selected) \ ToSet(PoolOrder))

ConsoleReset ==
  /\ StoreBecomes(ResetConfig(store))
  /\ typed' = {}
  /\ orphans' = {}

(***************************************************************************)
(* The publishers.                                                          *)
(***************************************************************************)
MuOf(p) == [id |-> p.id, list |-> p.list]
Place(id) == CHOOSE i \in DOMAIN pubs : pubs[i].id = id
HasActiveMu == \E i \in DOMAIN pubs : pubs[i].id = chosen
ServerIds(s) == [i \in DOMAIN ForServer(s) |-> ForServer(s)[i].id]

ListEdit == Event /\ ~running /\ UNCHANGED <<running, starts, typed, orphans>>

\* A new stream starts with its own copy of the current selection.
Seed(s) == IF s.selected # <<>> THEN s.selected ELSE ServerIds(s)

AddPublisher ==
  /\ ListEdit
  /\ Len(pubs) < MaxStreams
  /\ pubs' = Append(pubs, [id |-> nextId, number |-> Len(pubs) + 1,
                           list |-> Seed(store), count |-> Len(Seed(store))])
  /\ nextId' = nextId + 1
  /\ UNCHANGED <<store, chosen>>


RemovePublisher(i) ==
  /\ ListEdit
  /\ pubs' = RemoveAt(pubs, i)
  /\ IF pubs[i].id = chosen
     THEN chosen' = 0 /\ store' = Notified(SetUi(store, NoMu))
     ELSE UNCHANGED <<chosen, store>>
  /\ UNCHANGED nextId

\* A stream's list as edited: its card counts the list, and the frame shown
\* follows when the stream is the chosen one.
ListBecomes(i, list, shown) ==
  /\ Event
  /\ pubs' = [pubs EXCEPT ![i].list = list, ![i].count = Len(list)]
  /\ store' = IF shown THEN Notified(SetUi(store, MuOf(pubs'[i]))) ELSE store
  /\ UNCHANGED <<nextId, running, starts, typed, orphans>>

SelectPublisher(i) ==
  /\ ListBecomes(i, pubs[i].list, TRUE)
  /\ chosen' = pubs[i].id

\* _resizeChannels(): cut, or grown from what the server would be sent.
Resized(s, list, n) ==
  IF n <= Len(list) THEN SubSeq(list, 1, n)
  ELSE list \o Cut(Dropped(ServerIds(s), ToSet(list)), n - Len(list))

ResizeChannels(i, n) ==
  /\ ~running
  /\ n # pubs[i].count
  /\ ListBecomes(i, Resized(store, pubs[i].list, n), pubs[i].id = chosen)
  /\ UNCHANGED chosen

\* The frame's own controls: on the chosen stream, which it shows.
EditActive(list) == ListBecomes(Place(chosen), list, TRUE) /\ UNCHANGED chosen
ActiveList == pubs[Place(chosen)].list

RemoveMuChannelAt(i) == HasActiveMu /\ i \in DOMAIN ActiveList
                        /\ EditActive(RemoveAt(ActiveList, i))
ReorderMuChannel(i, j) == HasActiveMu /\ {i, j} \subseteq DOMAIN ActiveList /\ i # j
                          /\ EditActive(Moved(ActiveList, i, j))
ChangeMuChannelAt(i, id) == HasActiveMu /\ i \in DOMAIN ActiveList
                            /\ id \in IdsOf(store.channels)
                            /\ EditActive(ChangedAt(ActiveList, i, id))

\* A channel dropped on the frame: into the stream shown, or the selection.
DropChannel(id) ==
  /\ id \in IdsOf(store.channels)
  /\ id \notin ToSet(IF HasActiveMu THEN ActiveList ELSE store.selected)
  /\ IF HasActiveMu THEN EditActive(Append(ActiveList, id))
     ELSE StoreBecomes(AddSelected(store, id)) /\ UNCHANGED <<typed, orphans>>

\* The configuration page writes to the publisher itself.
EditHeader(i, name) ==
  /\ Event
  /\ pubs' = [pubs EXCEPT ![i].number = name]
  /\ UNCHANGED <<store, nextId, chosen, running, starts, typed, orphans>>

(***************************************************************************)
(* Start and the end of a run, as the set-up sees them.                     *)
(***************************************************************************)
\* Mutant of PubChannels: the frequency is taken to be what it was.
PubChannels_Once(p, pool, f) ==
  LET ids == Kept(p.list, IdsOf(pool))
  IN  [k \in DOMAIN ids |-> Find(pool, ids[k])]
\* _pubChannelObjects(): a stream's channels among those the server was to be
\* sent, with any 50 Hz moved to the system frequency once more.
PubChannels(p, pool, f) ==
  LET ids == Kept(p.list, IdsOf(pool))
  IN  [k \in DOMAIN ids |->
         [id |-> ids[k], hz |-> AtFrequency(Find(pool, ids[k]).hz, 50, f)]]

\* From the tests to the awaits of the interface and the back end's streams.
StartAll(t) ==
  /\ Event
  /\ starts[t] = Idle
  /\ ~running /\ pubs # <<>>
  /\ starts' = [starts EXCEPT ![t] =
       [next |-> 1, pool |-> ForServer(store), limit |-> MaxChannels[store.std],
        asked |-> store.freq, typed |-> typed, conf |-> NoConf]]
  /\ UNCHANGED <<store, pubs, nextId, chosen, running, typed, orphans>>

\* One turn of the loop over the list, which it runs over as it is now: list,
\* rate and frequency are those of the moment, storeChannels are not.
ConfigureNext(t) ==
  /\ starts[t].next \in DOMAIN pubs
  /\ starts' = [starts EXCEPT
       ![t].next = @ + 1,
       ![t].conf = [chs |-> PubChannels(pubs[starts[t].next], starts[t].pool, store.freq),
                    freq |-> store.freq]]
  /\ UNCHANGED <<store, pubs, nextId, chosen, running, typed, orphans, events>>

\* A call of any of its awaits fails, or there is no interface.
StartFails(t) ==
  /\ starts[t] # Idle
  /\ starts' = [starts EXCEPT ![t] = Idle]
  /\ UNCHANGED <<store, pubs, nextId, chosen, running, typed, orphans, events>>

StartEnds(t) ==
  /\ starts[t].next > Len(pubs)
  /\ starts' = [starts EXCEPT ![t] = Idle]
  /\ running' = TRUE
  /\ UNCHANGED <<store, pubs, nextId, chosen, typed, orphans, events>>

EndOfRun ==
  /\ running
  /\ running' = FALSE
  /\ UNCHANGED <<store, pubs, nextId, chosen, starts, typed, orphans, events>>

Done == /\ events = MaxEvents /\ ~running
        /\ \A t \in Starters : starts[t] = Idle
        /\ UNCHANGED vars

StoreStep ==
  \/ \E std \in Standards : ChooseStandard(std)
  \/ \E f \in Frequencies : ChooseFrequency(f)
  \/ \E n \in Rates : ChooseSpc(n)
  \/ \E n \in {1, 4} : ChooseAsdu(n)
  \/ \E id \in Ids, hz \in Typed : ApplyEquation(id, hz)
  \/ \E id \in Ids, hz \in Typed : CreateChannel(id, hz)
  \/ ApplyTemplate
  \/ \E file \in Files : LoadConfig(file)

ConsoleStep ==
  \/ ConsoleEdit
  \/ \E id \in Custom : ConsoleRemove(id)
  \/ ConsoleClear
  \/ ConsoleReset

StreamStep ==
  \/ AddPublisher
  \/ \E i \in DOMAIN pubs : RemovePublisher(i) \/ SelectPublisher(i)
  \/ \E i \in DOMAIN pubs, n \in 1..Cardinality(Ids) : ResizeChannels(i, n)
  \/ \E i \in 1..Cardinality(Ids) : RemoveMuChannelAt(i)
  \/ \E i, j \in 1..Cardinality(Ids) : ReorderMuChannel(i, j)
  \/ \E i \in 1..Cardinality(Ids), id \in Ids : ChangeMuChannelAt(i, id)
  \/ \E id \in Ids : DropChannel(id)
  \/ \E i \in DOMAIN pubs : EditHeader(i, 9)
  \/ \E t \in Starters :
       StartAll(t) \/ ConfigureNext(t) \/ StartFails(t) \/ StartEnds(t)

Next == StoreStep \/ ConsoleStep \/ StreamStep \/ EndOfRun \/ Done

Spec == Init /\ [][Next]_vars

-----------------------------------------------------------------------------
\* The type of every variable.
TypeOK ==
  /\ store.std \in Standards /\ store.freq \in Frequencies
  /\ store.spc \in Nat /\ store.rate \in Nat /\ store.asdu \in {1, 4}
  /\ store.selected \in Lists
  /\ \A i \in DOMAIN store.channels :
       store.channels[i] \in [id : Ids, base : BOOLEAN, hz : SUBSET Waves]
  /\ store.activeMu.id \in 0..nextId /\ store.activeMu.list \in Lists
  /\ store.dirty = {}
  /\ \A i \in DOMAIN pubs : /\ pubs[i].id \in 1..nextId
                            /\ pubs[i].list \in Lists
                            /\ pubs[i].count \in Nat
  /\ Len(pubs) <= MaxStreams /\ nextId \in Nat \ {0} /\ chosen \in 0..nextId
  /\ \A t \in Starters : starts[t].next \in 0..(MaxStreams + 1)
  /\ running \in BOOLEAN /\ typed \subseteq Ids /\ orphans \subseteq Ids
  /\ events \in 0..MaxEvents

\* The store stays consistent whoever writes it.  The rate announced and sent is
\* the product of the two settings it comes from, whichever of setConfig(), the
\* handlers and the subscriber of StreamSettings wrote last.  The frame has no
\* channel twice, and none that is not in the pool but for those a whole-pool
\* reset took away.  The pool holds every base channel once and no more than the
\* standard allows, through switches of standard, presets and channels made by
\* hand.  The frame shows the channels of the chosen stream, which is listed.
RateIsProduct == store.rate = store.spc * store.freq
SelectionKnown ==
  /\ IsInjective(store.selected)
  /\ ToSet(store.selected) \subseteq IdsOf(store.channels) \cup orphans
PoolFits ==
  /\ Len(store.channels) <= MaxChannels[store.std]
  /\ Cardinality(IdsOf(store.channels)) = Len(store.channels)
  /\ ToSet(PoolOrder) \subseteq IdsOf(store.channels)
FrameIsChosen ==
  store.activeMu # NoMu => \E i \in DOMAIN pubs : /\ pubs[i].id = chosen
                                                /\ store.activeMu = MuOf(pubs[i])
StoreConsistent ==
  TypeOK /\ RateIsProduct /\ SelectionKnown /\ PoolFits /\ FrameIsChosen

\* Whatever is edited, switched or reset while Start is on its way, each stream
\* is configured with a legal frame: no channel twice, and no more of them than
\* the standard allowed when Start was pressed.  An equation nobody typed runs at
\* the system frequency, in the store and in the configuration, whose frequency
\* is read later than its channels: only a change from 60 to 50 Hz in between
\* parts them.  Whoever wrote it, no 50 Hz sinusoid of the form
\* updateEquationFrequency() looks for is sent to a 60 Hz system.
SentFits ==
  \A t \in Starters : LET chs == starts[t].conf.chs
                       IN  /\ Len(chs) <= starts[t].limit
                           /\ Cardinality(IdsOf(chs)) = Len(chs)
InTune ==
  /\ \A i \in DOMAIN store.channels :
       store.channels[i].id \notin typed => store.channels[i].hz \subseteq {store.freq}
  /\ \A t \in Starters : \A k \in DOMAIN starts[t].conf.chs :
       /\ 50 \in starts[t].conf.chs[k].hz => starts[t].conf.freq = 50
       /\ \/ starts[t].conf.chs[k].id \in starts[t].typed
          \/ starts[t].conf.chs[k].hz \subseteq {starts[t].conf.freq}
          \/ starts[t].asked = 60 /\ starts[t].conf.freq = 50
SentIsLegal == SentFits /\ InTune

\* No panel shows anything but the present state: every change was announced
\* on a path its readers watch.
ViewsFresh == store.views = Shows(store)

\* A switch of standard keeps the equation of every channel it keeps, and the
\* order of the selected ones.
StandardKeepsEquations ==
  [][\A std \in Standards : ChooseStandard(std) =>
       /\ \A id \in IdsOf(store.channels) \cap IdsOf(store'.channels) :
            Find(store'.channels, id).hz = Find(store.channels, id).hz
       /\ LET kept == Kept(store.selected, IdsOf(store'.channels))
          IN  SubSeq(store'.selected, 1, Len(kept)) = kept]_vars

\* "Each publisher owns its own channel list ... independently of the global
\* config and the other streams" (MultiPublisher.js:50): a stream is sent the
\* channels of its own list that exist.
StreamKeepsItsChannels ==
  [][\A t \in Starters : ConfigureNext(t) =>
       [k \in DOMAIN starts'[t].conf.chs |-> starts'[t].conf.chs[k].id]
         = Kept(pubs[starts[t].next].list, IdsOf(store.channels))]_vars
=============================================================================
