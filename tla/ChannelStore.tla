---------------------------- MODULE ChannelStore ----------------------------
(***************************************************************************)
(* The state store of the page (web/js/store/index.js, shared/standards.js) *)
(* as operators on its state: the sampling parameters, the pool of          *)
(* channels, the channels selected for the frame, the stream under          *)
(* inspection, the paths whose change is still to be announced and what     *)
(* each subscriber shows.  An equation is abstracted to the set of its      *)
(* sinusoids: the system frequency of one written "PI * f * t", which is    *)
(* the form the store can rewrite, and Otherwise for one it cannot.         *)
(***************************************************************************)
EXTENDS Integers, Sequences, FiniteSets, SequencesExt, Functions

CONSTANTS
  LEOrder,      \* channelOrder of 9-2LE
  PoolOrder,    \* the order taken where a standard has none
  Preset,       \* ADDITIONAL_CHANNELS and the test patterns: [id, tuned]
  MaxChannels   \* maxChannels of each standard

Standards   == {"9-2LE", "9-2", "61869"}
Frequencies == {50, 60}
Otherwise   == 0                        \* "PI * t * 50", "314 * t", ...
Waves       == Frequencies \cup {Otherwise}
SettingsLE  == {80, 256}                \* samples per cycle offered for 9-2LE
NoMu        == [id |-> 0, list |-> <<>>]

ASSUME OrdersAssumption ==
  /\ LEOrder \in Seq(ToSet(LEOrder)) /\ PoolOrder \in Seq(ToSet(PoolOrder))
  /\ IsInjective(LEOrder) /\ IsInjective(PoolOrder)
  /\ ToSet(LEOrder) = ToSet(PoolOrder)
ASSUME PresetAssumption ==
  /\ Preset \in Seq([id : {Preset[i].id : i \in DOMAIN Preset}, tuned : BOOLEAN])
  /\ \A i, j \in DOMAIN Preset : Preset[i].id = Preset[j].id => i = j
ASSUME RoomAssumption ==
  \A std \in Standards : MaxChannels[std] \in Nat /\ MaxChannels[std] >= Len(PoolOrder)

\* Array.filter(): the elements of a list that are in T, in their order.
Kept(list, T) ==
  LET upto[n \in 0..Len(list)] ==
        IF n = 0 THEN <<>>
        ELSE IF list[n] \in T THEN Append(upto[n - 1], list[n]) ELSE upto[n - 1]
  IN  upto[Len(list)]
Dropped(list, T) == Kept(list, ToSet(list) \ T)
\* Array.slice(0, n)
Cut(list, n) == SubSeq(list, 1, IF n < Len(list) THEN n ELSE Len(list))

AllowsCustom(std) == std # "9-2LE"
AllowsASDU(std)   == std # "9-2LE"
Order(std) == IF std = "9-2LE" THEN LEOrder ELSE PoolOrder
\* The channels a switch to std adds to the selection: none without an order.
OrderGiven(std) == IF std = "9-2LE" THEN LEOrder ELSE <<>>

Channel(id, base, hz) == [id |-> id, base |-> base, hz |-> hz]
IdsOf(chs) == {chs[i].id : i \in DOMAIN chs}
Find(chs, id) == chs[CHOOSE i \in DOMAIN chs : chs[i].id = id]

\* updateEquationFrequency: the sinusoids written with one frequency in the form
\* of the pattern move to another; the rest of the equation stays.
AtFrequency(hz, old, new) == {IF f = old THEN new ELSE f : f \in hz}

InitialChannels(std, f) ==
  [i \in DOMAIN Order(std) |-> Channel(Order(std)[i], TRUE, {f})]

(***************************************************************************)
(* Subscribers.  What each would show if it refreshed now, and the paths it *)
(* refreshes on.                                                            *)
(***************************************************************************)
Shows(s) ==
  [settings |-> [freq |-> s.freq, spc |-> s.spc, rate |-> s.rate],
   standard |-> s.std,
   tree     |-> [list |-> s.activeMu.list, asdu |-> s.asdu, rate |-> s.rate],
   channels |-> [i \in DOMAIN s.channels |-> <<s.channels[i].id, s.channels[i].hz>>]]

ConfigPaths == {"std", "freq", "spc", "rate", "asdu", "selected"}
WatchedBy ==
  [settings |-> {"freq", "spc", "rate", "std"},
   standard |-> {"std"},
   tree     |-> ConfigPaths \cup {"activeMu"},
   channels |-> {"channels", "std", "freq"}]

Refreshed(s) ==
  [s EXCEPT !.views = [v \in DOMAIN WatchedBy |->
                         IF WatchedBy[v] \cap s.dirty # {} THEN Shows(s)[v]
                                                           ELSE s.views[v]]]


\* Every equation follows a change of the system frequency.
Retuned(s, old, new) ==
  [s EXCEPT !.channels = [i \in DOMAIN s.channels |->
                            [s.channels[i] EXCEPT !.hz = AtFrequency(@, old, new)]],
            !.dirty = @ \cup {"channels"}]

\* Arrays are compared by reference: a new selection is always a change.
Changed(s, updates) ==
  {k \in DOMAIN updates : k = "selected" \/ updates[k] # s[k]}

Updated(s, updates, k) == IF k \in DOMAIN updates THEN updates[k] ELSE s[k]

Written(s, updates) ==
  [s EXCEPT !.std  = Updated(s, updates, "std"),
            !.freq = Updated(s, updates, "freq"),
            !.spc  = Updated(s, updates, "spc"),
            !.rate = Updated(s, updates, "rate"),
            !.asdu = Updated(s, updates, "asdu"),
            !.selected = Updated(s, updates, "selected"),
            !.dirty = @ \cup Changed(s, updates)]

RateComputed(s) ==
  IF s.rate = s.spc * s.freq THEN s
  ELSE [s EXCEPT !.rate = s.spc * s.freq, !.dirty = @ \cup {"rate"}]

SetConfig(s, updates) ==
  LET w == Written(s, updates)
      r == IF DOMAIN updates \cap {"freq", "spc"} # {} THEN RateComputed(w) ELSE w
  IN  IF "freq" \in Changed(s, updates) THEN Retuned(r, s.freq, r.freq) ELSE r

SetUi(s, mu) == [s EXCEPT !.activeMu = mu, !.dirty = @ \cup {"activeMu"}]

\* StreamSettings.syncFromStore(), a subscriber that writes back: samples per
\* cycle that 9-2LE does not offer are replaced, and the rate is set again.
DropdownRebuilt(s) ==
  IF s.std = "9-2LE" /\ s.spc \notin SettingsLE THEN SetConfig(s, [spc |-> 80]) ELSE s

RateUpdated(s) == SetConfig(s, [rate |-> s.freq * s.spc])
SettingsSynced(s) ==
  IF WatchedBy.settings \cap s.dirty # {} THEN RateUpdated(DropdownRebuilt(s)) ELSE s


\* _notifyChanges() outside a batch, with the changes its callbacks announce.
Notified(s) == [Refreshed(SettingsSynced(s)) EXCEPT !.dirty = {}]

(***************************************************************************)
(* The standard.                                                            *)
(***************************************************************************)
\* Mutant of BaseFor: a switch restores the default equations.
BaseFor_Default(s, std) == InitialChannels(std, s.freq)

BaseFor(s, std) ==
  [i \in DOMAIN Order(std) |->
     LET id == Order(std)[i]
     IN  Channel(id, TRUE, IF id \in IdsOf(s.channels) THEN Find(s.channels, id).hz
                                                       ELSE {s.freq})]


CustomFor(s, std) ==
  IF AllowsCustom(std)
  THEN Cut(Kept(s.channels, {ch \in ToSet(s.channels) : ~ch.base}),
           MaxChannels[std] - Len(Order(std)))
  ELSE <<>>

\* Mutant of SelectionFor: keeps what the pool lost.
SelectionFor_Unpruned(s, std, channels) ==
  s.selected \o Dropped(OrderGiven(std), ToSet(s.selected))

SelectionFor(s, std, channels) ==
  LET kept == Kept(s.selected, IdsOf(channels))
  IN  kept \o Dropped(OrderGiven(std), ToSet(kept))

Rebuilt(s, std) ==
  LET channels == BaseFor(s, std) \o CustomFor(s, std)
  IN  [s EXCEPT !.channels = channels,
                !.selected = SelectionFor(s, std, channels),
                !.dirty = @ \cup {"channels", "selected"}]

\* setStandard(): one batch, announced when it ends.
SetStandard(s, std) ==
  IF s.std = std THEN s
  ELSE Notified(Rebuilt(SetConfig(s, [std |-> std, spc |-> 80]), std))

SetNoASDU(s, n) ==
  IF AllowsASDU(s.std) \/ n = 1 THEN Notified(SetConfig(s, [asdu |-> n])) ELSE s

(***************************************************************************)
(* The selection: the channels of the frame, in order.                      *)
(***************************************************************************)
Select(s, list) == Notified(SetConfig(s, [selected |-> list]))

SetSelected(s, list) == Select(s, Kept(list, IdsOf(s.channels)))

AddSelected(s, id) ==
  IF /\ id \in IdsOf(s.channels)
     /\ id \notin ToSet(s.selected)
     /\ Len(s.selected) < MaxChannels[s.std]
  THEN Select(s, Append(s.selected, id)) ELSE s

RemoveSelected(s, id) ==
  IF id \in ToSet(s.selected) THEN Select(s, Dropped(s.selected, {id})) ELSE s

\* Array.splice out of one place and into another.
Moved(list, from, to) == InsertAt(RemoveAt(list, from), to, list[from])

ReorderSelected(s, from, to) ==
  IF {from, to} \subseteq DOMAIN s.selected
  THEN Select(s, Moved(s.selected, from, to)) ELSE s

\* A channel already elsewhere in the list changes places with the old one.
ChangedAt(list, i, id) ==
  [k \in DOMAIN list |-> CASE k = i -> id
                           [] k # i /\ list[k] = id -> list[i]
                           [] OTHER -> list[k]]

ChangeSelectedAt(s, i, id) ==
  IF id \in IdsOf(s.channels) /\ i \in DOMAIN s.selected
  THEN Select(s, ChangedAt(s.selected, i, id)) ELSE s

(***************************************************************************)
(* The pool of channels.                                                    *)
(***************************************************************************)
\* Mutant of UpdateEquation: announces nothing.
UpdateEquation_Quiet(s, id, hz) ==
  IF id \in IdsOf(s.channels)
  THEN [s EXCEPT !.channels = [i \in DOMAIN @ |->
                                 IF @[i].id = id THEN [@[i] EXCEPT !.hz = hz] ELSE @[i]]]
  ELSE s

UpdateEquation(s, id, hz) ==
  IF id \in IdsOf(s.channels)
  THEN Notified([s EXCEPT !.channels = [i \in DOMAIN @ |->
                                          IF @[i].id = id THEN [@[i] EXCEPT !.hz = hz]
                                                          ELSE @[i]],
                          !.dirty = @ \cup {"channels"}])
  ELSE s

CanAdd(s, id) ==
  /\ AllowsCustom(s.std)
  /\ Len(s.channels) < MaxChannels[s.std]
  /\ id \notin IdsOf(s.channels)

AddChannel(s, id, hz) ==
  IF CanAdd(s, id)
  THEN Notified([s EXCEPT
         !.channels = Append(@, Channel(id, FALSE, AtFrequency(hz, 50, s.freq))),
         !.selected = IF id \in ToSet(@) THEN @ ELSE Append(@, id),
         !.dirty = @ \cup {"channels", "selected"}])
  ELSE s

RemoveChannel(s, id) ==
  IF id \in IdsOf(s.channels) /\ ~Find(s.channels, id).base
  THEN Notified([s EXCEPT !.channels = Kept(@, {ch \in ToSet(@) : ch.id # id}),
                          !.selected = Dropped(@, {id}),
                          !.dirty = @ \cup {"channels", "selected"}])
  ELSE s

\* The presets not in the pool yet, as many as there is room for.
PresetChannels(s) ==
  LET fresh == Kept(Preset, {p \in ToSet(Preset) : p.id \notin IdsOf(s.channels)})
      taken == Cut(fresh, MaxChannels[s.std] - Len(s.channels))
  IN  [i \in DOMAIN taken |->
         Channel(taken[i].id, FALSE, IF taken[i].tuned THEN {s.freq} ELSE {})]

AddPresets(s) ==
  IF AllowsCustom(s.std) /\ PresetChannels(s) # <<>>
  THEN Notified([s EXCEPT !.channels = @ \o PresetChannels(s),
                          !.dirty = @ \cup {"channels"}])
  ELSE s

ClearCustom(s) ==
  Notified([s EXCEPT !.channels = Kept(@, {ch \in ToSet(@) : ch.base}),
                     !.dirty = @ \cup {"channels"}])

\* setData({ channels }) with a new array.
SetChannels(s, chs) == Notified([s EXCEPT !.channels = chs, !.dirty = @ \cup {"channels"}])

ResetChannels(s) == SetChannels(s, InitialChannels(s.std, s.freq))

InitialConfig ==
  [std |-> "9-2LE", freq |-> 60, spc |-> 80, rate |-> 4800, asdu |-> 1,
   selected |-> LEOrder]

ResetConfig(s) ==
  Notified([SetConfig(s, InitialConfig) EXCEPT
              !.channels = InitialChannels("9-2LE", 60), !.dirty = @ \cup {"channels"}])

\* getDataForServer(): the selected channels that exist, in order, with any
\* 50 Hz left in an equation moved to the system frequency.
ForServer(s) ==
  LET ids == Kept(s.selected, IdsOf(s.channels))
  IN  [i \in DOMAIN ids |->
         [id |-> ids[i], hz |-> AtFrequency(Find(s.channels, ids[i]).hz, 50, s.freq)]]

NewStore ==
  LET s == [std |-> "9-2LE", freq |-> 60, spc |-> 80, rate |-> 4800, asdu |-> 1,
            selected |-> LEOrder, channels |-> InitialChannels("9-2LE", 60),
            activeMu |-> NoMu, dirty |-> {}, views |-> <<>>]
  IN  [s EXCEPT !.views = Shows(s)]
=============================================================================
