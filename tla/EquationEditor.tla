--------------------------- MODULE EquationEditor ---------------------------
(***************************************************************************)
(* The data source card of the page: the equation tab (components/         *)
(* embeddedMathEditor.js), the hidden inputs that mirror the equations and *)
(* the capture tab (DataSource.js), and the table of channels              *)
(* (ChannelsDisplay.js).  The page is event driven: a handler runs to its  *)
(* end, and with it every subscriber of the store it notifies, the editor  *)
(* itself among them, which throws its own screen away and draws a new one.*)
(*                                                                         *)
(* An equation is abstracted to the name before its "=", its shape and its *)
(* magnitude.  "bad" does not compile; "nested" is a fraction over powers, *)
(* which the conversion from LaTeX turns into the product "other".         *)
(***************************************************************************)
EXTENDS Integers, Sequences, FiniteSets, SequencesExt

CONSTANTS
  Base,          \* the base channels, in order
  Neutral,       \* those of them that are neutrals
  Drafts,        \* the equations a user may type
  Magnitudes,    \* the magnitudes a user may enter
  AutoNames,     \* Ch1, Ch2, ...: the names generated, in order
  MaxChannels,   \* maxChannels of the standard that allows custom channels
  Files,         \* capture files
  MaxEdits       \* bound on what the user does

ASSUME RoomAssumption == MaxChannels \in Nat /\ MaxChannels >= Len(Base)

\* The names there may be.
Written == {d.name : d \in Drafts}
Names == ToSet(Base) \cup ToSet(AutoNames) \cup Written

ASSUME DraftsAssumption ==
  /\ Drafts \subseteq [name : Written, mag : Nat,
                       kind : {"const", "sine", "other", "nested", "bad", "empty"}]
  /\ Magnitudes \subseteq Nat
ASSUME NamesAssumption ==   \* a name has no blank: no label of the page is one
  /\ Base \in Seq(ToSet(Base)) /\ IsInjective(Base)
  /\ AutoNames \in Seq(ToSet(AutoNames)) /\ IsInjective(AutoNames)
  /\ {"none", "new", "loading"} \cap Names = {}

VARIABLES
  custom,     \* does the standard allow custom channels?
  channels,   \* data.channels of the store: a sequence of [id, eq]
  hidden,     \* the hidden inputs eq<id>, by id
  session,    \* the editor's module variables
  screen,     \* the editor as drawn
  table,      \* the table of channels as drawn
  pcap,       \* data.pcap of the store, the panel and the requests in flight
  edits
editorVars == <<custom, channels, hidden, session, screen, table, pcap, edits>>

None  == "none"       \* the label "Select a channel"
New   == "new"        \* the label "Creating New Channel"
NoMag == -1
Equation(name, kind, mag) == [name |-> name, kind |-> kind, mag |-> mag]
Empty == Equation("", "empty", 0)

Ids(chs) == {chs[i].id : i \in DOMAIN chs}
EqOf(chs, id) == chs[CHOOSE i \in DOMAIN chs : chs[i].id = id].eq

FromLatex(eq) == IF eq.kind = "nested" THEN [eq EXCEPT !.kind = "other"] ELSE eq

Valid(eq) == eq.kind \notin {"bad", "empty"}

\* getMagnitudeFromEquation(), setMagnitudeInEquation() ("bad": no such shape).
Magnitude(eq) == IF eq.name = "" /\ eq.kind \in {"const", "sine"} THEN eq.mag ELSE NoMag
WithMagnitude(eq, m) ==
  CASE Magnitude(eq) = NoMag -> [eq EXCEPT !.kind = "bad"]
    [] eq.kind = "const" /\ m = 0 -> eq
    [] OTHER -> Equation("", "sine", m)

\* syncMagnitudeInputFromEquation() and the two ways the screen is emptied.
MagnitudeSynced(scr, eq) ==
  [scr EXCEPT !.mag = IF eq = Empty THEN NoMag ELSE Magnitude(eq)]

Blank == [label |-> None, field |-> Empty, canApply |-> FALSE, cancel |-> FALSE,
          mag |-> NoMag, wired |-> FALSE]
NoScreen == [Blank EXCEPT !.label = "loading"]

(***************************************************************************)
(* The subscribers of data.channels.                                        *)
(***************************************************************************)

HiddenSynced(chs) ==
  [id \in DOMAIN hidden \cup Ids(chs) |->
     IF id \in Ids(chs) THEN EqOf(chs, id) ELSE hidden[id]]

\* _updateDisplay(): the rows whose equation differs from the last draw flash.
Drawn(tab, chs) ==
  [rows  |-> chs,
   flash |-> {id \in Ids(chs) \cap Ids(tab.rows) : EqOf(chs, id) # EqOf(tab.rows, id)}]

\* onGlobalStandardChanged(): a new screen, whose magnitude input has no handler.
Redrawn == IF screen = NoScreen THEN NoScreen ELSE Blank

SessionRedrawn == IF screen = NoScreen THEN session ELSE [session EXCEPT !.creating = FALSE]

\* A notification of data.channels.  The table subscribed to it twice.
Announce(chs) ==
  /\ channels' = chs
  /\ hidden' = HiddenSynced(chs)
  /\ table' = Drawn(Drawn(table, chs), chs)

AnnounceElsewhere(chs) ==
  /\ Announce(chs)
  /\ screen' = Redrawn
  /\ session' = SessionRedrawn

\* Mutant of Rewritten: channels with the same equation share it.
Rewritten_Shared(id, eq) ==
  [i \in DOMAIN channels |->
     IF channels[i].eq = EqOf(channels, id) THEN [channels[i] EXCEPT !.eq = eq]
                                            ELSE channels[i]]

Rewritten(id, eq) ==
  [i \in DOMAIN channels |->
     IF channels[i].id = id THEN [channels[i] EXCEPT !.eq = eq] ELSE channels[i]]

Happens == edits < MaxEdits /\ edits' = edits + 1
EditorUp == screen # NoScreen
StoreStays == UNCHANGED <<custom, channels, hidden, table, pcap>>

EditorInit ==
  /\ custom = FALSE
  /\ channels = [i \in DOMAIN Base |-> [id |-> Base[i], eq |-> Equation("", "sine", 1)]]
  /\ hidden = [id \in ToSet(Base) |-> Equation("", "sine", 1)]
  /\ session = [current |-> None, creating |-> FALSE, counter |-> 1]
  /\ screen = NoScreen
  /\ table = [rows |-> channels, flash |-> {}]
  /\ pcap = [file |-> None, panel |-> None, tab |-> "pcap", mode |-> "equation",
             calls |-> <<>>]
  /\ edits = 0

\* initEmbeddedMathEditor(): MathLive has loaded, and only now the editor
\* subscribes to the store.
MathLiveLoads ==
  /\ ~EditorUp
  /\ screen' = [Blank EXCEPT !.wired = TRUE]
  /\ StoreStays /\ UNCHANGED <<session, edits>>

(***************************************************************************)
(* The session: which channel is edited, or that one is being created.      *)
(***************************************************************************)
Session(current, creating) ==
  session' = [session EXCEPT !.current = current, !.creating = creating]

\* Mutant of ClickChannel: creation is not left.
ClickChannel_Creating(id) ==
  /\ EditorUp /\ id \in Ids(channels) /\ Happens
  /\ Session(id, session.creating)
  /\ screen' = MagnitudeSynced([screen EXCEPT !.label = id, !.field = hidden[id],
                                              !.canApply = TRUE], hidden[id])
  /\ StoreStays

\* A channel's button: leaves creation, loads the hidden input of the channel.
ClickChannel(id) ==
  /\ EditorUp /\ id \in Ids(channels) /\ Happens
  /\ Session(id, FALSE)
  /\ screen' = MagnitudeSynced([screen EXCEPT !.label = id, !.field = hidden[id],
                                              !.canApply = TRUE, !.cancel = FALSE],
                               hidden[id])
  /\ StoreStays

\* enterNewChannelMode(): leaves the magnitude input as it was.
ClickNew ==
  /\ EditorUp /\ custom /\ Happens
  /\ Session(None, TRUE)
  /\ screen' = [screen EXCEPT !.label = New, !.field = Empty, !.canApply = TRUE,
                              !.cancel = TRUE]
  /\ StoreStays

\* exitNewChannelMode()
Exited(scr) == [scr EXCEPT !.label = None, !.field = Empty, !.canApply = FALSE,
                           !.cancel = FALSE]
CancelNew ==
  /\ EditorUp /\ screen.cancel /\ Happens
  /\ Session(None, FALSE)
  /\ screen' = Exited(screen)
  /\ StoreStays

\* The 'input' listener of the field; handleClearEquation() fires none.
Type(d) ==
  /\ EditorUp /\ d # screen.field /\ Happens
  /\ screen' = MagnitudeSynced([screen EXCEPT !.field = d], FromLatex(d))
  /\ StoreStays /\ UNCHANGED session

Clear ==
  /\ EditorUp /\ screen.field # Empty /\ Happens
  /\ screen' = [screen EXCEPT !.field = Empty]
  /\ StoreStays /\ UNCHANGED session

(***************************************************************************)
(* Apply.                                                                   *)
(***************************************************************************)
\* generateDefaultChannelName(): the counter never goes back.
AutoName(n) ==
  CHOOSE k \in DOMAIN AutoNames :
    /\ k >= n /\ AutoNames[k] \notin Ids(channels)
    /\ \A j \in n..(k - 1) : AutoNames[j] \in Ids(channels)

\* parseChannelDefinition()
NameOf(d) == IF d.name # "" THEN d.name ELSE AutoNames[AutoName(session.counter)]
Counted(d) == IF d.name # "" THEN session.counter ELSE AutoName(session.counter) + 1

CanAdd(id) == custom /\ Len(channels) < MaxChannels /\ id \notin Ids(channels)

\* The store announces the channel, the editor is redrawn by that, and then
\* leaves creation; a refusal (invalid, taken, full) changes the counter only.
\* AutoNames bounds the names that can be generated.
CreateChannel ==
  LET d  == FromLatex(screen.field)
      id == NameOf(d)
  IN  /\ EditorUp /\ screen.canApply /\ session.creating /\ d # Empty /\ Happens
      /\ d.name = "" => session.counter + Len(channels) <= Len(AutoNames)
      /\ IF Valid(d) /\ CanAdd(id)
         THEN /\ Announce(Append(channels, [id |-> id, eq |-> [d EXCEPT !.name = ""]]))
              /\ screen' = Exited(Redrawn)
              /\ session' = [current |-> None, creating |-> FALSE, counter |-> Counted(d)]
              /\ UNCHANGED <<custom, pcap>>
         ELSE /\ session' = [session EXCEPT !.counter = Counted(d)]
              /\ StoreStays /\ UNCHANGED screen

\* An existing channel: what the field holds is stored as it is, a name and
\* "=" included.
ApplyToChannel ==
  LET d == FromLatex(screen.field)
  IN  /\ EditorUp /\ screen.canApply /\ ~session.creating /\ Happens
      /\ session.current \in Ids(channels) /\ Valid(d)
      /\ AnnounceElsewhere(Rewritten(session.current, d))
      /\ UNCHANGED <<custom, pcap>>

(***************************************************************************)
(* The magnitude input.                                                     *)
(***************************************************************************)
\* The equation is the store's; NoMag is an entry that is no number.  The
\* handler goes on after the redraw its own
\* change caused, and writes the equation into the new field.
MagnitudeChange(m) ==
  /\ EditorUp /\ screen.mag # NoMag /\ m # screen.mag /\ Happens
  /\ IF screen.wired /\ session.current \in Ids(channels) /\ ~session.creating
     THEN LET eq == EqOf(channels, session.current)
              new == WithMagnitude(eq, m)
          IN  IF m # NoMag /\ Valid(new) /\ new # eq
              THEN /\ Announce(Rewritten(session.current, new))
                   /\ screen' = [Redrawn EXCEPT !.field = new]
                   /\ session' = SessionRedrawn
              ELSE /\ screen' = IF m # NoMag /\ new = eq THEN [screen EXCEPT !.mag = m]
                                ELSE MagnitudeSynced(screen, eq)
                   /\ UNCHANGED <<channels, hidden, table, session>>
     ELSE /\ m # NoMag
          /\ screen' = [screen EXCEPT !.mag = m]
          /\ UNCHANGED <<channels, hidden, table, session>>
  /\ UNCHANGED <<custom, pcap>>

(***************************************************************************)
(* Changes that come from elsewhere on the page while the user edits.       *)
(***************************************************************************)
\* applyFaultTemplate(): the base channels get faulted sinusoids or 0.
FaultTemplate ==
  /\ EditorUp /\ Happens
  /\ AnnounceElsewhere([i \in DOMAIN channels |->
       IF channels[i].id \in ToSet(Base)
       THEN [channels[i] EXCEPT !.eq = IF channels[i].id \in Neutral
                                       THEN Equation("", "const", 0)
                                       ELSE Equation("", "sine", 2)]
       ELSE channels[i]])
  /\ UNCHANGED <<custom, pcap>>

BaseOnly(chs) ==
  LET upto[n \in 0..Len(chs)] ==
        IF n = 0 THEN <<>>
        ELSE IF chs[n].id \in ToSet(Base) THEN Append(upto[n - 1], chs[n]) ELSE upto[n - 1]
  IN  upto[Len(chs)]

\* Another standard: fixed channels only, or custom ones too.
StandardChange ==
  /\ Happens
  /\ custom' = ~custom
  /\ AnnounceElsewhere(IF custom THEN BaseOnly(channels) ELSE channels)
  /\ UNCHANGED pcap

(***************************************************************************)
(* The capture tab.                                                         *)
(***************************************************************************)
ShowTab(t) ==
  /\ pcap.tab # t /\ Happens
  /\ pcap' = [pcap EXCEPT !.tab = t, !.mode = t]
  /\ UNCHANGED <<custom, channels, hidden, session, screen, table>>

\* uploadPcap() and removePcap() wait for a server.
Call(c) ==
  /\ pcap.tab = "pcap" /\ Happens
  /\ pcap' = [pcap EXCEPT !.calls = Append(@, c)]
  /\ UNCHANGED <<custom, channels, hidden, session, screen, table>>
Upload(f) == pcap.panel = None /\ Call(f)
RemovePcap == pcap.panel # None /\ Call(None)

Loaded(f, ok) == IF ok THEN [pcap EXCEPT !.file = f, !.panel = f] ELSE pcap

\* Answers come in any order; a removal is carried out whatever the answer.
Answer(i, ok) ==
  /\ i \in DOMAIN pcap.calls
  /\ LET c == pcap.calls[i]
         after == IF c = None THEN [pcap EXCEPT !.file = None, !.panel = None]
                              ELSE Loaded(c, ok)
     IN  pcap' = [after EXCEPT !.calls = RemoveAt(@, i)]
  /\ UNCHANGED <<custom, channels, hidden, session, screen, table, edits>>

EditorNext ==
  \/ MathLiveLoads
  \/ \E id \in Names : ClickChannel(id)
  \/ ClickNew \/ CancelNew \/ Clear \/ CreateChannel \/ ApplyToChannel
  \/ \E d \in Drafts : Type(d)
  \/ \E m \in Magnitudes \cup {NoMag} : MagnitudeChange(m)
  \/ FaultTemplate \/ StandardChange
  \/ \E t \in {"pcap", "equation"} : ShowTab(t)
  \/ \E f \in Files : Upload(f)
  \/ RemovePcap
  \/ \E i \in DOMAIN pcap.calls, ok \in BOOLEAN : Answer(i, ok)

EditorSpec == EditorInit /\ [][EditorNext]_editorVars

(***************************************************************************)
(* Properties.                                                              *)
(***************************************************************************)
\* Types of the state.
EditorTypeOK ==
  /\ custom \in BOOLEAN
  /\ \A i \in DOMAIN channels : channels[i].eq \in
       [name : Written \cup {""}, kind : {"const", "sine", "other"}, mag : Nat]
  /\ session.current \in Ids(channels) \cup {None} \cup DOMAIN hidden
  /\ session.creating \in BOOLEAN
  /\ session.counter \in 1..(Len(AutoNames) + 1)
  /\ screen.mag \in Nat \cup {NoMag}

\* Whatever notification redraws the editor and whatever the user was doing,
\* the Apply button is enabled only while the label says what it will do: to
\* the channel the session holds, which exists, or to create one
\* (onGlobalStandardChanged() forgets the creation but not the channel).
LabelTellsTarget ==
  /\ screen.canApply => screen.label \notin {None, "loading"}
  /\ screen.label \in Ids(channels) => /\ session.current = screen.label
                                       /\ ~session.creating
  /\ screen.label = New => session.creating /\ screen.cancel /\ custom
  /\ screen.label \in Ids(channels) \cup {New, None, "loading"}

\* The hidden inputs, which are read for the data sent, and the table show
\* the equations of the store: no path leaves a mirror behind
\* (syncEquationsFromStore(), _updateDisplay()).
MirrorsFresh ==
  /\ \A i \in DOMAIN channels : /\ channels[i].id \in DOMAIN hidden
                                /\ hidden[channels[i].id] = channels[i].eq
  /\ table.rows = channels

\* No name occurs twice in the pool, generated names included, and the pool
\* fits the standard (parseChannelDefinition(), generateDefaultChannelName(),
\* handleApplyEquation()).
NamesUnique ==
  /\ Cardinality(Ids(channels)) = Len(channels)
  /\ Len(channels) <= MaxChannels
  /\ ~custom => Ids(channels) = ToSet(Base)

\* The panel of the capture tab shows the capture of the store, with uploads
\* and a removal answered in any order (showPcapInfo(), removePcap()).
PanelShowsCapture == pcap.panel = pcap.file

\* The editor, its mirrors, the pool and the capture tab tell the same story
\* after any order of edits, notifications and answers.
EditorConsistent ==
  EditorTypeOK /\ LabelTellsTarget /\ MirrorsFresh /\ NamesUnique /\ PanelShowsCapture

\* Apply changes the labelled channel and no other, to what the field holds;
\* creating a channel leaves every other as it was.
ApplyHitsShown ==
  [][ApplyToChannel \/ CreateChannel =>
       /\ \A id \in Ids(channels) :
            id \in Ids(channels') /\ (id # screen.label => EqOf(channels', id) = EqOf(channels, id))
       /\ screen.label \in Ids(channels) =>
            EqOf(channels', screen.label) = FromLatex(screen.field)
       /\ screen.label = New => Cardinality(Ids(channels')) = Len(channels')]_editorVars
=============================================================================
