------------------------- MODULE PublisherPanel_proofs -------------------------
(***************************************************************************)
(* Proofs about PublisherPanel for any number of starts in flight, any     *)
(* list and every bound.                                                   *)
(*                                                                         *)
(* The page learns of the backend by answers that come in the order of the *)
(* calls.  So what the page does not know yet is in the calls in flight,   *)
(* and the parts of the invariant say what a call at some place of the     *)
(* line, executed or not, tells of the backend.                            *)
(***************************************************************************)
EXTENDS PublisherPanel, SequenceTheorems, TLAPS

Commands == {"open", "clear", "add", "conf", "side", "goose", "start",
             "stop", "gstop", "running?", "reset", "close"}
Calls == [by : Tasks \union {"gone"}, cmd : Commands, arg : {0} \union Ids,
          res : {"none", "ok", "rejected"}, value : Nat]
Works == [at : Labels, pub : {0} \union Lids, i : Nat, viaHeader : BOOLEAN]
Engines == [pubs : SUBSET Ids, conf : SUBSET Ids, live : SUBSET Ids,
            goose : SUBSET ({0} \union Ids), open : BOOLEAN, running : BOOLEAN,
            next : 1 .. MaxId + 1]

StartLabels == {"idle", "open", "clear", "add", "conf", "side", "goose",
                "start", "rollback"}
LabelsOf(t) ==
    CASE t = "stop"  -> {"idle", "stop", "gstop"}
      [] t = "reset" -> {"idle", "reset", "close"}
      [] t \in {"poll", "back", "hello", "load"} -> {"idle", "running?"}
      [] OTHER       -> StartLabels
CommandOf(label) == IF label = "rollback" THEN "clear" ELSE label

TypeInv ==
    /\ TypeOK
    /\ task \in [Tasks -> Works] /\ calls \in Seq(Calls) /\ engine \in Engines
    /\ \A t \in Tasks : /\ task[t].at \in LabelsOf(t)
                        /\ task[t].at \in {"add", "conf", "side", "goose"}
                              => task[t].pub \in Lids

\* One call for each handler that waits, and it is the one the handler waits
\* for; executed calls are before the others, those of a page that is gone too.
QueueInv ==
    /\ \A j, k \in DOMAIN calls :
         /\ j < k /\ calls[j].res = "none" => calls[k].res = "none"
         /\ j < k /\ calls[k].by = "gone" => calls[j].by = "gone"
         /\ calls[j].by = calls[k].by /\ calls[k].by # "gone" => j = k
    /\ \A k \in DOMAIN calls :
         calls[k].by # "gone" =>
            /\ task[calls[k].by].at # "idle"
            /\ calls[k].cmd = CommandOf(task[calls[k].by].at)
    /\ \A t \in Tasks : task[t].at # "idle" => \E k \in DOMAIN calls : calls[k].by = t
    /\ ~dropped => \A k \in DOMAIN calls :
                     calls[k].res = "rejected" => calls[k].cmd \in {"add", "conf", "start"}

\* A number the page has, or is about to be told, is given once.
Added(c) == c.cmd = "add" /\ c.res = "ok"
IdsInv ==
    /\ IdsNotShared
    /\ \A l \in Lids : bid[l] < engine.next
    /\ \A k \in DOMAIN calls :
         /\ calls[k].arg < engine.next
         /\ Added(calls[k]) =>
              /\ calls[k].value \in 1 .. engine.next - 1
              /\ \A l \in Lids : bid[l] # calls[k].value
              /\ \A j \in DOMAIN calls :
                   Added(calls[j]) /\ calls[j].value = calls[k].value => j = k
    /\ \A i \in DOMAIN list : list[i] < nextLid
    /\ \A i, j \in DOMAIN list : list[i] = list[j] => i = j

\* Who says that no run is on is right, unless one was started since.
Ended(c) == c.res = "ok" /\ (c.cmd \in {"stop", "reset"} \/ (c.cmd = "running?" /\ c.value = 0))
Begun(c) == c.cmd = "start" /\ c.res = "ok"
EndInv ==
    \A k \in DOMAIN calls :
       Ended(calls[k]) /\ engine.running => \E j \in DOMAIN calls : k < j /\ Begun(calls[j])

\* Between a stop or a reset and the next call of the same handler nothing is
\* configured: the publishers added since are not known to the page.
Configures(c) == c.cmd = "conf" /\ c.res = "none"
CutInv ==
    /\ \A k \in DOMAIN calls :
         calls[k].cmd \in {"stop", "reset"} /\ calls[k].res = "ok" /\ calls[k].by # "gone" =>
            /\ engine.conf = {} /\ ~engine.running
            /\ \A l \in Lids : bid[l] \notin engine.pubs
            /\ \A j \in DOMAIN calls : Configures(calls[j]) => calls[j].arg \notin engine.pubs
            /\ \A j \in DOMAIN calls : j < k /\ Added(calls[j]) => calls[j].value \notin engine.pubs
    /\ \A k \in DOMAIN calls :
         calls[k].cmd \in {"gstop", "close"} /\ calls[k].res = "none" /\ calls[k].by # "gone"
               /\ ~dropped =>
            /\ engine.conf = {} /\ ~engine.running
            /\ \A j \in DOMAIN calls :
                 j < k /\ Configures(calls[j]) => calls[j].arg \notin engine.pubs

\* What has happened since that second call is behind it.
Behind(k, cmd) ==
    \E j \in DOMAIN calls : k < j /\ calls[j].cmd = cmd /\ calls[j].res = "ok"
SinceInv ==
    ~dropped => \A k \in DOMAIN calls :
       calls[k].cmd \in {"gstop", "close"} /\ calls[k].res = "ok" /\ calls[k].by # "gone" =>
          /\ engine.conf # {} => Behind(k, "conf")
          /\ engine.running => Behind(k, "conf") /\ Behind(k, "start")
          /\ calls[k].cmd = "gstop" /\ engine.goose # {} => Behind(k, "goose")
          /\ calls[k].cmd = "close" =>
               /\ engine.open => Behind(k, "open")
               /\ engine.running => Behind(k, "open")

\* After a reset nothing in flight starts a run.
Pending(cmd) == \E k \in DOMAIN calls : calls[k].cmd = cmd /\ calls[k].res = "none"
FreshInv ==
    fresh => /\ Starting = {}
             /\ ~dropped =>
                  /\ ~engine.running
                  /\ \/ ~Pending("start")
                     \/ ~engine.open /\ ~Pending("open")
                     \/ engine.conf = {} /\ ~Pending("conf")
-----------------------------------------------------------------------------
(* How the calls change: the first d go, and if n = 1 then c comes last.   *)
Moves(d, n, c) ==
    /\ d \in {0, 1} /\ n \in {0, 1} /\ d <= Len(calls)
    /\ calls' \in Seq(Calls)
    /\ Len(calls') = Len(calls) - d + n
    /\ \A i \in 1 .. Len(calls) - d : calls'[i] = calls[i + d]
    /\ n = 1 => calls'[Len(calls) - d + 1] = c

LEMMA CallsInLine ==
    ASSUME TypeInv
    PROVE  /\ Len(calls) \in Nat /\ DOMAIN calls = 1 .. Len(calls)
           /\ \A k \in DOMAIN calls : calls[k] \in Calls
           /\ calls = <<>> <=> DOMAIN calls = {}
  BY LenProperties, ElementOfSeq, EmptySeq DEF TypeInv

\* The same, seen from a call before and from a call after.
LEMMA MovesOn ==
    ASSUME TypeInv, NEW d, NEW n, NEW c, Moves(d, n, c)
    PROVE  /\ d \in {0, 1} /\ n \in {0, 1}
           /\ DOMAIN calls \subseteq Nat \ {0} /\ DOMAIN calls' \subseteq Nat \ {0}
           /\ \A k \in DOMAIN calls' : calls'[k] \in Calls
           /\ \A j \in DOMAIN calls :
                j > d => j - d \in DOMAIN calls' /\ calls'[j - d] = calls[j]
           /\ \A i \in DOMAIN calls' :
                \/ i + d \in DOMAIN calls /\ calls'[i] = calls[i + d]
                \/ /\ n = 1 /\ i = Len(calls) - d + 1 /\ calls'[i] = c
                   /\ \A j \in DOMAIN calls : j - d < i
           /\ n = 1 => \E i \in DOMAIN calls' :
                          /\ i = Len(calls) - d + 1 /\ calls'[i] = c
                          /\ \A j \in DOMAIN calls : j - d < i
  <1> DEFINE m == Len(calls) - d
  <1>1. /\ Len(calls) \in Nat /\ DOMAIN calls = 1 .. Len(calls) /\ d \in {0, 1} /\ n \in {0, 1}
        /\ m \in Nat /\ calls' \in Seq(Calls) /\ Len(calls') = m + n
        /\ \A i \in 1 .. m : calls'[i] = calls[i + d]
        /\ n = 1 => calls'[m + 1] = c
    BY CallsInLine DEF Moves
  <1>2. DOMAIN calls' = 1 .. m + n /\ \A k \in DOMAIN calls' : calls'[k] \in Calls
    BY <1>1, LenProperties, ElementOfSeq
  <1>3. \A j \in DOMAIN calls :
          j > d => j - d \in DOMAIN calls' /\ calls'[j - d] = calls[j]
    <2> TAKE j \in DOMAIN calls
    <2> HAVE j > d
    <2>1. j - d \in 1 .. m /\ (j - d) + d = j
      BY <1>1
    <2> QED BY <1>1, <1>2, <2>1
  <1>4. \A i \in DOMAIN calls' :
          \/ i + d \in DOMAIN calls /\ calls'[i] = calls[i + d]
          \/ /\ n = 1 /\ i = m + 1 /\ calls'[i] = c
             /\ \A j \in DOMAIN calls : j - d < i
    <2> TAKE i \in DOMAIN calls'
    <2>1. CASE i \in 1 .. m
      BY <1>1, <2>1
    <2>2. CASE i \notin 1 .. m
      <3>1. n = 1 /\ i = m + 1
        BY <1>1, <1>2, <2>2
      <3>2. \A j \in DOMAIN calls : j - d < i
        BY <1>1, <3>1
      <3> QED BY <1>1, <3>1, <3>2
    <2> QED BY <2>1, <2>2
  <1>5. n = 1 => m + 1 \in DOMAIN calls' /\ \A j \in DOMAIN calls : j - d < m + 1
    BY <1>1, <1>2
  <1>6. n = 1 => \E i \in DOMAIN calls' :
                   /\ i = m + 1 /\ calls'[i] = c
                   /\ \A j \in DOMAIN calls : j - d < i
    BY <1>1, <1>5
  <1>7. DOMAIN calls \subseteq Nat \ {0} /\ DOMAIN calls' \subseteq Nat \ {0}
    BY <1>1, <1>2
  <1> HIDE DEF m
  <1> QED BY <1>1, <1>2, <1>3, <1>4, <1>6, <1>7 DEF m

LEMMA MovesByTail ==
    ASSUME TypeInv, calls # <<>>, calls' = Tail(calls)
    PROVE  \A c : Moves(1, 0, c)
  <1>1. calls \in Seq(Calls) /\ Len(calls) \in Nat \ {0}
    BY CallsInLine, EmptySeq DEF TypeInv
  <1>2. /\ Tail(calls) \in Seq(Calls) /\ Len(Tail(calls)) = Len(calls) - 1
        /\ \A i \in 1 .. Len(Tail(calls)) : Tail(calls)[i] = calls[i + 1]
    BY <1>1, HeadTailProperties
  <1> QED BY <1>1, <1>2 DEF Moves

LEMMA MovesByAppend ==
    ASSUME TypeInv, NEW c \in Calls, calls' = Append(calls, c)
    PROVE  Moves(0, 1, c)
  <1>1. calls \in Seq(Calls) /\ Len(calls) \in Nat
    BY CallsInLine DEF TypeInv
  <1>2. /\ Append(calls, c) \in Seq(Calls) /\ Len(Append(calls, c)) = Len(calls) + 1
        /\ \A i \in 1 .. Len(calls) : Append(calls, c)[i] = calls[i]
        /\ Append(calls, c)[Len(calls) + 1] = c
    BY <1>1, AppendProperties
  <1> QED BY <1>1, <1>2 DEF Moves

LEMMA MovesByBoth ==
    ASSUME TypeInv, calls # <<>>, NEW c \in Calls, calls' = Append(Tail(calls), c)
    PROVE  Moves(1, 1, c)
  <1> DEFINE q == Tail(calls)
  <1>1. calls \in Seq(Calls) /\ Len(calls) \in Nat
    BY CallsInLine DEF TypeInv
  <1>2. /\ q \in Seq(Calls) /\ Len(q) = Len(calls) - 1 /\ Len(calls) \in Nat \ {0}
        /\ \A i \in 1 .. Len(q) : q[i] = calls[i + 1]
    BY <1>1, HeadTailProperties, EmptySeq
  <1> HIDE DEF q
  <1>3. /\ Append(q, c) \in Seq(Calls) /\ Len(Append(q, c)) = Len(q) + 1
        /\ \A i \in 1 .. Len(q) : Append(q, c)[i] = q[i]
        /\ Append(q, c)[Len(q) + 1] = c
    BY <1>2, AppendProperties
  <1>4. calls' = Append(q, c)
    BY DEF q
  <1>5. \A i \in 1 .. Len(calls) - 1 : calls'[i] = calls[i + 1]
    BY <1>2, <1>3, <1>4
  <1>7. Len(q) + 1 = Len(calls) - 1 + 1
    BY <1>2
  <1> DEFINE r == Append(q, c)
  <1>8. r \in Seq(Calls) /\ Len(r) = Len(q) + 1 /\ r[Len(q) + 1] = c /\ calls' = r
    BY <1>3, <1>4
  <1> HIDE DEF r
  <1>9. Len(calls') = Len(calls) - 1 + 1
    BY <1>7, <1>8
  <1>10. calls'[Len(calls) - 1 + 1] = c
    BY <1>7, <1>8
  <1>11. 1 <= Len(calls)
    BY <1>2
  <1> QED BY <1>5, <1>8, <1>9, <1>10, <1>11 DEF Moves

LEMMA MovesNot ==
    ASSUME TypeInv, calls' = calls
    PROVE  \A c : Moves(0, 0, c)
  BY CallsInLine DEF Moves, TypeInv

-----------------------------------------------------------------------------
(* A handler waits for its next call, or returns.                          *)
Publishing == {"add", "conf", "side", "goose"}
Waits(t, label, p, i, arg, d) ==
    /\ t \in Tasks /\ label \in LabelsOf(t) \ {"idle"} /\ arg \in {0} \union Ids
    /\ Moves(d, 1, NewCall(t, CommandOf(label), arg))
    /\ task' \in [Tasks -> Works] /\ \A u \in Tasks : u # t => task'[u] = task[u]
    /\ task'[t].at = label /\ task'[t].pub = p /\ task'[t].i = i
    /\ label \in Publishing => p \in Lids
    /\ d = 0 => task[t].at = "idle"
    /\ d = 1 => calls[1].by = t /\ calls[1].res # "none"
Leaves(t) ==
    /\ t \in Tasks
    /\ Moves(1, 0, 0)
    /\ task' \in [Tasks -> Works] /\ \A u \in Tasks : u # t => task'[u] = task[u]
    /\ task'[t] = Idle
    /\ calls[1].by = t /\ calls[1].res # "none"

LEMMA NamesDiffer ==
    /\ "gone" \notin Tasks /\ \A s \in Starters : s \notin Others
    /\ Others \subseteq Tasks /\ Starters \subseteq Tasks
    /\ \A t \in Tasks : t \in Starters \/ t \in Others
    /\ \A s \in Starters : LabelsOf(s) = StartLabels
    /\ LabelsOf("stop") = {"idle", "stop", "gstop"}
    /\ LabelsOf("reset") = {"idle", "reset", "close"}
    /\ \A t \in {"poll", "back", "hello", "load"} : LabelsOf(t) = {"idle", "running?"}
    /\ \A t : LabelsOf(t) \subseteq Labels
  BY PanelAssumption DEF Tasks, Others, LabelsOf, StartLabels, Labels

LEMMA CallMade ==
    \A t, cmd, arg : /\ NewCall(t, cmd, arg).by = t /\ NewCall(t, cmd, arg).cmd = cmd
                     /\ NewCall(t, cmd, arg).arg = arg /\ NewCall(t, cmd, arg).res = "none"
                     /\ NewCall(t, cmd, arg).value = 0
  BY DEF NewCall

LEMMA CallFits ==
    ASSUME NEW t \in Tasks, NEW cmd \in Commands, NEW arg \in {0} \union Ids
    PROVE  NewCall(t, cmd, arg) \in Calls
  BY DEF NewCall, Calls

LEMMA CommandFits ==
    ASSUME NEW t \in Tasks, NEW label \in LabelsOf(t), label # "idle"
    PROVE  CommandOf(label) \in Commands
  BY NamesDiffer DEF CommandOf, Commands, LabelsOf, StartLabels

\* A handler is told the answer to what it asked.
LEMMA OldestAnswer ==
    ASSUME TypeInv, QueueInv, NEW t \in Tasks, NEW label, Answered(t, label)
    PROVE  /\ calls # <<>> /\ 1 \in DOMAIN calls /\ Head(calls) = calls[1]
           /\ calls[1] \in Calls /\ calls[1].by = t /\ calls[1].res \in {"ok", "rejected"}
           /\ task[t].at = label /\ label # "idle" /\ calls[1].cmd = CommandOf(label)
  <1>1. /\ calls # <<>> /\ Head(calls) = calls[1] /\ calls[1].by = t
        /\ calls[1].res # "none" /\ task[t].at = label
    BY DEF Answered, TypeInv
  <1>2. 1 \in DOMAIN calls /\ calls[1] \in Calls
    BY <1>1, CallsInLine
  <1>3. t # "gone"
    BY NamesDiffer
  <1> QED BY <1>1, <1>2, <1>3 DEF QueueInv, Calls

LEMMA AwaitWaits ==
    ASSUME TypeInv, QueueInv, NEW t \in Tasks, NEW before, Answered(t, before),
           NEW label \in LabelsOf(t), label # "idle",
           NEW p \in {0} \union Lids, label \in Publishing => p \in Lids,
           NEW i \in Nat, NEW arg \in {0} \union Ids,
           Await(t, label, p, i, arg)
    PROVE  Waits(t, label, p, i, arg, 1)
  <1>1. calls # <<>> /\ calls[1].by = t /\ calls[1].res # "none"
    BY OldestAnswer
  <1>2. CommandOf(label) \in Commands
    BY CommandFits
  <1>3. Moves(1, 1, NewCall(t, CommandOf(label), arg))
    <2>1. NewCall(t, CommandOf(label), arg) \in Calls
      BY <1>2, CallFits
    <2>2. calls' = Append(Tail(calls), NewCall(t, CommandOf(label), arg))
      BY DEF Await, CommandOf
    <2> QED BY <1>1, <2>1, <2>2, MovesByBoth
  <1>4. /\ task' \in [Tasks -> Works] /\ \A u \in Tasks : u # t => task'[u] = task[u]
        /\ task'[t].at = label /\ task'[t].pub = p /\ task'[t].i = i
    <2>1. label \in Labels
      BY NamesDiffer
    <2>2. task' = [task EXCEPT ![t] = [task[t] EXCEPT !.at = label, !.pub = p, !.i = i]]
      BY DEF Await, TypeInv
    <2>3. [task[t] EXCEPT !.at = label, !.pub = p, !.i = i] \in Works
      BY <2>1 DEF TypeInv, Works
    <2>4. /\ [task[t] EXCEPT !.at = label, !.pub = p, !.i = i].at = label
          /\ [task[t] EXCEPT !.at = label, !.pub = p, !.i = i].pub = p
          /\ [task[t] EXCEPT !.at = label, !.pub = p, !.i = i].i = i
      BY DEF TypeInv, Works
    <2> DEFINE w == [task[t] EXCEPT !.at = label, !.pub = p, !.i = i]
    <2>5. task' = [task EXCEPT ![t] = w] /\ w \in Works /\ w.at = label /\ w.pub = p /\ w.i = i
      BY <2>2, <2>3, <2>4
    <2> HIDE DEF w
    <2> QED BY <2>5 DEF TypeInv
  <1> QED BY <1>1, <1>3, <1>4 DEF Waits

LEMMA IdleFits ==
    Idle \in Works /\ Idle.at = "idle"
  BY DEF Idle, Works, Labels

LEMMA ReturnLeaves ==
    ASSUME TypeInv, QueueInv, NEW t \in Tasks, NEW before, Answered(t, before), Return(t)
    PROVE  Leaves(t)
  <1>1. calls # <<>> /\ calls[1].by = t /\ calls[1].res # "none"
    BY OldestAnswer
  <1>2. Moves(1, 0, 0)
    BY <1>1, MovesByTail DEF Return
  <1>3. task' = [task EXCEPT ![t] = Idle]
    BY DEF Return
  <1>4. /\ task' \in [Tasks -> Works] /\ \A u \in Tasks : u # t => task'[u] = task[u]
        /\ task'[t] = Idle
    BY <1>3, IdleFits DEF TypeInv
  <1> QED BY <1>1, <1>2, <1>4 DEF Leaves

LEMMA BeginWaits ==
    ASSUME TypeInv, NEW t \in Tasks, NEW cmd \in LabelsOf(t),
           cmd \in {"open", "stop", "reset", "running?"}, NEW viaHeader \in BOOLEAN, Begin(t, cmd, viaHeader)
    PROVE  Waits(t, cmd, 0, 0, 0, 0)
  <1>1. CommandOf(cmd) \in Commands /\ CommandOf(cmd) = cmd /\ cmd \in Labels
    BY CommandFits, NamesDiffer DEF CommandOf
  <1>2. Moves(0, 1, NewCall(t, CommandOf(cmd), 0))
    <2>1. NewCall(t, CommandOf(cmd), 0) \in Calls
      BY <1>1, CallFits
    <2> QED BY <1>1, <2>1, MovesByAppend DEF Begin
  <1> DEFINE w == [Idle EXCEPT !.at = cmd, !.viaHeader = viaHeader]
  <1>3. task' = [task EXCEPT ![t] = w] /\ task[t].at = "idle"
    BY DEF Begin
  <1>4. w \in Works /\ w.at = cmd /\ w.pub = 0 /\ w.i = 0
    BY <1>1 DEF Idle, Works
  <1> HIDE DEF w
  <1>5. /\ task' \in [Tasks -> Works] /\ \A u \in Tasks : u # t => task'[u] = task[u]
        /\ task'[t] = w
    BY <1>3, <1>4 DEF TypeInv
  <1> QED BY <1>2, <1>3, <1>4, <1>5 DEF Waits, Publishing

-----------------------------------------------------------------------------
(* What each handler does with the calls and with the numbers.             *)
LEMMA TypeParts ==
    ASSUME TypeInv
    PROVE  /\ list \in Seq(Lids) /\ Len(list) \in Nat /\ DOMAIN list = 1 .. Len(list)
           /\ \A i \in 1 .. Len(list) : list[i] \in Lids
           /\ bid \in [Lids -> {0} \union Ids] /\ nextLid \in 1 .. MaxLid + 1
           /\ isRunning \in BOOLEAN /\ polling \in BOOLEAN /\ header \in BOOLEAN
           /\ lastRunning \in BOOLEAN /\ disturbed \in BOOLEAN /\ fresh \in BOOLEAN
           /\ dropped \in BOOLEAN /\ engine.conf \subseteq engine.pubs
           /\ \A t \in Tasks : task[t].i \in Nat /\ task[t].viaHeader \in BOOLEAN
           /\ 0 \notin Ids
  <1>1. list \in Seq(Lids)
    BY DEF TypeInv, TypeOK
  <1>2. Len(list) \in Nat /\ DOMAIN list = 1 .. Len(list) /\ \A i \in 1 .. Len(list) : list[i] \in Lids
    BY <1>1, LenProperties, ElementOfSeq
  <1>3. 0 \notin Ids
    BY DEF Ids
  <1>4. \A t \in Tasks : task[t].i \in Nat /\ task[t].viaHeader \in BOOLEAN
    BY DEF TypeInv, Works
  <1> QED BY <1>1, <1>2, <1>3, <1>4 DEF TypeInv, TypeOK

\* Publisher i of the list is configured, or added, next; and if there is
\* none, what comes then.
ToConf(s, i) ==
    \/ i \in 1 .. Len(list) /\ Waits(s, "conf", list[i], i, bid'[list[i]], 1)
    \/ i > Len(list) /\ Waits(s, "start", 0, 0, 0, 1)
ToAdd(s, i) ==
    \/ i \in 1 .. Len(list) /\ Waits(s, "add", list[i], i, 0, 1)
    \/ i > Len(list) /\ ToConf(s, 1)

LEMMA Configuration ==
    ASSUME TypeInv, QueueInv, NEW s \in Starters, NEW before, Answered(s, before),
           bid' \in [Lids -> {0} \union Ids], NEW i \in Nat, i > 0, ConfigureFrom(s, i)
    PROVE  ToConf(s, i)
  <1>0. s \in Tasks /\ LabelsOf(s) = StartLabels
    BY NamesDiffer
  <1>1. CASE i <= Len(list)
    <2>1. list[i] \in Lids /\ i \in 1 .. Len(list)
      BY <1>1, TypeParts
    <2>2. bid'[list[i]] \in {0} \union Ids
      BY <2>1
    <2>3. Await(s, "conf", list[i], i, bid'[list[i]])
      BY <1>1 DEF ConfigureFrom
    <2>4. Waits(s, "conf", list[i], i, bid'[list[i]], 1)
      BY <1>0, <2>1, <2>2, <2>3, AwaitWaits DEF StartLabels, Publishing
    <2> QED BY <2>1, <2>4 DEF ToConf
  <1>2. CASE ~(i <= Len(list))
    <2>1. Await(s, "start", 0, 0, 0)
      BY <1>2 DEF ConfigureFrom
    <2>2. Waits(s, "start", 0, 0, 0, 1)
      BY <1>0, <2>1, AwaitWaits DEF StartLabels, Publishing
    <2> QED BY <1>2, <2>2, TypeParts DEF ToConf
  <1> QED BY <1>1, <1>2

LEMMA Addition ==
    ASSUME TypeInv, QueueInv, NEW s \in Starters, NEW before, Answered(s, before),
           bid' \in [Lids -> {0} \union Ids], NEW i \in Nat, i > 0, AddFrom(s, i)
    PROVE  ToAdd(s, i)
  <1>0. s \in Tasks /\ LabelsOf(s) = StartLabels
    BY NamesDiffer
  <1>1. CASE i <= Len(list)
    <2>1. list[i] \in Lids /\ i \in 1 .. Len(list)
      BY <1>1, TypeParts
    <2>2. Await(s, "add", list[i], i, 0)
      BY <1>1 DEF AddFrom
    <2>3. Waits(s, "add", list[i], i, 0, 1)
      BY <1>0, <2>1, <2>2, AwaitWaits DEF StartLabels, Publishing
    <2> QED BY <2>1, <2>3 DEF ToAdd
  <1>2. CASE ~(i <= Len(list))
    <2>1. ConfigureFrom(s, 1)
      BY <1>2 DEF AddFrom
    <2>2. ToConf(s, 1)
      BY <2>1, Configuration
    <2> QED BY <1>2, <2>2, TypeParts DEF ToAdd
  <1> QED BY <1>1, <1>2

\* What an answer leaves of a start: its next call, or nothing.
StartGoesOn(s) ==
    \/ /\ Answered(s, "open") /\ bid' = bid
       /\ Waits(s, "clear", 0, 0, 0, 1) \/ Leaves(s)
    \/ /\ Answered(s, "clear") /\ bid' = bid
       /\ (Ok /\ ToAdd(s, 1)) \/ Leaves(s)
    \/ /\ Answered(s, "add") /\ Ok /\ task[s].pub \in Lids /\ Added(calls[1])
       /\ bid' = [bid EXCEPT ![task[s].pub] = calls[1].value]
       /\ ToAdd(s, task[s].i + 1)
    \/ /\ Answered(s, "conf") /\ Ok /\ bid' = bid /\ task[s].pub \in Lids
       /\ Waits(s, "side", task[s].pub, task[s].i, bid[task[s].pub], 1)
    \/ /\ Answered(s, "add") \/ Answered(s, "conf")
       /\ bid' = bid /\ Waits(s, "rollback", 0, 0, 0, 1)
    \/ /\ Answered(s, "side") /\ bid' = bid /\ task[s].pub \in Lids
       /\ Waits(s, "goose", task[s].pub, task[s].i, bid[task[s].pub], 1)
    \/ /\ Answered(s, "side") \/ Answered(s, "goose")
       /\ bid' = bid /\ ToConf(s, task[s].i + 1)
    \/ Answered(s, "rollback") /\ bid' = Nulled /\ Leaves(s)
    \/ Answered(s, "start") /\ bid' = bid /\ Leaves(s)

LEMMA BidsFit ==
    ASSUME TypeInv, IdsInv
    PROVE  /\ Nulled \in [Lids -> {0} \union Ids]
           /\ \A l \in Lids : Nulled[l] \in {0, bid[l]}
           /\ \A c \in Calls : (\E k \in DOMAIN calls : calls[k] = c) /\ Added(c) =>
                 c.value \in Ids /\ \A l \in Lids : [bid EXCEPT ![l] = c.value] \in [Lids -> {0} \union Ids]
  <1>1. bid \in [Lids -> {0} \union Ids]
    BY TypeParts
  <1>2. Nulled \in [Lids -> {0} \union Ids] /\ \A l \in Lids : Nulled[l] \in {0, bid[l]}
    BY <1>1 DEF Nulled
  <1>3. ASSUME NEW k \in DOMAIN calls, Added(calls[k])
        PROVE  calls[k].value \in Ids
    <2>1. calls[k].value \in 1 .. engine.next - 1 /\ engine.next \in 1 .. MaxId + 1 /\ MaxId \in Nat
      BY <1>3, PanelAssumption DEF IdsInv, TypeInv, Engines
    <2> QED BY <2>1 DEF Ids
  <1> QED BY <1>1, <1>2, <1>3

LEMMA StartsGoOn ==
    ASSUME TypeInv, QueueInv, IdsInv, NEW s \in Starters, StartStep(s)
    PROVE  StartGoesOn(s)
  <1>0. s \in Tasks /\ LabelsOf(s) = StartLabels
    BY NamesDiffer
  <1>1. bid \in [Lids -> {0} \union Ids] /\ Nulled \in [Lids -> {0} \union Ids] /\ task[s].i \in Nat
    BY <1>0, BidsFit, TypeParts
  <1>2. ASSUME NEW before, Answered(s, before), StartReturns(s)
        PROVE  Leaves(s)
    BY <1>0, <1>2, ReturnLeaves DEF StartReturns
  <1>3. ASSUME NEW before, Answered(s, before), Await(s, "rollback", 0, 0, 0)
        PROVE  Waits(s, "rollback", 0, 0, 0, 1)
    BY <1>0, <1>3, AwaitWaits DEF StartLabels, Publishing
  <1>4. ASSUME NEW before \in {"add", "conf", "side", "goose"}, Answered(s, before)
        PROVE  task[s].pub \in Lids /\ bid[task[s].pub] \in {0} \union Ids
    <2>1. task[s].at = before
      BY <1>4 DEF Answered
    <2>2. task[s].pub \in Lids
      BY <1>0, <1>4, <2>1 DEF TypeInv
    <2> QED BY <1>1, <2>2
  <1>5. CASE StartOpened(s)
    <2>1. Answered(s, "open") /\ bid' = bid
      BY <1>5 DEF StartOpened
    <2>2. Await(s, "clear", 0, 0, 0) => Waits(s, "clear", 0, 0, 0, 1)
      BY <1>0, <2>1, AwaitWaits DEF StartLabels, Publishing
    <2> QED BY <1>2, <1>5, <2>1, <2>2 DEF StartOpened, StartGoesOn
  <1>6. CASE StartCleared(s)
    <2>1. Answered(s, "clear") /\ bid' = bid
      BY <1>6 DEF StartCleared
    <2>2. AddFrom(s, 1) => ToAdd(s, 1)
      BY <1>1, <2>1, Addition
    <2> QED BY <1>2, <1>6, <2>1, <2>2 DEF StartCleared, StartGoesOn
  <1>7. CASE StartAdded(s)
    <2>1. Answered(s, "add")
      BY <1>7 DEF StartAdded
    <2>2. CASE Ok
      <3>1. /\ bid' = [bid EXCEPT ![task[s].pub] = Head(calls).value]
            /\ AddFrom(s, task[s].i + 1) /\ Head(calls).res = "ok"
        BY <1>7, <2>2 DEF StartAdded, AssignedId, Result, Ok
      <3>2. /\ Head(calls) = calls[1] /\ calls[1] \in Calls /\ 1 \in DOMAIN calls
            /\ calls[1].cmd = "add"
        BY <1>0, <2>1, OldestAnswer DEF CommandOf
      <3>3. Added(calls[1])
        BY <3>1, <3>2 DEF Added
      <3>4. task[s].pub \in Lids
        BY <1>4, <2>1
      <3>5. bid' \in [Lids -> {0} \union Ids]
        <4>1. [bid EXCEPT ![task[s].pub] = calls[1].value] \in [Lids -> {0} \union Ids]
          BY <3>2, <3>3, <3>4, BidsFit
        <4> QED BY <3>1, <3>2, <4>1
      <3>6. ToAdd(s, task[s].i + 1)
        <4>1. task[s].i + 1 \in Nat /\ task[s].i + 1 > 0
          BY <1>1
        <4> QED BY <2>1, <3>1, <3>5, <4>1, Addition
      <3> QED BY <2>1, <2>2, <3>1, <3>2, <3>3, <3>4, <3>6 DEF StartGoesOn
    <2>3. CASE ~Ok
      BY <1>3, <1>7, <2>1, <2>3 DEF StartAdded, StartGoesOn
    <2> QED BY <2>2, <2>3
  <1>8. CASE StartConfigured(s)
    <2>1. Answered(s, "conf") /\ bid' = bid
      BY <1>8 DEF StartConfigured
    <2>2. task[s].pub \in Lids /\ bid[task[s].pub] \in {0} \union Ids
      BY <1>4, <2>1
    <2>3. ASSUME Await(s, "side", task[s].pub, task[s].i, bid[task[s].pub])
          PROVE  Waits(s, "side", task[s].pub, task[s].i, bid[task[s].pub], 1)
      BY <1>0, <1>1, <2>1, <2>2, <2>3, AwaitWaits DEF StartLabels, Publishing
    <2> QED BY <1>3, <1>8, <2>1, <2>2, <2>3 DEF StartConfigured, StartGoesOn
  <1>9. CASE StartSideDone(s)
    <2>1. Answered(s, "side") /\ bid' = bid
      BY <1>9 DEF StartSideDone
    <2>2. task[s].pub \in Lids /\ bid[task[s].pub] \in {0} \union Ids
      BY <1>4, <2>1
    <2>3. ASSUME Await(s, "goose", task[s].pub, task[s].i, bid[task[s].pub])
          PROVE  Waits(s, "goose", task[s].pub, task[s].i, bid[task[s].pub], 1)
      BY <1>0, <1>1, <2>1, <2>2, <2>3, AwaitWaits DEF StartLabels, Publishing
    <2>4. ASSUME ConfigureFrom(s, task[s].i + 1)
          PROVE  ToConf(s, task[s].i + 1)
      <3>1. task[s].i + 1 \in Nat /\ task[s].i + 1 > 0
        BY <1>1
      <3> QED BY <1>1, <2>1, <2>4, <3>1, Configuration
    <2> QED BY <1>9, <2>1, <2>2, <2>3, <2>4 DEF StartSideDone, StartGoesOn
  <1>10. CASE StartGooseDone(s)
    <2>1. Answered(s, "goose") /\ bid' = bid
      BY <1>10 DEF StartGooseDone
    <2>2. task[s].i + 1 \in Nat /\ task[s].i + 1 > 0
      BY <1>1
    <2>3. ToConf(s, task[s].i + 1)
      BY <1>1, <1>10, <2>1, <2>2, Configuration DEF StartGooseDone
    <2> QED BY <2>1, <2>3 DEF StartGoesOn
  <1>11. CASE StartRolledBack(s)
    BY <1>2, <1>11 DEF StartRolledBack, StartGoesOn
  <1>12. CASE StartDone(s)
    <2>1. Answered(s, "start") /\ bid' = bid /\ (Return(s) \/ StartReturns(s))
      BY <1>12 DEF StartDone
    <2>2. Return(s) => Leaves(s)
      BY <1>0, <2>1, ReturnLeaves
    <2> QED BY <1>2, <2>1, <2>2 DEF StartGoesOn
  <1> QED BY <1>5, <1>6, <1>7, <1>8, <1>9, <1>10, <1>11, <1>12 DEF StartStep

\* Every action but Execute, Drop and the loading of the page: at most the
\* oldest call goes, and at most one comes.
Shape(d, n, c) ==
    \/ d = 0 /\ n = 0 /\ task' = task
    \/ d = 1 /\ n = 0 /\ task' = task /\ calls[1].by = "gone"
    \/ d = 1 /\ n = 0 /\ \E t \in Tasks : Leaves(t)
    \/ n = 1 /\ \E t \in Tasks : \E label, p, i, arg :
         Waits(t, label, p, i, arg, d) /\ c = NewCall(t, CommandOf(label), arg)
BidsKept(d) ==
    /\ bid' \in [Lids -> {0} \union Ids]
    /\ \A l \in Lids :
         \/ bid'[l] \in {0, bid[l]}
         \/ /\ d = 1 /\ Added(calls[1]) /\ bid'[l] = calls[1].value
            /\ \A m \in Lids : m # l => bid'[m] = bid[m]
Expected(d, n, c) ==
    n = 1 => /\ c.by \in Tasks /\ c.res = "none"
             /\ c.arg = 0 \/ \E l \in Lids : c.arg = bid'[l]
             /\ d = 1 => calls[1].by = c.by
             /\ d = 0 => task[c.by].at = "idle" /\ (c.by \in Starters => c.cmd = "open" /\ ~fresh')
             /\ c.by \notin Starters => c.cmd \in {"stop", "gstop", "reset", "close", "running?"}
             /\ c.cmd = "gstop" => d = 1 /\ calls[1].cmd = "stop" /\ c.by = "stop"
             /\ c.cmd = "close" => d = 1 /\ calls[1].cmd = "reset" /\ c.by = "reset"
Carried(d, n, c) ==
    /\ Moves(d, n, c) /\ Shape(d, n, c) /\ BidsKept(d) /\ Expected(d, n, c)
    /\ d = 1 => 1 \in DOMAIN calls /\ calls[1].res # "none"
    /\ engine' = engine \/ (engine.running /\ engine' = Stopped(engine))
    /\ dropped' = dropped
Loading == ResetReloads \/ Reload

\* The ways in which an action carries the calls on.
LEMMA CarriedBy ==
    ASSUME TypeInv, QueueInv, IdsInv, engine' = engine, dropped' = dropped, fresh' \in BOOLEAN
    PROVE  /\ \A t \in Tasks : Leaves(t) /\ BidsKept(1) => Carried(1, 0, 0)
           /\ \A t \in Tasks : \A label, p, i, arg, d :
                LET c == NewCall(t, CommandOf(label), arg) IN
                Waits(t, label, p, i, arg, d) /\ BidsKept(d) /\ Expected(d, 1, c)
                   => Carried(d, 1, c)
  <1>1. ASSUME NEW t \in Tasks, Leaves(t), BidsKept(1)
        PROVE  Carried(1, 0, 0)
    <2>1. Moves(1, 0, 0) /\ calls[1].res # "none"
      BY <1>1 DEF Leaves
    <2>2. Shape(1, 0, 0)
      BY <1>1 DEF Shape
    <2>3. 1 \in DOMAIN calls
      BY <2>1, CallsInLine DEF Moves
    <2> QED BY <1>1, <2>1, <2>2, <2>3 DEF Carried, Expected
  <1>2. ASSUME NEW t \in Tasks, NEW label, NEW p, NEW i, NEW arg, NEW d,
               Waits(t, label, p, i, arg, d), BidsKept(d),
               Expected(d, 1, NewCall(t, CommandOf(label), arg))
        PROVE  Carried(d, 1, NewCall(t, CommandOf(label), arg))
    <2> DEFINE c == NewCall(t, CommandOf(label), arg)
    <2>1. Moves(d, 1, c) /\ (d = 1 => calls[1].res # "none")
      BY <1>2 DEF Waits
    <2>2. Shape(d, 1, c)
      BY <1>2 DEF Shape
    <2>3. d = 1 => 1 \in DOMAIN calls
      BY <2>1, CallsInLine DEF Moves
    <2>4. BidsKept(d) /\ Expected(d, 1, c)
      BY <1>2
    <2> HIDE DEF c
    <2>5. Carried(d, 1, c)
      BY <2>1, <2>2, <2>3, <2>4 DEF Carried
    <2> QED BY <2>5 DEF c
  <1> QED BY <1>1, <1>2

LEMMA BidsAre ==
    ASSUME TypeInv, IdsInv
    PROVE  /\ bid' = bid \/ bid' = Nulled => \A d : BidsKept(d)
           /\ \A p \in Lids : /\ 1 \in DOMAIN calls /\ Added(calls[1])
                              /\ bid' = [bid EXCEPT ![p] = calls[1].value]
                              => BidsKept(1)
  <1>1. bid' = bid \/ bid' = Nulled => \A d : BidsKept(d)
    BY BidsFit, TypeParts DEF BidsKept
  <1>2. ASSUME NEW p \in Lids, 1 \in DOMAIN calls, Added(calls[1]),
               bid' = [bid EXCEPT ![p] = calls[1].value]
        PROVE  BidsKept(1)
    <2>1. calls[1] \in Calls
      BY <1>2, CallsInLine
    <2>2. [bid EXCEPT ![p] = calls[1].value] \in [Lids -> {0} \union Ids]
      BY <1>2, <2>1, BidsFit
    <2>3. \A l \in Lids : bid'[l] = IF l = p THEN calls[1].value ELSE bid[l]
      BY <1>2, TypeParts
    <2> QED BY <1>2, <2>2, <2>3 DEF BidsKept
  <1> QED BY <1>1, <1>2

LEMMA StartsCarry ==
    ASSUME TypeInv, QueueInv, IdsInv, NEW s \in Starters, StartStep(s)
    PROVE  \E n, c : Carried(1, n, c)
  <1>0. /\ s \in Tasks /\ s \notin Others /\ engine' = engine /\ dropped' = dropped
        /\ fresh' \in BOOLEAN
    BY NamesDiffer, TypeParts DEF StartStep, user
  <1>1. StartGoesOn(s)
    BY StartsGoOn
  <1>2. ASSUME NEW label \in StartLabels \ {"idle"}, NEW p, NEW i, NEW arg, Waits(s, label, p, i, arg, 1),
               BidsKept(1), arg = 0 \/ \E l \in Lids : arg = bid'[l]
        PROVE  \E n, c : Carried(1, n, c)
    <2> DEFINE c == NewCall(s, CommandOf(label), arg)
    <2>1. /\ c.by = s /\ c.res = "none" /\ c.arg = arg /\ c.cmd = CommandOf(label)
          /\ c.cmd \notin {"gstop", "close"} /\ calls[1].by = s
      BY <1>2, CallMade DEF CommandOf, StartLabels, Waits
    <2> HIDE DEF c
    <2>2. Expected(1, 1, c)
      BY <1>0, <1>2, <2>1 DEF Expected
    <2>3. Carried(1, 1, c)
      BY <1>0, <1>2, <2>2, CarriedBy DEF c
    <2> QED BY <2>3
  <1>3. ASSUME Leaves(s), BidsKept(1)
        PROVE  \E n, c : Carried(1, n, c)
    BY <1>0, <1>3, CarriedBy
  <1>4. bid' = bid \/ bid' = Nulled => BidsKept(1)
    BY BidsAre
  <1>5. ASSUME NEW i, ToConf(s, i), BidsKept(1)
        PROVE  \E n, c : Carried(1, n, c)
    <2>1. i \in 1 .. Len(list) => list[i] \in Lids
      BY TypeParts
    <2> QED BY <1>2, <1>5, <2>1 DEF ToConf, StartLabels
  <1>6. ASSUME NEW i, ToAdd(s, i), BidsKept(1)
        PROVE  \E n, c : Carried(1, n, c)
    BY <1>2, <1>5, <1>6 DEF ToAdd, StartLabels
  <1>7. ASSUME Answered(s, "add"), Ok, task[s].pub \in Lids, Added(calls[1]),
               bid' = [bid EXCEPT ![task[s].pub] = calls[1].value]
        PROVE  BidsKept(1)
    <2>1. 1 \in DOMAIN calls
      BY <1>0, <1>7, OldestAnswer
    <2> QED BY <1>7, <2>1, BidsAre
  <1>8. ASSUME NEW label \in {"side", "goose"}, task[s].pub \in Lids, bid' = bid,
               Waits(s, label, task[s].pub, task[s].i, bid[task[s].pub], 1)
        PROVE  \E n, c : Carried(1, n, c)
    <2>1. bid[task[s].pub] = bid'[task[s].pub]
      BY <1>8
    <2> QED BY <1>2, <1>4, <1>8, <2>1 DEF StartLabels
  <1>9. ASSUME NEW label \in {"clear", "rollback"}, bid' = bid, Waits(s, label, 0, 0, 0, 1)
        PROVE  \E n, c : Carried(1, n, c)
    BY <1>2, <1>4, <1>9 DEF StartLabels
  <1> QED BY <1>1, <1>3, <1>4, <1>5, <1>6, <1>7, <1>8, <1>9 DEF StartGoesOn

\* The other handlers, the user and the timers.
LEMMA OthersCarry ==
    ASSUME TypeInv, QueueInv, IdsInv, [Next]_vars, ~Execute, ~Drop, ~Loading,
           \A s \in Starters : ~StartStep(s)
    PROVE  \E d, n, c : Carried(d, n, c)
  <1>0. /\ {"stop", "poll", "back", "hello", "load", "reset"} \subseteq Tasks
        /\ \A t \in {"stop", "poll", "back", "hello", "load", "reset"} : t \notin Starters
        /\ "running?" \in LabelsOf("poll") /\ "running?" \in LabelsOf("back")
        /\ {"stop", "gstop"} \subseteq LabelsOf("stop") /\ {"reset", "close"} \subseteq LabelsOf("reset")
        /\ \A s \in Starters : "open" \in LabelsOf(s) /\ s \in Tasks
    BY NamesDiffer DEF Others, StartLabels
  <1>1. bid' = bid \/ bid' = Nulled => \A d : BidsKept(d)
    BY BidsAre
  <1>2. fresh \in BOOLEAN
    BY TypeParts
  <1>3. ASSUME NEW t \in {"stop", "poll", "back", "hello", "load", "reset"}, NEW before,
               Answered(t, before), Return(t), bid' = bid \/ bid' = Nulled, engine' = engine,
               dropped' = dropped, fresh' \in BOOLEAN
        PROVE  \E d, n, c : Carried(d, n, c)
    <2>1. t \in Tasks
      BY <1>0, <1>3
    <2>2. Leaves(t)
      BY <1>3, <2>1, ReturnLeaves
    <2> QED BY <1>1, <1>3, <2>1, <2>2, CarriedBy
  <1>4. ASSUME NEW t \in {"stop", "reset"}, NEW before, Answered(t, before),
               NEW label \in LabelsOf(t), label \in {"gstop", "close"},
               before \in {"stop", "reset"}, before = t,
               Await(t, label, 0, 0, 0), bid' = bid \/ bid' = Nulled, engine' = engine,
               dropped' = dropped, fresh' \in BOOLEAN
        PROVE  \E d, n, c : Carried(d, n, c)
    <2> DEFINE c == NewCall(t, CommandOf(label), 0)
    <2>1. t \in Tasks /\ 0 \in Nat
      BY <1>0, <1>4
    <2>2. Waits(t, label, 0, 0, 0, 1)
      BY <1>4, <2>1, AwaitWaits DEF Publishing
    <2>3. /\ calls[1].by = t /\ calls[1].cmd = t
          /\ label = "gstop" => t = "stop"
          /\ label = "close" => t = "reset"
      BY <1>4, <2>1, OldestAnswer, NamesDiffer DEF CommandOf
    <2>4. c.by = t /\ c.res = "none" /\ c.arg = 0 /\ c.cmd = label
      BY <1>4, CallMade DEF CommandOf
    <2> HIDE DEF c
    <2>5. Expected(1, 1, c)
      BY <1>4, <2>1, <2>3, <2>4 DEF Expected
    <2>6. Carried(1, 1, c)
      BY <1>1, <1>4, <2>1, <2>2, <2>5, CarriedBy DEF c
    <2> QED BY <2>6
  <1>5. ASSUME NEW t \in Tasks, NEW cmd \in LabelsOf(t), NEW h \in BOOLEAN, Begin(t, cmd, h),
               cmd \in {"open", "stop", "reset", "running?"},
               cmd = "open" <=> t \in Starters,
               t \in Starters => ~fresh',
               bid' = bid, engine' = engine, dropped' = dropped, fresh' \in BOOLEAN
        PROVE  \E d, n, c : Carried(d, n, c)
    <2> DEFINE c == NewCall(t, CommandOf(cmd), 0)
    <2>1. Waits(t, cmd, 0, 0, 0, 0)
      BY <1>5, BeginWaits
    <2>2. c.by = t /\ c.res = "none" /\ c.arg = 0 /\ c.cmd = cmd
      BY <1>5, CallMade DEF CommandOf
    <2>3. task[t].at = "idle"
      BY <1>5 DEF Begin
    <2> HIDE DEF c
    <2>4. Expected(0, 1, c)
      BY <1>5, <2>2, <2>3 DEF Expected
    <2>5. Carried(0, 1, c)
      BY <1>1, <1>5, <2>1, <2>4, CarriedBy DEF c
    <2> QED BY <2>5
  <1>6. ASSUME UNCHANGED <<calls, task>>, bid' = bid, dropped' = dropped,
               engine' = engine \/ (engine.running /\ engine' = Stopped(engine))
        PROVE  \E d, n, c : Carried(d, n, c)
    <2>1. Moves(0, 0, 0)
      BY <1>6, MovesNot
    <2>2. Shape(0, 0, 0) /\ Expected(0, 0, 0) /\ BidsKept(0)
      BY <1>1, <1>6 DEF Shape, Expected
    <2>3. Carried(0, 0, 0)
      BY <1>6, <2>1, <2>2 DEF Carried
    <2> QED BY <2>3
  <1>7. CASE UNCHANGED vars \/ EngineEnds \/ AddPublisher \/ (\E idx \in DOMAIN list : RemovePublisher(idx))
               \/ StartRefused \/ HeaderTick
    BY <1>6, <1>7 DEF vars, user, EngineEnds, AddPublisher, RemovePublisher, StartRefused, HeaderTick
  <1>8. CASE StopAnswered
    <2>1. Await("stop", "gstop", 0, 0, 0)
      BY <1>8 DEF StopAnswered, AfterStop
    <2>2. Answered("stop", "stop") /\ engine' = engine /\ dropped' = dropped /\ fresh' \in BOOLEAN
      BY <1>2, <1>8 DEF StopAnswered, user
    <2>3. bid' = bid \/ bid' = Nulled
      BY <1>8 DEF StopAnswered, OnPublishingStopped
    <2> QED BY <1>0, <1>4, <2>1, <2>2, <2>3
  <1>9. CASE ResetBackend
    <2>1. /\ Await("reset", "close", 0, 0, 0) /\ Answered("reset", "reset")
          /\ engine' = engine /\ dropped' = dropped /\ fresh' \in BOOLEAN /\ bid' = bid
      BY <1>2, <1>9 DEF ResetBackend, user
    <2> QED BY <1>0, <1>4, <2>1
  <1>10. CASE StopDone
    <2>1. /\ Answered("stop", "gstop") /\ Return("stop") /\ bid' = Nulled
          /\ engine' = engine /\ dropped' = dropped /\ fresh' \in BOOLEAN
      BY <1>2, <1>10 DEF StopDone, user
    <2> QED BY <1>3, <2>1
  <1>11. CASE PollAnswered
    <2>1. /\ Answered("poll", "running?") /\ Return("poll") /\ (bid' = bid \/ bid' = Nulled)
          /\ engine' = engine /\ dropped' = dropped /\ fresh' \in BOOLEAN
      BY <1>2, <1>11 DEF PollAnswered, user
    <2> QED BY <1>3, <2>1
  <1>12. CASE BackAnswered
    <2>1. /\ Answered("back", "running?") /\ Return("back") /\ (bid' = bid \/ bid' = Nulled)
          /\ engine' = engine /\ dropped' = dropped /\ fresh' \in BOOLEAN
      BY <1>2, <1>12 DEF BackAnswered, OnPublishingStopped, user
    <2> QED BY <1>3, <2>1
  <1>13. CASE HelloAnswered \/ LoadAnswered
    <2>1. /\ \/ Answered("hello", "running?") /\ Return("hello")
             \/ Answered("load", "running?") /\ Return("load")
          /\ bid' = bid /\ engine' = engine /\ dropped' = dropped /\ fresh' \in BOOLEAN
      BY <1>2, <1>13 DEF HelloAnswered, LoadAnswered, user
    <2> QED BY <1>3, <2>1
  <1>14. CASE NobodyWaits
    <2>1. /\ calls # <<>> /\ calls[1].by = "gone" /\ calls[1].res # "none" /\ calls' = Tail(calls)
          /\ task' = task /\ bid' = bid /\ engine' = engine /\ dropped' = dropped
      BY <1>14 DEF NobodyWaits, user, TypeInv
    <2>2. Moves(1, 0, 0) /\ 1 \in DOMAIN calls
      BY <2>1, MovesByTail, CallsInLine
    <2>3. Shape(1, 0, 0) /\ Expected(1, 0, 0) /\ BidsKept(1)
      BY <1>1, <2>1 DEF Shape, Expected
    <2>4. Carried(1, 0, 0)
      BY <2>1, <2>2, <2>3 DEF Carried
    <2> QED BY <2>4
  <1>15. ASSUME NEW h \in BOOLEAN, Start(h)
         PROVE  \E d, n, c : Carried(d, n, c)
    <2>1. Starters \ Starting # {}
      BY <1>15 DEF Start, Starting
    <2>2. PICK s \in Starters : Begin(s, "open", h)
      BY <1>15, <2>1 DEF Start
    <2>3. ~fresh' /\ fresh' \in BOOLEAN /\ bid' = bid /\ engine' = engine /\ dropped' = dropped
      BY <1>15 DEF Start
    <2> QED BY <1>0, <1>5, <2>2, <2>3
  <1>16. ASSUME NEW h \in BOOLEAN, Stop(h)
         PROVE  \E d, n, c : Carried(d, n, c)
    <2>1. /\ Begin("stop", "stop", h) /\ bid' = bid /\ engine' = engine
          /\ dropped' = dropped /\ fresh' \in BOOLEAN
      BY <1>2, <1>16 DEF Stop, user
    <2> QED BY <1>0, <1>5, <2>1
  <1>17. CASE Reset
    <2>1. /\ Begin("reset", "reset", TRUE) /\ bid' = bid /\ engine' = engine
          /\ dropped' = dropped /\ fresh' \in BOOLEAN
      BY <1>2, <1>17 DEF Reset
    <2> QED BY <1>0, <1>5, <2>1
  <1>18. CASE PollTick \/ BackTick
    <2>1. /\ Begin("poll", "running?", FALSE) \/ Begin("back", "running?", FALSE)
          /\ bid' = bid /\ engine' = engine /\ dropped' = dropped /\ fresh' \in BOOLEAN
      BY <1>2, <1>18 DEF PollTick, BackTick, user
    <2> QED BY <1>0, <1>5, <2>1
  <1> QED BY <1>7, <1>8, <1>9, <1>10, <1>11, <1>12, <1>13, <1>14, <1>15, <1>16, <1>17, <1>18
        DEF Next, Handlers, UserActs, Timers, Loading

LEMMA ActionsCarry ==
    ASSUME TypeInv, QueueInv, IdsInv, [Next]_vars, ~Execute, ~Drop, ~Loading
    PROVE  \E d, n, c : Carried(d, n, c)
  BY StartsCarry, OthersCarry

-----------------------------------------------------------------------------
(* A command is executed: call k is told its result.                       *)
Told(k) == IF Accepts(calls[k]) THEN "ok" ELSE "rejected"
Executes(k) ==
    /\ k \in DOMAIN calls /\ calls[k] \in Calls /\ calls[k].res = "none"
    /\ \A j \in DOMAIN calls : calls[j].res = "none" => k <= j
    /\ engine' = IF Accepts(calls[k]) THEN After(calls[k]) ELSE engine
    /\ calls' \in Seq(Calls) /\ DOMAIN calls' = DOMAIN calls
    /\ \A j \in DOMAIN calls : j # k => calls'[j] = calls[j]
    /\ calls'[k].by = calls[k].by /\ calls'[k].cmd = calls[k].cmd
    /\ calls'[k].arg = calls[k].arg
    /\ calls'[k].res = Told(k) /\ calls'[k].value = Value(calls[k])
    /\ UNCHANGED <<panel, bid, run, lastRunning, task, user>>

LEMMA OneIsExecuted ==
    ASSUME TypeInv, Execute
    PROVE  \E k : Executes(k)
  <1>1. PICK k \in Unexecuted :
           /\ \A j \in Unexecuted : k <= j
           /\ engine' = IF Accepts(calls[k]) THEN After(calls[k]) ELSE engine
           /\ calls' = [calls EXCEPT ![k].res = IF Accepts(calls[k]) THEN "ok" ELSE "rejected",
                                     ![k].value = Value(calls[k])]
    BY DEF Execute
  <1>2. k \in DOMAIN calls /\ calls[k].res = "none" /\ calls[k] \in Calls
    BY CallsInLine DEF Unexecuted
  <1>3. Value(calls[k]) \in Nat
    BY PanelAssumption DEF Value, TypeInv, Engines
  <1> DEFINE r == Told(k)
             v == Value(calls[k])
  <1>4. r \in {"none", "ok", "rejected"} /\ v \in Nat
    BY <1>3 DEF Told
  <1>5. calls' = [calls EXCEPT ![k].res = r, ![k].value = v]
    BY <1>1 DEF Told
  <1>6. engine' = IF Accepts(calls[k]) THEN After(calls[k]) ELSE engine
    BY <1>1
  <1>7. \A j \in DOMAIN calls : calls[j].res = "none" => k <= j
    BY <1>1 DEF Unexecuted
  <1>8. r = Told(k) /\ v = Value(calls[k])
    OBVIOUS
  <1> HIDE DEF r, v
  <1>9. /\ DOMAIN calls' = DOMAIN calls
        /\ \A j \in DOMAIN calls : j # k => calls'[j] = calls[j]
        /\ calls'[k] = [calls[k] EXCEPT !.res = r, !.value = v]
    BY <1>2, <1>5 DEF TypeInv
  <1>10. /\ calls'[k] \in Calls
         /\ calls'[k].by = calls[k].by /\ calls'[k].cmd = calls[k].cmd
         /\ calls'[k].arg = calls[k].arg /\ calls'[k].res = r /\ calls'[k].value = v
    <2> HIDE DEF Commands, Tasks, Ids
    <2> QED BY <1>2, <1>4, <1>9 DEF Calls
  <1>11. calls' \in Seq(Calls)
    <2>1. DOMAIN calls = 1 .. Len(calls) /\ Len(calls) \in Nat
      BY LenProperties DEF TypeInv
    <2>2. \A j \in DOMAIN calls' : calls'[j] \in Calls
      BY <1>9, <1>10, CallsInLine
    <2>3. calls' = [j \in DOMAIN calls' |-> calls'[j]]
      BY <1>5 DEF TypeInv
    <2>4. calls' \in [1 .. Len(calls) -> Calls]
      <3> HIDE DEF Calls
      <3> QED BY <1>9, <2>1, <2>2, <2>3
    <2> QED BY <2>1, <2>4, SeqDef
  <1>12. UNCHANGED <<panel, bid, run, lastRunning, task, user>>
    BY DEF Execute
  <1>13. Executes(k)
    BY <1>2, <1>6, <1>7, <1>8, <1>9, <1>10, <1>11, <1>12 DEF Executes
  <1> QED BY <1>13

\* What the backend can be after a command it accepts.
LEMMA BackendFits ==
    ASSUME TypeInv, NEW c \in Calls, Accepts(c)
    PROVE  /\ After(c) \in Engines /\ After(c).conf \subseteq After(c).pubs
           /\ engine.next <= After(c).next
  <1>1. /\ engine \in Engines /\ engine.conf \subseteq engine.pubs /\ MaxId \in Nat
        /\ c.arg \in {0} \union Ids
    BY PanelAssumption DEF TypeInv, TypeOK, Calls
  <1>2. /\ Stopped(engine) \in Engines /\ Emptied(engine) \in Engines
        /\ Emptied(Stopped(engine)) \in Engines
        /\ Stopped(engine).next = engine.next /\ Emptied(engine).next = engine.next
        /\ Emptied(Stopped(engine)).next = engine.next
        /\ Emptied(engine).conf = {} /\ Emptied(Stopped(engine)).conf = {}
    BY <1>1 DEF Stopped, Emptied, Engines
  <1>3. engine.next \in Nat
    BY <1>1 DEF Engines
  <1>4. CASE c.cmd = "add"
    <2>1. engine.next <= MaxId /\ engine.next \in 1 .. MaxId + 1
      BY <1>1, <1>4 DEF Accepts, Engines
    <2>2. engine.next \in Ids /\ engine.next + 1 \in 1 .. MaxId + 1
      BY <1>1, <2>1 DEF Ids
    <2>3. After(c) = [engine EXCEPT !.pubs = engine.pubs \union {engine.next}, !.next = engine.next + 1]
      BY <1>4 DEF After
    <2>4. engine.pubs \union {engine.next} \in SUBSET Ids
      BY <1>1, <2>2 DEF Engines
    <2>5. engine.next <= engine.next + 1
      BY <1>3
    <2> HIDE DEF Ids
    <2>6. After(c) \in Engines
      BY <1>1, <2>2, <2>3, <2>4 DEF Engines
    <2>7. /\ After(c).conf = engine.conf /\ After(c).next = engine.next + 1
          /\ After(c).pubs = engine.pubs \union {engine.next}
      BY <1>1, <2>3 DEF Engines
    <2> QED BY <1>1, <2>5, <2>6, <2>7
  <1>5. CASE c.cmd = "conf"
    <2>1. c.arg \in engine.pubs /\ After(c) = [engine EXCEPT !.conf = engine.conf \union {c.arg}]
      BY <1>5 DEF Accepts, After
    <2> HIDE DEF Ids
    <2> QED BY <1>1, <1>3, <2>1 DEF Engines
  <1>6. CASE c.cmd = "goose"
    <2>1. After(c) = [engine EXCEPT !.goose = engine.goose \union {c.arg}]
      BY <1>6 DEF After
    <2> HIDE DEF Ids
    <2> QED BY <1>1, <1>3, <2>1 DEF Engines
  <1>7. CASE c.cmd = "clear"
    <2>1. After(c) = IF engine.running THEN engine ELSE Emptied(engine)
      BY <1>7 DEF After
    <2> QED BY <1>1, <1>2, <1>3, <2>1
  <1>8. CASE c.cmd \in {"stop", "reset"}
    <2>1. After(c) = Emptied(Stopped(engine))
      BY <1>8 DEF After
    <2> QED BY <1>1, <1>2, <1>3, <2>1
  <1>9. CASE c.cmd = "start"
    <2>1. After(c) = [engine EXCEPT !.running = TRUE, !.live = engine.conf]
      BY <1>9 DEF After
    <2> HIDE DEF Ids
    <2>2. After(c) \in Engines
      BY <1>1, <2>1 DEF Engines
    <2>3. /\ After(c).conf = engine.conf /\ After(c).pubs = engine.pubs
          /\ After(c).next = engine.next
      BY <1>1, <2>1 DEF Engines
    <2> QED BY <1>1, <1>3, <2>2, <2>3
  <1>10. CASE c.cmd \in {"open", "gstop", "close"}
    <2>1. After(c) \in {[engine EXCEPT !.open = TRUE], [engine EXCEPT !.goose = {}],
                        [engine EXCEPT !.open = FALSE]}
      BY <1>10 DEF After
    <2> HIDE DEF Ids
    <2>2. After(c) \in Engines
      BY <1>1, <2>1 DEF Engines
    <2>3. /\ After(c).conf = engine.conf /\ After(c).pubs = engine.pubs
          /\ After(c).next = engine.next
      BY <1>1, <2>1 DEF Engines
    <2> QED BY <1>1, <1>3, <2>2, <2>3
  <1>11. CASE c.cmd \notin {"add", "conf", "goose", "clear", "stop", "reset", "start",
                            "open", "gstop", "close"}
    <2>1. After(c) = engine
      BY <1>11 DEF After
    <2> QED BY <1>1, <1>3, <2>1
  <1> QED BY <1>4, <1>5, <1>6, <1>7, <1>8, <1>9, <1>10, <1>11

\* A lost connection: every call fails, and a question is behind.
Question(t) == NewCall(t, "running?", 0)
LEMMA QuestionFits ==
    \A t \in Tasks : /\ Question(t) \in Calls /\ Question(t).by = t
                     /\ Question(t).cmd = "running?" /\ Question(t).res = "none"
                     /\ Question(t).arg = 0
  BY CallFits, CallMade DEF Question, Commands

Drops ==
    /\ calls' \in Seq(Calls) /\ Len(calls') = Len(calls) + 1
    /\ \A k \in DOMAIN calls :
         /\ k \in DOMAIN calls'
         /\ calls'[k].by = calls[k].by /\ calls'[k].cmd = calls[k].cmd
         /\ calls'[k].arg = calls[k].arg /\ calls'[k].value = calls[k].value
         /\ calls'[k].res = "rejected"
    /\ \A i \in DOMAIN calls' : i \in DOMAIN calls \/ i = Len(calls) + 1
    /\ Len(calls) + 1 \in DOMAIN calls' /\ calls'[Len(calls) + 1] = Question("hello")
    /\ task' \in [Tasks -> Works] /\ task["hello"].at = "idle" /\ task'["hello"].at = "running?"
    /\ \A u \in Tasks : u # "hello" => task'[u] = task[u]
    /\ dropped'

LEMMA DropFits ==
    ASSUME TypeInv, Drop
    PROVE  Drops
  <1> DEFINE failed == [k \in DOMAIN calls |-> [calls[k] EXCEPT !.res = "rejected"]]
             q == Question("hello")
  <1>1. "hello" \in Tasks /\ q \in Calls
    BY NamesDiffer, QuestionFits DEF Others
  <1>2. /\ DOMAIN calls = 1 .. Len(calls) /\ Len(calls) \in Nat
        /\ \A j \in DOMAIN calls : calls[j] \in Calls
    BY CallsInLine
  <1>3. \A j \in DOMAIN calls :
          /\ failed[j] \in Calls /\ failed[j].res = "rejected"
          /\ failed[j].by = calls[j].by /\ failed[j].cmd = calls[j].cmd
          /\ failed[j].arg = calls[j].arg /\ failed[j].value = calls[j].value
    <2> HIDE DEF Commands, Tasks, Ids
    <2> QED BY <1>2 DEF Calls
  <1>4. failed \in Seq(Calls) /\ Len(failed) = Len(calls)
    <2>1. failed \in [1 .. Len(calls) -> Calls]
      BY <1>2, <1>3
    <2>2. failed \in Seq(Calls)
      BY <1>2, <2>1, SeqDef
    <2>3. DOMAIN failed = 1 .. Len(calls)
      BY <1>2
    <2> QED BY <1>2, <2>2, <2>3, LenProperties
  <1>5. calls' = Append(failed, q) /\ dropped' /\ task["hello"].at = "idle"
    BY DEF Drop, Question
  <1> HIDE DEF failed, q
  <1>6. /\ Append(failed, q) \in Seq(Calls) /\ Len(Append(failed, q)) = Len(failed) + 1
        /\ \A i \in 1 .. Len(failed) : Append(failed, q)[i] = failed[i]
        /\ Append(failed, q)[Len(failed) + 1] = q
    BY <1>1, <1>4, AppendProperties
  <1>7. /\ calls' \in Seq(Calls) /\ Len(calls') = Len(calls) + 1
        /\ \A i \in 1 .. Len(calls) : calls'[i] = failed[i]
        /\ calls'[Len(calls) + 1] = q
    BY <1>4, <1>5, <1>6
  <1>8. DOMAIN calls' = 1 .. Len(calls) + 1
    BY <1>7, LenProperties
  <1> DEFINE w == [task["hello"] EXCEPT !.at = "running?"]
  <1>9. task' = [task EXCEPT !["hello"] = w] /\ w \in Works /\ w.at = "running?"
    BY <1>1 DEF Drop, TypeInv, Works, Labels
  <1> HIDE DEF w
  <1>10. /\ task' \in [Tasks -> Works] /\ task'["hello"].at = "running?"
         /\ \A u \in Tasks : u # "hello" => task'[u] = task[u]
    BY <1>1, <1>9 DEF TypeInv
  <1>11. \A k \in DOMAIN calls :
           /\ k \in DOMAIN calls'
           /\ calls'[k].by = calls[k].by /\ calls'[k].cmd = calls[k].cmd
           /\ calls'[k].arg = calls[k].arg /\ calls'[k].value = calls[k].value
           /\ calls'[k].res = "rejected"
    BY <1>2, <1>3, <1>7, <1>8
  <1>12. /\ \A i \in DOMAIN calls' : i \in DOMAIN calls \/ i = Len(calls) + 1
         /\ Len(calls) + 1 \in DOMAIN calls'
    BY <1>2, <1>8
  <1> QED BY <1>5, <1>7, <1>10, <1>11, <1>12 DEF Drops, q

\* The page is loaded: the calls are left by their handlers, two questions
\* are behind.
Orphans(d) ==
    /\ d \in {0, 1}
    /\ calls' \in Seq(Calls) /\ Len(calls) - d \in Nat /\ Len(calls') = Len(calls) - d + 2
    /\ \A i \in DOMAIN calls' :
         \/ /\ i <= Len(calls) - d /\ i + d \in DOMAIN calls /\ calls'[i].by = "gone"
            /\ calls'[i].cmd = calls[i + d].cmd /\ calls'[i].arg = calls[i + d].arg
            /\ calls'[i].value = calls[i + d].value /\ calls'[i].res = calls[i + d].res
         \/ i = Len(calls) - d + 1 /\ calls'[i] = Question("load")
         \/ i = Len(calls) - d + 2 /\ calls'[i] = Question("hello")
    /\ \A j \in DOMAIN calls : j > d => j - d \in DOMAIN calls' /\ j - d <= Len(calls) - d
    /\ Len(calls) - d + 1 \in DOMAIN calls' /\ Len(calls) - d + 2 \in DOMAIN calls'
    /\ task' \in [Tasks -> Works]
    /\ task'["load"].at = "running?" /\ task'["hello"].at = "running?"
    /\ \A u \in Tasks : u \notin {"load", "hello"} => task'[u] = Idle

LEMMA LoadsFit ==
    ASSUME TypeInv, NEW d \in {0, 1}, NEW sent \in Seq(Calls), Len(calls) - d \in Nat,
           Len(sent) = Len(calls) - d, \A i \in 1 .. Len(sent) : sent[i] = calls[i + d],
           Loads(sent)
    PROVE  Orphans(d)
  <1> DEFINE left == [k \in DOMAIN sent |-> [sent[k] EXCEPT !.by = "gone"]]
             p == Question("load")
             q == Question("hello")
             m == Len(calls) - d
  <1>1. "hello" \in Tasks /\ "load" \in Tasks /\ p \in Calls /\ q \in Calls
    BY NamesDiffer, QuestionFits DEF Others
  <1>2. /\ DOMAIN calls = 1 .. Len(calls) /\ Len(calls) \in Nat /\ m \in Nat
        /\ \A j \in DOMAIN calls : calls[j] \in Calls
        /\ DOMAIN sent = 1 .. m /\ \A i \in 1 .. m : sent[i] = calls[i + d] /\ sent[i] \in Calls
    BY CallsInLine, LenProperties, ElementOfSeq
  <1>3. \A j \in 1 .. m :
          /\ left[j] \in Calls /\ left[j].by = "gone"
          /\ left[j].res = sent[j].res /\ left[j].cmd = sent[j].cmd
          /\ left[j].arg = sent[j].arg /\ left[j].value = sent[j].value
    <2> HIDE DEF Commands, Tasks, Ids, m
    <2> QED BY <1>2 DEF Calls
  <1>4. left \in Seq(Calls) /\ Len(left) = m
    <2>1. left \in [1 .. m -> Calls]
      BY <1>2, <1>3
    <2>2. left \in Seq(Calls)
      BY <1>2, <2>1, SeqDef
    <2>3. DOMAIN left = 1 .. m
      BY <1>2
    <2> QED BY <1>2, <2>2, <2>3, LenProperties
  <1>5. calls' = left \o <<p, q>>
    BY DEF Loads, Question
  <1>6. <<p, q>> \in Seq(Calls) /\ Len(<<p, q>>) = 2 /\ <<p, q>>[1] = p /\ <<p, q>>[2] = q
    BY <1>1
  <1> DEFINE b == <<p, q>>
  <1> HIDE DEF left, p, q
  <1>7. b \in Seq(Calls) /\ Len(b) = 2 /\ b[1] = p /\ b[2] = q /\ calls' = left \o b
    BY <1>5, <1>6
  <1> HIDE DEF b
  <1>8. /\ calls' \in Seq(Calls) /\ Len(calls') = Len(left) + 2
        /\ \A i \in 1 .. Len(left) + 2 :
             calls'[i] = IF i <= Len(left) THEN left[i] ELSE b[i - Len(left)]
    <2>1. /\ left \o b \in Seq(Calls) /\ Len(left \o b) = Len(left) + Len(b)
          /\ \A i \in 1 .. Len(left) + Len(b) :
               (left \o b)[i] = IF i <= Len(left) THEN left[i] ELSE b[i - Len(left)]
      BY <1>4, <1>7, ConcatProperties
    <2> QED BY <1>7, <2>1
  <1> HIDE DEF m
  <1>9. Len(calls') = m + 2 /\ DOMAIN calls' = 1 .. m + 2
    BY <1>4, <1>8, LenProperties
  <1>10. \A i \in 1 .. m : calls'[i] = left[i]
    BY <1>2, <1>4, <1>8
  <1>11. calls'[m + 1] = p /\ calls'[m + 2] = q
    <2>1. m + 1 \in 1 .. m + 2 /\ ~(m + 1 <= m) /\ m + 1 - m = 1
          /\ m + 2 \in 1 .. m + 2 /\ ~(m + 2 <= m) /\ m + 2 - m = 2
      BY <1>2
    <2> QED BY SMTT(30), <1>4, <1>7, <1>8, <2>1
  <1>12. \A i \in DOMAIN calls' : i \in 1 .. m \/ i = m + 1 \/ i = m + 2
    BY <1>2, <1>9
  <1>13. \A i \in 1 .. m : i <= m /\ i + d \in DOMAIN calls
    BY <1>2 DEF m
  <1>14. \A i \in DOMAIN calls' :
           \/ /\ i <= m /\ i + d \in DOMAIN calls /\ calls'[i].by = "gone"
              /\ calls'[i].cmd = calls[i + d].cmd /\ calls'[i].arg = calls[i + d].arg
              /\ calls'[i].value = calls[i + d].value /\ calls'[i].res = calls[i + d].res
           \/ i = m + 1 /\ calls'[i] = p
           \/ i = m + 2 /\ calls'[i] = q
    BY <1>2, <1>3, <1>10, <1>11, <1>12, <1>13
  <1>15. \A j \in DOMAIN calls : j > d => j - d \in DOMAIN calls' /\ j - d <= m
    BY <1>2, <1>9 DEF m
  <1>16. m + 1 \in DOMAIN calls' /\ m + 2 \in DOMAIN calls'
    BY <1>2, <1>9
  <1> DEFINE w == [Idle EXCEPT !.at = "running?"]
  <1>17. /\ task' = [[[t \in Tasks |-> Idle] EXCEPT !["load"] = w] EXCEPT !["hello"] = w]
         /\ w \in Works /\ w.at = "running?"
    BY <1>1 DEF Loads, Idle, Works, Labels
  <1> HIDE DEF w
  <1>18. /\ task' \in [Tasks -> Works] /\ task'["load"].at = "running?" /\ task'["hello"].at = "running?"
         /\ \A u \in Tasks : u \notin {"load", "hello"} => task'[u] = Idle
    BY <1>1, <1>17, IdleFits
  <1> QED BY <1>2, <1>8, <1>9, <1>14, <1>15, <1>16, <1>18 DEF Orphans, m, p, q

LEMMA LoadingFits ==
    ASSUME TypeInv, Loading
    PROVE  \E d : Orphans(d) /\ (Reload => d = 0)
  <1>1. calls \in Seq(Calls) /\ Len(calls) \in Nat
    BY CallsInLine DEF TypeInv
  <1>2. CASE Reload
    <2>1. Loads(calls)
      BY <1>2 DEF Reload
    <2>2. Len(calls) - 0 = Len(calls) /\ \A i \in 1 .. Len(calls) : calls[i] = calls[i + 0]
      BY <1>1
    <2>3. Orphans(0)
      BY <1>1, <2>1, <2>2, LoadsFit
    <2> QED BY <2>3
  <1>3. CASE ResetReloads /\ ~Reload
    <2>1. Loads(Tail(calls)) /\ calls # <<>>
      BY <1>3 DEF ResetReloads, Answered
    <2>2. /\ Tail(calls) \in Seq(Calls) /\ Len(Tail(calls)) = Len(calls) - 1 /\ Len(calls) - 1 \in Nat
          /\ \A i \in 1 .. Len(Tail(calls)) : Tail(calls)[i] = calls[i + 1]
      BY <1>1, <2>1, HeadTailProperties, EmptySeq
    <2>3. Orphans(1)
      BY <2>1, <2>2, LoadsFit
    <2> QED BY <1>3, <2>3
  <1> QED BY <1>2, <1>3 DEF Loading

-----------------------------------------------------------------------------
(* The types.                                                              *)
LEMMA Removal ==
    ASSUME list \in Seq(Lids), NEW n \in DOMAIN list
    PROVE  /\ RemoveAt(list, n) \in Seq(Lids)
           /\ Len(RemoveAt(list, n)) = Len(list) - 1
           /\ \A i \in 1 .. Len(list) - 1 :
                RemoveAt(list, n)[i] = IF i < n THEN list[i] ELSE list[i + 1]
  <1> DEFINE m == Len(list)
             r == RemoveAt(list, n)
             a == SubSeq(list, 1, n - 1)
             b == SubSeq(list, n + 1, m)
  <1>1. m \in Nat /\ n \in 1 .. m /\ \A i \in 1 .. m : list[i] \in Lids
    BY LenProperties, ElementOfSeq
  <1>2. r = a \o b
    BY DEF RemoveAt
  <1>3. a \in Seq(Lids) /\ Len(a) = n - 1 /\ \A i \in 1 .. n - 1 : a[i] = list[i]
    BY <1>1, SubSeqProperties
  <1>4. b \in Seq(Lids) /\ Len(b) = m - n /\ \A i \in 1 .. m - n : b[i] = list[n + i]
    <2>1. n + 1 \in Int /\ m \in Int /\ \A i \in n + 1 .. m : list[i] \in Lids
      BY <1>1
    <2>2. /\ b \in Seq(Lids) /\ Len(b) = IF n + 1 <= m THEN m - (n + 1) + 1 ELSE 0
          /\ \A i \in 1 .. m - (n + 1) + 1 : b[i] = list[(n + 1) + i - 1]
      BY <2>1, SubSeqProperties
    <2>3. \A i \in 1 .. m - n : (n + 1) + i - 1 = n + i
      BY <1>1
    <2>4. 1 .. m - (n + 1) + 1 = 1 .. m - n
      BY <1>1
    <2> QED BY <1>1, <2>2, <2>3, <2>4
  <1> HIDE DEF m, r, a, b
  <1>5. /\ r \in Seq(Lids) /\ Len(r) = (n - 1) + (m - n)
        /\ \A i \in 1 .. (n - 1) + (m - n) : r[i] = IF i <= n - 1 THEN a[i] ELSE b[i - (n - 1)]
    BY SMTT(30), <1>2, <1>3, <1>4, ConcatProperties
  <1>6. ASSUME NEW i \in 1 .. m - 1
        PROVE  r[i] = IF i < n THEN list[i] ELSE list[i + 1]
    <2>1. i \in 1 .. (n - 1) + (m - n)
      BY <1>1
    <2>2. CASE i < n
      BY <1>1, <1>3, <1>5, <2>1, <2>2
    <2>3. CASE ~(i < n)
      <3>1. i - (n - 1) \in 1 .. m - n /\ n + (i - (n - 1)) = i + 1 /\ ~(i <= n - 1)
        BY <1>1, <2>3
      <3> QED BY <1>4, <1>5, <2>1, <2>3, <3>1
    <2> QED BY <2>2, <2>3
  <1>7. Len(r) = m - 1
    BY <1>1, <1>5
  <1> QED BY <1>5, <1>6, <1>7 DEF m, r

\* The page apart from its calls and handlers.
PageTyped ==
    /\ list \in Seq(Lids) /\ nextLid \in 1 .. MaxLid + 1
    /\ isRunning \in BOOLEAN /\ polling \in BOOLEAN /\ header \in BOOLEAN
    /\ lastRunning \in BOOLEAN /\ disturbed \in BOOLEAN /\ fresh \in BOOLEAN
    /\ dropped \in BOOLEAN

LEMMA HandlersKeepPage ==
    ASSUME TypeInv, PageTyped, Handlers, ~ResetReloads
    PROVE  PageTyped'
  <1>1. \A t \in Tasks : task[t].viaHeader \in BOOLEAN
    BY TypeParts
  <1>2. "stop" \in Tasks /\ Starters \subseteq Tasks
    BY NamesDiffer DEF Others
  <1>3. ASSUME NEW s \in Starters, StartStep(s)
        PROVE  PageTyped'
    <2>1. UNCHANGED <<panel, lastRunning, user>>
      BY <1>3 DEF StartStep
    <2>2. task[s].viaHeader \in BOOLEAN
      BY <1>1, <1>2
    <2>3. StartReturns(s) => isRunning' \in BOOLEAN /\ polling' \in BOOLEAN /\ header' \in BOOLEAN
      BY <2>2 DEF StartReturns, PageTyped
    <2>4. UNCHANGED run => isRunning' \in BOOLEAN /\ polling' \in BOOLEAN /\ header' \in BOOLEAN
      BY DEF run, PageTyped
    <2>5. StartDone(s) => isRunning' \in BOOLEAN /\ polling' \in BOOLEAN /\ header' \in BOOLEAN
      BY <2>2, <2>3 DEF StartDone, PageTyped, PollAfterStart
    <2>6. isRunning' \in BOOLEAN /\ polling' \in BOOLEAN /\ header' \in BOOLEAN
      BY <1>3, <2>3, <2>4, <2>5 DEF StartStep, StartOpened, StartCleared, StartAdded, StartConfigured,
           StartSideDone, StartGooseDone, StartRolledBack
    <2> QED BY <2>1, <2>6 DEF PageTyped, panel, user
  <1>4. CASE StopAnswered \/ StopDone
    BY <1>1, <1>2, <1>4 DEF StopAnswered, StopDone, OnPublishingStopped, PageTyped, panel, run, user
  <1>5. CASE PollAnswered \/ BackAnswered \/ HelloAnswered \/ LoadAnswered
    BY <1>5 DEF PollAnswered, BackAnswered, HelloAnswered, LoadAnswered, OnPublishingStopped, SaysRunning,
         SaysStopped, SyncedRun, PageTyped, panel, run, user
  <1>6. CASE ResetBackend \/ NobodyWaits
    BY <1>6 DEF ResetBackend, NobodyWaits, PageTyped, panel, run, user
  <1> QED BY <1>3, <1>4, <1>5, <1>6 DEF Handlers

LEMMA PageKeepsTypes ==
    ASSUME TypeInv, [Next]_vars
    PROVE  PageTyped'
  <1>1. PageTyped
    BY TypeParts DEF PageTyped
  <1>2. CASE UNCHANGED vars \/ Execute \/ EngineEnds \/ Timers \/ Drop
    BY <1>1, <1>2 DEF vars, Execute, EngineEnds, Timers, PollTick, BackTick, HeaderTick, Drop,
         PageTyped, panel, run, user
  <1>3. CASE Handlers /\ ~ResetReloads
    BY <1>1, <1>3, HandlersKeepPage
  <1>4. CASE Loading
    <2>1. <<>> \in Seq(Lids) /\ 1 \in 1 .. MaxLid + 1
      BY PanelAssumption, EmptySeq
    <2>2. /\ list' = <<>> /\ nextLid' = 1 /\ isRunning' = FALSE /\ polling' = FALSE
          /\ header' = FALSE /\ lastRunning' = FALSE /\ disturbed' = TRUE /\ dropped' = dropped
          /\ fresh' \in BOOLEAN
      BY <1>4 DEF Loading, ResetReloads, Reload, Loads
    <2> QED BY <1>1, <2>1, <2>2 DEF PageTyped
  <1>5. CASE AddPublisher
    <2>1. nextLid \in Lids /\ nextLid + 1 \in 1 .. MaxLid + 1
      BY <1>1, <1>5, PanelAssumption DEF AddPublisher, PageTyped, Lids
    <2>2. Append(list, nextLid) \in Seq(Lids)
      BY <1>1, <2>1, AppendProperties DEF PageTyped
    <2> QED BY <1>1, <1>5, <2>1, <2>2 DEF AddPublisher, PageTyped, run
  <1>6. ASSUME NEW idx \in DOMAIN list, RemovePublisher(idx)
        PROVE  PageTyped'
    <2>1. RemoveAt(list, idx) \in Seq(Lids)
      BY <1>1, Removal DEF PageTyped
    <2> QED BY <1>1, <1>6, <2>1 DEF RemovePublisher, PageTyped, run
  <1>7. CASE \E h \in BOOLEAN : Start(h)
    <2>1. disturbed' \in BOOLEAN /\ fresh' = FALSE /\ UNCHANGED <<panel, run, lastRunning, dropped>>
      BY <1>1, <1>7, TypeParts DEF Start, PageTyped
    <2> QED BY <1>1, <2>1 DEF PageTyped, panel, run
  <1>8. CASE StartRefused \/ (\E h \in BOOLEAN : Stop(h)) \/ Reset
    BY <1>1, <1>8 DEF StartRefused, Stop, Reset, PageTyped, panel, run, user
  <1> QED BY <1>2, <1>3, <1>4, <1>5, <1>6, <1>7, <1>8 DEF Next, Handlers, UserActs, Loading

LEMMA TypesMade ==
    ASSUME PageTyped', (bid \in [Lids -> {0} \union Ids])', (calls \in Seq(Calls))',
           (task \in [Tasks -> Works])', (engine \in Engines)',
           (engine.conf \subseteq engine.pubs)',
           \A t \in Tasks : /\ task'[t].at \in LabelsOf(t)
                            /\ task'[t].at \in Publishing => task'[t].pub \in Lids
    PROVE  TypeInv'
  <1>1. \A k \in DOMAIN calls' : calls'[k] \in Calls
    BY LenProperties, ElementOfSeq
  <1>2. Commands \subseteq Labels \ {"idle", "rollback"}
    BY DEF Commands, Labels
  <1>3. \A k \in DOMAIN calls' : /\ calls'[k].by \in Tasks \union {"gone"}
                                 /\ calls'[k].cmd \in Labels \ {"idle", "rollback"}
                                 /\ calls'[k].res \in {"none", "ok", "rejected"}
    <2> HIDE DEF Commands, Tasks, Ids, Labels
    <2> QED BY <1>1, <1>2 DEF Calls
  <1>4. \A t \in Tasks : task'[t].at \in Labels /\ task'[t].pub \in {0} \union Lids
    BY DEF Works
  <1>5. engine'.pubs \subseteq Ids /\ engine'.goose \subseteq {0} \union Ids
    BY DEF Engines
  <1>6. TypeOK'
    BY <1>3, <1>4, <1>5 DEF TypeOK, PageTyped
  <1> QED BY <1>6 DEF TypeInv, Publishing

\* What becomes of the handlers.
LEMMA TasksKept ==
    ASSUME TypeInv, \/ \E d, n, c : Carried(d, n, c)
                    \/ Drops \/ task' = task \/ \E d : Orphans(d)
    PROVE  /\ task' \in [Tasks -> Works]
           /\ \A t \in Tasks : /\ task'[t].at \in LabelsOf(t)
                               /\ task'[t].at \in Publishing => task'[t].pub \in Lids
  <1>1. \A t \in Tasks : /\ task[t].at \in LabelsOf(t)
                         /\ task[t].at \in Publishing => task[t].pub \in Lids
    BY DEF TypeInv, Publishing
  <1>2. \A t \in Tasks : "idle" \in LabelsOf(t)
    BY NamesDiffer DEF Others, StartLabels
  <1>3. Idle.at = "idle" /\ "idle" \notin Publishing /\ "running?" \notin Publishing
    BY IdleFits DEF Publishing
  <1>4. "running?" \in LabelsOf("hello") /\ "running?" \in LabelsOf("load")
    BY NamesDiffer
  <1>5. ASSUME NEW t \in Tasks, Leaves(t)
        PROVE  /\ task' \in [Tasks -> Works]
               /\ \A u \in Tasks : /\ task'[u].at \in LabelsOf(u)
                                   /\ task'[u].at \in Publishing => task'[u].pub \in Lids
    BY <1>1, <1>2, <1>3, <1>5 DEF Leaves
  <1>6. ASSUME NEW t \in Tasks, NEW label, NEW p, NEW i, NEW arg, NEW d, Waits(t, label, p, i, arg, d)
        PROVE  /\ task' \in [Tasks -> Works]
               /\ \A u \in Tasks : /\ task'[u].at \in LabelsOf(u)
                                   /\ task'[u].at \in Publishing => task'[u].pub \in Lids
    BY <1>1, <1>6 DEF Waits
  <1>7. ASSUME task' = task
        PROVE  /\ task' \in [Tasks -> Works]
               /\ \A u \in Tasks : /\ task'[u].at \in LabelsOf(u)
                                   /\ task'[u].at \in Publishing => task'[u].pub \in Lids
    BY <1>1, <1>7 DEF TypeInv
  <1>8. ASSUME NEW d, NEW n, NEW c, Carried(d, n, c)
        PROVE  /\ task' \in [Tasks -> Works]
               /\ \A u \in Tasks : /\ task'[u].at \in LabelsOf(u)
                                   /\ task'[u].at \in Publishing => task'[u].pub \in Lids
    BY <1>5, <1>6, <1>7, <1>8 DEF Carried, Shape
  <1>9. CASE Drops
    BY <1>1, <1>3, <1>4, <1>9 DEF Drops
  <1>10. CASE \E d : Orphans(d)
    BY <1>2, <1>3, <1>4, <1>10 DEF Orphans
  <1> QED BY <1>7, <1>8, <1>9, <1>10

LEMMA TypesKept ==
    ASSUME TypeInv, QueueInv, IdsInv, [Next]_vars
    PROVE  TypeInv'
  <1>1. PageTyped'
    BY PageKeepsTypes
  <1>2. engine \in Engines /\ engine.conf \subseteq engine.pubs
    BY DEF TypeInv, TypeOK
  <1>3. bid \in [Lids -> {0} \union Ids]
    BY TypeParts
  <1>4. CASE Execute
    <2>1. PICK k : Executes(k)
      BY <1>4, OneIsExecuted
    <2>2. engine' \in Engines /\ engine'.conf \subseteq engine'.pubs
      BY <1>2, <2>1, BackendFits DEF Executes
    <2>3. task' = task /\ bid' = bid /\ calls' \in Seq(Calls)
      BY <2>1 DEF Executes
    <2>4. /\ task' \in [Tasks -> Works]
          /\ \A t \in Tasks : /\ task'[t].at \in LabelsOf(t)
                              /\ task'[t].at \in Publishing => task'[t].pub \in Lids
      BY <2>3, TasksKept
    <2> QED BY <1>1, <1>3, <2>2, <2>3, <2>4, TypesMade
  <1>5. CASE Drop
    <2>1. Drops
      BY <1>5, DropFits
    <2>2. /\ task' \in [Tasks -> Works]
          /\ \A t \in Tasks : /\ task'[t].at \in LabelsOf(t)
                              /\ task'[t].at \in Publishing => task'[t].pub \in Lids
      BY <2>1, TasksKept
    <2>3. bid' = bid /\ engine' = engine /\ calls' \in Seq(Calls)
      BY <1>5, <2>1 DEF Drop, Drops
    <2> QED BY <1>1, <1>2, <1>3, <2>2, <2>3, TypesMade
  <1>6. CASE Loading
    <2>1. PICK d : Orphans(d)
      BY <1>6, LoadingFits
    <2>2. /\ task' \in [Tasks -> Works]
          /\ \A t \in Tasks : /\ task'[t].at \in LabelsOf(t)
                              /\ task'[t].at \in Publishing => task'[t].pub \in Lids
      BY <2>1, TasksKept
    <2>3. bid' \in [Lids -> {0} \union Ids] /\ engine' = engine /\ calls' \in Seq(Calls)
      BY <1>6, <2>1 DEF Loading, ResetReloads, Reload, Loads, Orphans
    <2> QED BY <1>1, <1>2, <2>2, <2>3, TypesMade
  <1>7. CASE ~Execute /\ ~Drop /\ ~Loading
    <2>1. PICK d, n, c : Carried(d, n, c)
      BY <1>7, ActionsCarry
    <2>2. /\ task' \in [Tasks -> Works]
          /\ \A t \in Tasks : /\ task'[t].at \in LabelsOf(t)
                              /\ task'[t].at \in Publishing => task'[t].pub \in Lids
      BY <2>1, TasksKept
    <2>3. bid' \in [Lids -> {0} \union Ids] /\ calls' \in Seq(Calls)
      BY <2>1 DEF Carried, BidsKept, Moves
    <2>4. /\ Stopped(engine) \in Engines
          /\ Stopped(engine).conf = engine.conf /\ Stopped(engine).pubs = engine.pubs
      BY <1>2 DEF Stopped, Engines
    <2>5. engine' \in Engines /\ engine'.conf \subseteq engine'.pubs
      BY <1>2, <2>1, <2>4 DEF Carried
    <2> QED BY <1>1, <2>2, <2>3, <2>5, TypesMade
  <1> QED BY <1>4, <1>5, <1>6, <1>7

-----------------------------------------------------------------------------
(* The line of the calls.                                                  *)
LEMMA LineCarried ==
    ASSUME TypeInv, QueueInv, NEW d, NEW n, NEW c, Carried(d, n, c)
    PROVE  \A j, k \in DOMAIN calls' :
              /\ j < k /\ calls'[j].res = "none" => calls'[k].res = "none"
              /\ j < k /\ calls'[k].by = "gone" => calls'[j].by = "gone"
              /\ calls'[j].by = calls'[k].by /\ calls'[k].by # "gone" => j = k
  <1>1. /\ d \in {0, 1} /\ n \in {0, 1} /\ DOMAIN calls' \subseteq Nat \ {0} /\ DOMAIN calls \subseteq Nat \ {0}
        /\ \A i \in DOMAIN calls' :
             \/ i + d \in DOMAIN calls /\ calls'[i] = calls[i + d]
             \/ /\ n = 1 /\ i = Len(calls) - d + 1 /\ calls'[i] = c
                /\ \A j \in DOMAIN calls : j - d < i
    BY MovesOn DEF Carried
  <1>2. /\ n = 1 => /\ c.by # "gone" /\ c.res = "none" /\ c.by \in Tasks
                    /\ d = 1 => calls[1].by = c.by /\ 1 \in DOMAIN calls
                    /\ d = 0 => task[c.by].at = "idle"
    BY NamesDiffer DEF Carried, Expected
  <1>3. ASSUME NEW i \in DOMAIN calls', n = 1, i + d \in DOMAIN calls, calls'[i] = calls[i + d]
        PROVE  calls'[i].by # c.by
    <2>1. CASE d = 1
      <3>1. i + d # 1
        BY <1>1, <2>1
      <3> QED BY <1>2, <1>3, <2>1, <3>1 DEF QueueInv
    <2>2. CASE d = 0
      BY <1>2, <1>3, <2>2 DEF QueueInv
    <2> QED BY <1>1, <2>1, <2>2
  <1> SUFFICES ASSUME NEW j \in DOMAIN calls', NEW k \in DOMAIN calls'
               PROVE  /\ j < k /\ calls'[j].res = "none" => calls'[k].res = "none"
                      /\ j < k /\ calls'[k].by = "gone" => calls'[j].by = "gone"
                      /\ calls'[j].by = calls'[k].by /\ calls'[k].by # "gone" => j = k
    OBVIOUS
  <1>4. CASE /\ j + d \in DOMAIN calls /\ calls'[j] = calls[j + d]
             /\ k + d \in DOMAIN calls /\ calls'[k] = calls[k + d]
    <2>1. (j < k => j + d < k + d) /\ (j + d = k + d => j = k)
      BY <1>1
    <2> QED BY <1>4, <2>1 DEF QueueInv
  <1>5. CASE /\ j + d \in DOMAIN calls /\ calls'[j] = calls[j + d]
             /\ n = 1 /\ calls'[k] = c
    BY <1>2, <1>3, <1>5
  <1>6. CASE /\ n = 1 /\ j = Len(calls) - d + 1 /\ calls'[j] = c
             /\ \A i \in DOMAIN calls : i - d < j
             /\ k + d \in DOMAIN calls /\ calls'[k] = calls[k + d]
    <2>1. ~(j < k)
      BY <1>1, <1>6
    <2> QED BY <1>3, <1>6, <2>1
  <1>7. CASE /\ n = 1 /\ j = Len(calls) - d + 1 /\ k = Len(calls) - d + 1
             /\ calls'[j] = c /\ calls'[k] = c
    BY <1>2, <1>7
  <1> QED BY <1>1, <1>4, <1>5, <1>6, <1>7

LEMMA WaitersCarried ==
    ASSUME TypeInv, QueueInv, NEW d, NEW n, NEW c, Carried(d, n, c)
    PROVE  /\ \A k \in DOMAIN calls' :
                calls'[k].by # "gone" =>
                  /\ task'[calls'[k].by].at # "idle"
                  /\ calls'[k].cmd = CommandOf(task'[calls'[k].by].at)
           /\ \A t \in Tasks : task'[t].at # "idle" => \E k \in DOMAIN calls' : calls'[k].by = t
  <1>1. /\ d \in {0, 1} /\ n \in {0, 1} /\ DOMAIN calls' \subseteq Nat \ {0} /\ DOMAIN calls \subseteq Nat \ {0}
        /\ \A i \in DOMAIN calls' :
             \/ i + d \in DOMAIN calls /\ calls'[i] = calls[i + d]
             \/ n = 1 /\ calls'[i] = c
        /\ \A j \in DOMAIN calls : j > d => j - d \in DOMAIN calls' /\ calls'[j - d] = calls[j]
        /\ n = 1 => \E i \in DOMAIN calls' : calls'[i] = c
    BY MovesOn DEF Carried
  <1>2. \A k \in DOMAIN calls : calls[k].by # "gone" => calls[k].by \in Tasks
    BY CallsInLine DEF Calls
  <1>3. d = 1 => 1 \in DOMAIN calls
    BY DEF Carried
  <1>4. ASSUME NEW t \in Tasks, \A u \in Tasks : u # t => task'[u] = task[u],
               d = 0 => task[t].at = "idle", d = 1 => calls[1].by = t,
               n = 1 => c.by = t /\ task'[t].at # "idle" /\ c.cmd = CommandOf(task'[t].at),
               n = 0 => task'[t].at = "idle"
        PROVE  /\ \A k \in DOMAIN calls' :
                    calls'[k].by # "gone" =>
                      /\ task'[calls'[k].by].at # "idle"
                      /\ calls'[k].cmd = CommandOf(task'[calls'[k].by].at)
               /\ \A u \in Tasks : task'[u].at # "idle" => \E k \in DOMAIN calls' : calls'[k].by = u
    <2>1. \A j \in DOMAIN calls : j > d => calls[j].by # t
      <3> TAKE j \in DOMAIN calls
      <3> HAVE j > d
      <3>1. CASE d = 1
        <4>1. j # 1 /\ t # "gone"
          BY <1>1, <3>1, NamesDiffer
        <4> QED BY <1>3, <1>4, <3>1, <4>1 DEF QueueInv
      <3>2. CASE d = 0
        BY <1>4, <3>2, NamesDiffer DEF QueueInv
      <3> QED BY <1>1, <3>1, <3>2
    <2>2. ASSUME NEW k \in DOMAIN calls', calls'[k].by # "gone"
          PROVE  /\ task'[calls'[k].by].at # "idle"
                 /\ calls'[k].cmd = CommandOf(task'[calls'[k].by].at)
      <3>1. CASE k + d \in DOMAIN calls /\ calls'[k] = calls[k + d]
        <4>1. k + d > d
          BY <1>1
        <4> QED BY <1>2, <1>4, <2>1, <2>2, <3>1, <4>1 DEF QueueInv
      <3>2. CASE n = 1 /\ calls'[k] = c
        BY <1>4, <3>2
      <3> QED BY <1>1, <3>1, <3>2
    <2>3. ASSUME NEW u \in Tasks, task'[u].at # "idle"
          PROVE  \E k \in DOMAIN calls' : calls'[k].by = u
      <3>1. CASE u = t
        BY <1>1, <1>4, <2>3, <3>1
      <3>2. CASE u # t
        <4>1. PICK j \in DOMAIN calls : calls[j].by = u
          BY <1>4, <2>3, <3>2 DEF QueueInv
        <4>2. j > d
          BY <1>1, <1>4, <3>2, <4>1
        <4> QED BY <1>1, <4>1, <4>2
      <3> QED BY <3>1, <3>2
    <2> QED BY <2>2, <2>3
  <1>5. CASE d = 0 /\ n = 0 /\ task' = task
    <2>1. \A j \in DOMAIN calls : j > d /\ j - d = j
      BY <1>1, <1>5
    <2>2. \A i \in DOMAIN calls' : i + d = i
      BY <1>1, <1>5
    <2> QED BY <1>1, <1>5, <2>1, <2>2 DEF QueueInv
  <1>6. CASE d = 1 /\ n = 0 /\ task' = task /\ calls[1].by = "gone"
    <2>1. \A j \in DOMAIN calls : j > d \/ j = 1
      BY <1>1, <1>6
    <2>2. ASSUME NEW u \in Tasks, task'[u].at # "idle"
          PROVE  \E k \in DOMAIN calls' : calls'[k].by = u
      <3>1. PICK j \in DOMAIN calls : calls[j].by = u
        BY <1>6, <2>2 DEF QueueInv
      <3>2. j > d
        BY <1>6, <2>1, <3>1, NamesDiffer
      <3> QED BY <1>1, <3>1, <3>2
    <2> QED BY <1>1, <1>6, <2>2 DEF QueueInv
  <1>7. CASE d = 1 /\ n = 0 /\ \E t \in Tasks : Leaves(t)
    <2>1. PICK t \in Tasks : Leaves(t)
      BY <1>7
    <2> QED BY <1>4, <1>7, <2>1, IdleFits DEF Leaves
  <1>8. CASE n = 1 /\ \E t \in Tasks : \E label, p, i, arg :
               Waits(t, label, p, i, arg, d) /\ c = NewCall(t, CommandOf(label), arg)
    <2>0. PICK t \in Tasks : \E label, p, i, arg :
            Waits(t, label, p, i, arg, d) /\ c = NewCall(t, CommandOf(label), arg)
      BY <1>8
    <2>1. PICK label, p, i, arg :
            Waits(t, label, p, i, arg, d) /\ c = NewCall(t, CommandOf(label), arg)
      BY <2>0
    <2>2. c.by = t /\ c.cmd = CommandOf(label)
      BY <2>1, CallMade
    <2> QED BY <1>4, <1>8, <2>1, <2>2 DEF Waits
  <1> QED BY <1>5, <1>6, <1>7, <1>8 DEF Carried, Shape

LEMMA QueueCarried ==
    ASSUME TypeInv, QueueInv, NEW d, NEW n, NEW c, Carried(d, n, c)
    PROVE  QueueInv'
  <1>1. \A i \in DOMAIN calls' :
             \/ i + d \in DOMAIN calls /\ calls'[i] = calls[i + d]
             \/ n = 1 /\ calls'[i] = c
    BY MovesOn DEF Carried
  <1>2. dropped' = dropped /\ (n = 1 => c.res = "none")
    BY DEF Carried, Expected
  <1>3. ~dropped' => \A k \in DOMAIN calls' :
             calls'[k].res = "rejected" => calls'[k].cmd \in {"add", "conf", "start"}
    BY <1>1, <1>2 DEF QueueInv
  <1> QED BY <1>3, LineCarried, WaitersCarried DEF QueueInv

LEMMA QueueKept ==
    ASSUME TypeInv, QueueInv, IdsInv, [Next]_vars
    PROVE  QueueInv'
  <1>1. ASSUME NEW k, Executes(k)
        PROVE  QueueInv'
    <2>1. /\ \A j \in DOMAIN calls : calls'[j].by = calls[j].by /\ calls'[j].cmd = calls[j].cmd
          /\ DOMAIN calls' = DOMAIN calls /\ task' = task /\ dropped' = dropped
          /\ calls'[k].res \in {"ok", "rejected"}
      BY <1>1 DEF Executes, Told, user
    <2>2. calls'[k].res = "rejected" => calls'[k].cmd \in {"add", "conf", "start"}
      BY <1>1 DEF Executes, Told, Accepts
    <2>3. DOMAIN calls \subseteq Nat /\ k \in DOMAIN calls
      BY <1>1, CallsInLine DEF Executes
    <2>4. ASSUME NEW i \in DOMAIN calls, NEW j \in DOMAIN calls, i < j, calls'[i].res = "none"
          PROVE  calls'[j].res = "none"
      <3>1. i # k /\ calls[i].res = "none"
        BY <1>1, <2>1, <2>4 DEF Executes
      <3>2. k <= i /\ j # k
        BY <1>1, <2>3, <2>4, <3>1 DEF Executes
      <3> QED BY <1>1, <2>4, <3>1, <3>2 DEF Executes, QueueInv
    <2>5. ~dropped' => \A j \in DOMAIN calls' :
             calls'[j].res = "rejected" => calls'[j].cmd \in {"add", "conf", "start"}
      BY <1>1, <2>1, <2>2 DEF Executes, QueueInv
    <2> QED BY <2>1, <2>4, <2>5 DEF QueueInv
  <1>2. ASSUME Drops
        PROVE  QueueInv'
    <2>1. /\ DOMAIN calls \subseteq Nat /\ Len(calls) \in Nat /\ \A k \in DOMAIN calls : k <= Len(calls)
          /\ \A k \in DOMAIN calls : calls[k].by # "gone" => calls[k].by \in Tasks
      BY CallsInLine DEF Calls
    <2>2. \A k \in DOMAIN calls : calls[k].by # "hello"
      BY <1>2, NamesDiffer DEF Drops, QueueInv
    <2>3. \A i \in DOMAIN calls' :
            \/ /\ i \in DOMAIN calls /\ calls'[i].res = "rejected"
               /\ calls'[i].by = calls[i].by /\ calls'[i].cmd = calls[i].cmd
            \/ /\ i = Len(calls) + 1 /\ calls'[i].res = "none" /\ calls'[i].by = "hello"
               /\ calls'[i].cmd = "running?" /\ \A k \in DOMAIN calls : k < i
      BY <1>2, <2>1, NamesDiffer, QuestionFits DEF Drops, Others
    <2>4. \A i, j \in DOMAIN calls' :
            /\ i < j /\ calls'[i].res = "none" => calls'[j].res = "none"
            /\ i < j /\ calls'[j].by = "gone" => calls'[i].by = "gone"
            /\ calls'[i].by = calls'[j].by /\ calls'[j].by # "gone" => i = j
      BY <2>1, <2>2, <2>3 DEF QueueInv
    <2>5. "hello" \in Tasks /\ CommandOf("running?") = "running?"
      BY NamesDiffer DEF Others, CommandOf
    <2>6. \A k \in DOMAIN calls' :
            calls'[k].by # "gone" =>
               /\ task'[calls'[k].by].at # "idle"
               /\ calls'[k].cmd = CommandOf(task'[calls'[k].by].at)
      BY <1>2, <2>1, <2>2, <2>3, <2>5 DEF Drops, QueueInv
    <2>7. \A t \in Tasks : task'[t].at # "idle" => \E k \in DOMAIN calls' : calls'[k].by = t
      <3> SUFFICES ASSUME NEW t \in Tasks, task'[t].at # "idle"
                   PROVE  \E k \in DOMAIN calls' : calls'[k].by = t
        OBVIOUS
      <3>1. CASE t = "hello"
        BY <1>2, <2>5, <3>1, QuestionFits DEF Drops
      <3>2. CASE t # "hello"
        <4>1. PICK k \in DOMAIN calls : calls[k].by = t
          BY <1>2, <3>2 DEF Drops, QueueInv
        <4> QED BY <1>2, <4>1 DEF Drops
      <3> QED BY <3>1, <3>2
    <2>8. dropped'
      BY <1>2 DEF Drops
    <2> QED BY <2>4, <2>6, <2>7, <2>8 DEF QueueInv
  <1>3. ASSUME NEW d, Orphans(d), dropped' = dropped
        PROVE  QueueInv'
    <2> DEFINE m == Len(calls) - d
    <2>1. /\ m \in Nat /\ DOMAIN calls' \subseteq Nat /\ d \in {0, 1} /\ DOMAIN calls \subseteq Nat
      BY <1>3, CallsInLine, LenProperties DEF Orphans
    <2>2. "hello" \in Tasks /\ "load" \in Tasks /\ CommandOf("running?") = "running?"
      BY NamesDiffer DEF Others, CommandOf
    <2>3. \A i \in DOMAIN calls' :
            \/ /\ i <= m /\ i + d \in DOMAIN calls /\ calls'[i].by = "gone"
               /\ calls'[i].cmd = calls[i + d].cmd /\ calls'[i].res = calls[i + d].res
            \/ /\ i = m + 1 /\ calls'[i].by = "load" /\ calls'[i].res = "none"
               /\ calls'[i].cmd = "running?"
            \/ /\ i = m + 2 /\ calls'[i].by = "hello" /\ calls'[i].res = "none"
               /\ calls'[i].cmd = "running?"
      BY <1>3, <2>2, QuestionFits DEF Orphans
    <2>4. /\ m + 1 \in DOMAIN calls' /\ calls'[m + 1].by = "load"
          /\ m + 2 \in DOMAIN calls' /\ calls'[m + 2].by = "hello"
    <3>1. m + 1 \in DOMAIN calls' /\ m + 2 \in DOMAIN calls' /\ ~(m + 1 <= m) /\ ~(m + 2 <= m) /\ m + 1 # m + 2
      BY <1>3, <2>1 DEF Orphans
    <3> HIDE DEF m
    <3> QED BY <2>3, <3>1
    <2>5. /\ task'["load"].at = "running?" /\ task'["hello"].at = "running?"
          /\ \A t \in Tasks : t \notin {"load", "hello"} => task'[t].at = "idle"
      BY <1>3, IdleFits DEF Orphans
    <2> HIDE DEF m
    <2>6. \A i, j \in DOMAIN calls' :
            /\ i < j /\ calls'[i].res = "none" => calls'[j].res = "none"
            /\ i < j /\ calls'[j].by = "gone" => calls'[i].by = "gone"
            /\ calls'[i].by = calls'[j].by /\ calls'[j].by # "gone" => i = j
      <3> SUFFICES ASSUME NEW i \in DOMAIN calls', NEW j \in DOMAIN calls'
                   PROVE  /\ i < j /\ calls'[i].res = "none" => calls'[j].res = "none"
                          /\ i < j /\ calls'[j].by = "gone" => calls'[i].by = "gone"
                          /\ calls'[i].by = calls'[j].by /\ calls'[j].by # "gone" => i = j
        OBVIOUS
      <3>1. i \in Nat /\ j \in Nat
        BY <2>1
      <3>2. i < j => i + d < j + d
        BY <2>1, <3>1
      <3>3. i < j /\ calls'[i].res = "none" => calls'[j].res = "none"
        BY <2>1, <2>3, <3>1, <3>2 DEF QueueInv
      <3>4. i < j /\ calls'[j].by = "gone" => calls'[i].by = "gone"
        BY <2>1, <2>3, <3>1
      <3>5. calls'[i].by = calls'[j].by /\ calls'[j].by # "gone" => i = j
        BY <2>3
      <3> QED BY <3>3, <3>4, <3>5
    <2>7. \A k \in DOMAIN calls' :
            calls'[k].by # "gone" =>
               /\ task'[calls'[k].by].at # "idle"
               /\ calls'[k].cmd = CommandOf(task'[calls'[k].by].at)
      BY <2>2, <2>3, <2>5
    <2>8. \A t \in Tasks : task'[t].at # "idle" => \E k \in DOMAIN calls' : calls'[k].by = t
      BY <2>4, <2>5
    <2>9. ~dropped' => \A k \in DOMAIN calls' :
             calls'[k].res = "rejected" => calls'[k].cmd \in {"add", "conf", "start"}
      BY <1>3, <2>3 DEF QueueInv
    <2> QED BY <2>6, <2>7, <2>8, <2>9 DEF QueueInv
  <1>4. Loading => dropped' = dropped
    BY DEF Loading, ResetReloads, Reload, Loads
  <1> QED BY <1>1, <1>2, <1>3, <1>4, OneIsExecuted, DropFits, LoadingFits, ActionsCarry, QueueCarried

LEMMA LoadingClears ==
    ASSUME Loading
    PROVE  /\ list' = <<>> /\ bid' = [l \in Lids |-> 0] /\ isRunning' = FALSE
           /\ engine' = engine /\ dropped' = dropped /\ disturbed' = TRUE
  <1>1. PICK sent : Loads(sent)
    BY DEF Loading, ResetReloads, Reload
  <1> QED BY <1>1 DEF Loads

LEMMA EngineStopped ==
    ASSUME TypeInv
    PROVE  /\ engine.next \in Nat \ {0} /\ engine.running \in BOOLEAN /\ engine.open \in BOOLEAN
           /\ Stopped(engine).running = FALSE /\ Stopped(engine).live = {}
           /\ Stopped(engine).next = engine.next /\ Stopped(engine).pubs = engine.pubs
           /\ Stopped(engine).conf = engine.conf /\ Stopped(engine).goose = engine.goose
           /\ Stopped(engine).open = engine.open
  <1>1. engine \in Engines
    BY DEF TypeInv
  <1>2. engine.next \in 1 .. MaxId + 1 /\ MaxId \in Nat
    BY <1>1, PanelAssumption DEF Engines
  <1>3. engine.next \in Nat \ {0}
    BY <1>2
  <1> QED BY <1>1, <1>3 DEF Engines, Stopped

-----------------------------------------------------------------------------
(* The numbers.                                                            *)
ListNumbered ==
    /\ \A i \in DOMAIN list : list[i] < nextLid
    /\ \A i, j \in DOMAIN list : list[i] = list[j] => i = j

LEMMA ListKept ==
    ASSUME TypeInv, IdsInv, [Next]_vars
    PROVE  ListNumbered'
  <1>1. ListNumbered
    BY DEF IdsInv, ListNumbered
  <1>2. /\ DOMAIN list = 1 .. Len(list) /\ Len(list) \in Nat /\ list \in Seq(Lids)
        /\ \A i \in DOMAIN list : list[i] \in Nat
        /\ nextLid \in Nat
    BY TypeParts DEF Lids
  <1>3. CASE AddPublisher
    <2>1. nextLid \in Lids /\ list' = Append(list, nextLid) /\ nextLid' = nextLid + 1
      BY <1>3, TypeParts, PanelAssumption DEF AddPublisher, Lids
    <2>2. /\ Len(list') = Len(list) + 1 /\ \A i \in 1 .. Len(list) : list'[i] = list[i]
          /\ list'[Len(list) + 1] = nextLid /\ list' \in Seq(Lids)
      BY <1>2, <2>1, AppendProperties
    <2>3. DOMAIN list' = 1 .. Len(list) + 1
      BY <2>2, LenProperties
    <2>4. \A i \in DOMAIN list' : \/ i \in DOMAIN list /\ list'[i] = list[i]
                                  \/ i = Len(list) + 1 /\ list'[i] = nextLid
      BY <1>2, <2>2, <2>3
    <2> QED BY <1>1, <1>2, <2>1, <2>4 DEF ListNumbered
  <1>4. ASSUME NEW idx \in DOMAIN list, RemovePublisher(idx)
        PROVE  ListNumbered'
    <2>1. /\ list' \in Seq(Lids) /\ Len(list') = Len(list) - 1
          /\ \A i \in 1 .. Len(list) - 1 : list'[i] = IF i < idx THEN list[i] ELSE list[i + 1]
          /\ nextLid' = nextLid
      BY <1>2, <1>4, Removal DEF RemovePublisher
    <2>2. DOMAIN list' = 1 .. Len(list) - 1
      BY <2>1, LenProperties
    <2>3. \A i \in DOMAIN list' :
            /\ i \in Nat
            /\ IF i < idx THEN i \in DOMAIN list /\ list'[i] = list[i]
                          ELSE i + 1 \in DOMAIN list /\ list'[i] = list[i + 1]
      BY <1>2, <2>1, <2>2
    <2>4. \A i \in DOMAIN list' : list'[i] < nextLid'
      BY <1>1, <2>1, <2>3 DEF ListNumbered
    <2>5. ASSUME NEW i \in DOMAIN list', NEW j \in DOMAIN list', list'[i] = list'[j]
          PROVE  i = j
      <3>1. PICK a \in DOMAIN list : list'[i] = list[a] /\ a = IF i < idx THEN i ELSE i + 1
        BY <2>3
      <3>2. PICK b \in DOMAIN list : list'[j] = list[b] /\ b = IF j < idx THEN j ELSE j + 1
        BY <2>3
      <3>3. a = b
        BY <1>1, <2>5, <3>1, <3>2 DEF ListNumbered
      <3> QED BY <1>2, <2>3, <3>1, <3>2, <3>3
    <2> QED BY <2>4, <2>5 DEF ListNumbered
  <1>5. CASE Loading
    <2>1. list' = <<>> /\ DOMAIN <<>> = {}
      BY <1>5, EmptySeq, LoadingClears
    <2> QED BY <2>1 DEF ListNumbered
  <1>6. CASE UNCHANGED <<list, nextLid>>
    BY <1>1, <1>6 DEF ListNumbered
  <1>7. CASE ~Loading /\ ~AddPublisher /\ ~(\E idx \in DOMAIN list : RemovePublisher(idx))
    <2>1. CASE Handlers
      BY <1>6, <1>7, <2>1 DEF Handlers, Loading, StartStep, StopAnswered, StopDone, PollAnswered, BackAnswered,
           HelloAnswered, LoadAnswered, ResetBackend, NobodyWaits, panel
    <2>2. CASE UserActs \/ Timers
      BY <1>6, <1>7, <2>2 DEF UserActs, Timers, Loading, Start, StartRefused, Stop, Reset,
           PollTick, BackTick, HeaderTick, panel
    <2>3. CASE UNCHANGED vars \/ Execute \/ EngineEnds \/ Drop
      BY <1>6, <2>3 DEF Execute, EngineEnds, Drop, vars, panel
    <2> QED BY <2>1, <2>2, <2>3 DEF Next
  <1> QED BY <1>3, <1>4, <1>5, <1>7

\* The numbers of the page and of the calls.
Numbered ==
    /\ IdsNotShared
    /\ \A l \in Lids : bid[l] < engine.next
    /\ \A k \in DOMAIN calls :
         /\ calls[k].arg < engine.next
         /\ Added(calls[k]) =>
              /\ calls[k].value \in 1 .. engine.next - 1
              /\ \A l \in Lids : bid[l] # calls[k].value
              /\ \A j \in DOMAIN calls :
                   Added(calls[j]) /\ calls[j].value = calls[k].value => j = k

LEMMA NumbersCarried ==
    ASSUME TypeInv, IdsInv, NEW d, NEW n, NEW c, Carried(d, n, c)
    PROVE  Numbered'
  <1>1. /\ d \in {0, 1} /\ DOMAIN calls' \subseteq Nat \ {0}
        /\ \A i \in DOMAIN calls' :
             \/ i + d \in DOMAIN calls /\ calls'[i] = calls[i + d]
             \/ n = 1 /\ calls'[i] = c
    BY MovesOn DEF Carried
  <1>2. engine'.next = engine.next /\ engine.next \in Nat \ {0}
    BY EngineStopped DEF Carried
  <1>3. \A l \in Lids :
         \/ bid'[l] \in {0, bid[l]}
         \/ /\ d = 1 /\ Added(calls[1]) /\ bid'[l] = calls[1].value /\ 1 \in DOMAIN calls
            /\ \A m \in Lids : m # l => bid'[m] = bid[m]
    BY DEF Carried, BidsKept
  <1>4. n = 1 => ~Added(c) /\ (c.arg = 0 \/ \E l \in Lids : c.arg = bid'[l])
    BY DEF Carried, Expected, Added
  <1>5. IdsNotShared'
    <2> SUFFICES ASSUME NEW a \in Lids, NEW b \in Lids, a # b, bid'[a] # 0
                 PROVE  bid'[a] # bid'[b]
      BY DEF IdsNotShared
    <2> QED BY <1>3 DEF IdsInv, IdsNotShared
  <1>6. \A l \in Lids : bid'[l] < engine.next
    BY <1>2, <1>3 DEF IdsInv
  <1>7. \A k \in DOMAIN calls' : calls'[k].arg < engine.next
    BY <1>1, <1>2, <1>4, <1>6 DEF IdsInv
  <1>8. ASSUME NEW k \in DOMAIN calls', Added(calls'[k])
        PROVE  /\ k + d \in DOMAIN calls /\ calls'[k] = calls[k + d]
               /\ calls[k + d].value \in 1 .. engine.next - 1
    BY <1>1, <1>4, <1>8 DEF IdsInv
  <1>9. ASSUME NEW k \in DOMAIN calls', Added(calls'[k]), NEW l \in Lids
        PROVE  bid'[l] # calls'[k].value
    <2>1. CASE bid'[l] \in {0, bid[l]}
      <3>1. calls[k + d].value # 0
        BY <1>8, <1>9
      <3> QED BY <1>8, <1>9, <2>1, <3>1 DEF IdsInv
    <2>2. CASE d = 1 /\ Added(calls[1]) /\ bid'[l] = calls[1].value /\ 1 \in DOMAIN calls
      <3>1. k + d # 1
        BY <1>1, <2>2
      <3> QED BY <1>8, <1>9, <2>2, <3>1 DEF IdsInv
    <2> QED BY <1>3, <2>1, <2>2
  <1>10. ASSUME NEW k \in DOMAIN calls', Added(calls'[k]),
                NEW j \in DOMAIN calls', Added(calls'[j]), calls'[j].value = calls'[k].value
         PROVE  j = k
    <2>1. k + d = j + d
      BY <1>8, <1>10 DEF IdsInv
    <2> QED BY <1>1, <2>1
  <1> QED BY <1>2, <1>5, <1>6, <1>7, <1>8, <1>9, <1>10 DEF Numbered

LEMMA NumbersExecuted ==
    ASSUME TypeInv, IdsInv, NEW k, Executes(k)
    PROVE  Numbered'
  <1>1. /\ engine.next \in Nat \ {0} /\ engine'.next \in Nat /\ engine.next <= engine'.next
        /\ bid' = bid /\ DOMAIN calls' = DOMAIN calls /\ k \in DOMAIN calls
        /\ \A j \in DOMAIN calls : calls'[j].arg = calls[j].arg
        /\ bid \in [Lids -> {0} \union Ids]
    <2>1. engine.next \in Nat \ {0}
      BY DEF TypeInv, Engines
    <2>2. engine'.next \in Nat /\ engine.next <= engine'.next
      BY <2>1, BackendFits DEF Executes, Engines
    <2> QED BY <2>1, <2>2, TypeParts DEF Executes
  <1>2. \A j \in DOMAIN calls : calls[j].arg \in Nat /\ \A l \in Lids : bid[l] \in Nat
    BY <1>1, CallsInLine DEF Calls, Ids
  <1>3. Added(calls'[k]) => calls'[k].value = engine.next /\ engine'.next = engine.next + 1
    BY DEF Executes, Added, Told, Value, After, TypeInv, Engines
  <1>4. \A j \in DOMAIN calls : j # k => calls'[j] = calls[j]
    BY DEF Executes
  <1>5. ASSUME NEW j \in DOMAIN calls, j # k, Added(calls'[j])
        PROVE  /\ calls'[j].value \in 1 .. engine.next - 1 /\ calls'[j].value \in 1 .. engine'.next - 1
               /\ \A l \in Lids : bid[l] # calls'[j].value
               /\ \A i \in DOMAIN calls : Added(calls'[i]) /\ calls'[i].value = calls'[j].value => i = j
    <2>1. /\ calls[j].value \in 1 .. engine.next - 1 /\ Added(calls[j]) /\ calls'[j] = calls[j]
          /\ \A l \in Lids : bid[l] # calls[j].value
          /\ \A i \in DOMAIN calls : Added(calls[i]) /\ calls[i].value = calls[j].value => i = j
      BY <1>4, <1>5 DEF IdsInv
    <2>2. calls[j].value # engine.next /\ calls[j].value \in 1 .. engine'.next - 1
      BY <1>1, <2>1
    <2> QED BY <1>3, <1>4, <2>1, <2>2
  <1>6. ASSUME Added(calls'[k])
        PROVE  /\ calls'[k].value \in 1 .. engine'.next - 1
               /\ \A l \in Lids : bid[l] # calls'[k].value
               /\ \A i \in DOMAIN calls : Added(calls'[i]) /\ calls'[i].value = calls'[k].value => i = k
    <2>1. \A l \in Lids : bid[l] # engine.next
      BY <1>1, <1>2 DEF IdsInv
    <2>2. ASSUME NEW i \in DOMAIN calls, Added(calls'[i]), calls'[i].value = calls'[k].value
          PROVE  i = k
      BY <1>1, <1>3, <1>5, <1>6, <2>2
    <2> QED BY <1>1, <1>3, <1>6, <2>1, <2>2
  <1>7. IdsNotShared'
    BY <1>1 DEF IdsInv, IdsNotShared
  <1>8. \A l \in Lids : bid'[l] < engine'.next
    BY <1>1, <1>2 DEF IdsInv
  <1>9. \A j \in DOMAIN calls' : calls'[j].arg < engine'.next
    BY <1>1, <1>2 DEF IdsInv
  <1> QED BY <1>1, <1>5, <1>6, <1>7, <1>8, <1>9 DEF Numbered

LEMMA NumbersKept ==
    ASSUME TypeInv, QueueInv, IdsInv, [Next]_vars
    PROVE  IdsInv'
  <1>2. Numbered'
    <2>1. CASE Execute
      BY <2>1, OneIsExecuted, NumbersExecuted
    <2>2. CASE Drop
      <3>1. Drops /\ bid' = bid /\ engine' = engine
        BY <2>2, DropFits DEF Drop
      <3>2. engine.next \in Nat \ {0}
        BY EngineStopped
      <3>3. \A i \in DOMAIN calls' : /\ ~Added(calls'[i])
                                     /\ \/ calls'[i].arg = 0
                                        \/ i \in DOMAIN calls /\ calls'[i].arg = calls[i].arg
        BY <3>1, QuestionFits, NamesDiffer DEF Drops, Added, Others
      <3> QED BY <3>1, <3>2, <3>3 DEF Numbered, IdsInv, IdsNotShared
    <2>3. CASE Loading
      <3>1. PICK d : Orphans(d)
        BY <2>3, LoadingFits
      <3>2. engine' = engine /\ bid' = [l \in Lids |-> 0] /\ engine.next \in Nat \ {0}
        BY <2>3, LoadingClears, EngineStopped
      <3>3. /\ DOMAIN calls' \subseteq Nat /\ d \in {0, 1}
            /\ \A i \in DOMAIN calls' :
              \/ /\ i + d \in DOMAIN calls /\ calls'[i].cmd = calls[i + d].cmd
                 /\ calls'[i].arg = calls[i + d].arg /\ calls'[i].value = calls[i + d].value
                 /\ calls'[i].res = calls[i + d].res
              \/ calls'[i].arg = 0 /\ ~Added(calls'[i])
        BY SMTT(30), <3>1, QuestionFits, NamesDiffer, LenProperties DEF Orphans, Added, Others
      <3>4. \A i \in DOMAIN calls' : calls'[i].arg < engine.next
        BY <3>2, <3>3 DEF IdsInv
      <3>5. ASSUME NEW i \in DOMAIN calls', Added(calls'[i])
            PROVE  /\ i + d \in DOMAIN calls /\ Added(calls[i + d]) /\ calls'[i].value = calls[i + d].value
                   /\ calls'[i].value \in 1 .. engine.next - 1
        BY <3>3, <3>5 DEF IdsInv, Added
      <3>6. ASSUME NEW i \in DOMAIN calls', Added(calls'[i]), NEW j \in DOMAIN calls',
                   Added(calls'[j]), calls'[j].value = calls'[i].value
            PROVE  j = i
        <4>1. i + d = j + d
          BY <3>5, <3>6 DEF IdsInv
        <4> QED BY <3>3, <4>1
      <3> QED BY <3>2, <3>4, <3>5, <3>6 DEF Numbered, IdsNotShared
    <2>4. CASE ~Execute /\ ~Drop /\ ~Loading
      BY <2>4, ActionsCarry, NumbersCarried
    <2> QED BY <2>1, <2>2, <2>3, <2>4
  <1>3. ListNumbered'
    BY ListKept
  <1> QED BY <1>2, <1>3 DEF Numbered, ListNumbered, IdsInv

-----------------------------------------------------------------------------
(* A page that shows a run watches it.                                     *)
LEMMA StartsActAlone ==
    ASSUME TypeInv, QueueInv, IdsInv, NEW s \in Starters, StartStep(s)
    PROVE  \A u \in Tasks : u # s => task'[u] = task[u]
  <1>1. StartGoesOn(s)
    BY StartsGoOn
  <1>2. \A label, p, i, arg, d : Waits(s, label, p, i, arg, d) => \A u \in Tasks : u # s => task'[u] = task[u]
    BY DEF Waits
  <1>3. Leaves(s) => \A u \in Tasks : u # s => task'[u] = task[u]
    BY DEF Leaves
  <1>4. \A i : ToConf(s, i) => \A u \in Tasks : u # s => task'[u] = task[u]
    BY <1>2 DEF ToConf
  <1>5. \A i : ToAdd(s, i) => \A u \in Tasks : u # s => task'[u] = task[u]
    BY <1>2, <1>4 DEF ToAdd
  <1> QED BY <1>1, <1>2, <1>3, <1>4, <1>5 DEF StartGoesOn

LEMMA WatchKept ==
    ASSUME TypeInv, QueueInv, IdsInv, RunIsWatched, [Next]_vars
    PROVE  RunIsWatched'
  <1>1. /\ Others \subseteq Tasks /\ Starters \subseteq Tasks
        /\ \A s \in Starters : s # "stop"
        /\ task \in [Tasks -> Works] /\ "stop" \in Tasks
    BY NamesDiffer DEF TypeInv, Others
  <1>2. ASSUME task'["stop"] = task["stop"], isRunning' => isRunning, isRunning' => polling' = polling
        PROVE  RunIsWatched'
    BY <1>2 DEF RunIsWatched
  <1>3. ASSUME isRunning' => polling'
        PROVE  RunIsWatched'
    BY <1>3 DEF RunIsWatched
  <1>4. ASSUME NEW s \in Starters, StartStep(s)
        PROVE  RunIsWatched'
    <2>1. task'["stop"] = task["stop"]
      BY <1>1, <1>4, StartsActAlone
    <2>2. StartDone(s) => (isRunning' => polling') \/ UNCHANGED <<isRunning, polling>>
      BY DEF StartDone, StartReturns, PollAfterStart
    <2>3. ~StartDone(s) => UNCHANGED <<isRunning, polling>>
      BY <1>4 DEF StartStep, StartOpened, StartCleared, StartAdded, StartConfigured, StartSideDone,
           StartGooseDone, StartRolledBack, StartReturns, run
    <2> QED BY <1>2, <1>3, <2>1, <2>2, <2>3
  <1>5. CASE StopAnswered
    <2>1. task'["stop"].at = "gstop"
      BY <1>1, <1>5 DEF StopAnswered, AfterStop, Await, Works
    <2> QED BY <2>1 DEF RunIsWatched
  <1>6. CASE StopDone \/ Loading
    BY <1>3, <1>6, LoadingClears DEF StopDone
  <1>7. CASE PollAnswered \/ BackAnswered \/ HelloAnswered
    <2>1. task'["stop"] = task["stop"]
      BY <1>1, <1>7 DEF PollAnswered, BackAnswered, HelloAnswered, Return, Others
    <2>2. isRunning' => isRunning /\ polling' = polling
      BY <1>7 DEF PollAnswered, BackAnswered, HelloAnswered, OnPublishingStopped, run
    <2> QED BY <1>2, <2>1, <2>2
  <1>8. CASE LoadAnswered
    BY <1>3, <1>8 DEF LoadAnswered
  <1>9. CASE ResetBackend
    <2>1. task'["stop"] = task["stop"]
      BY <1>1, <1>9 DEF ResetBackend, Await, Others
    <2> QED BY <1>2, <1>9, <2>1 DEF ResetBackend, run
  <1>10. ASSUME NEW h \in BOOLEAN, Start(h)
         PROVE  RunIsWatched'
    <2>1. Starters \ Starting # {}
      BY <1>10 DEF Start, Starting
    <2>2. PICK s \in Starters : Begin(s, "open", h)
      BY <1>10, <2>1 DEF Start
    <2>3. task'["stop"] = task["stop"]
      BY <1>1, <2>2 DEF Begin
    <2> QED BY <1>2, <1>10, <2>3 DEF Start, run
  <1>11. ASSUME NEW h \in BOOLEAN, Stop(h)
         PROVE  RunIsWatched'
    <2>1. Waits("stop", "stop", 0, 0, 0, 0)
      BY <1>1, <1>11, BeginWaits, NamesDiffer DEF Stop
    <2> QED BY <2>1 DEF Waits, RunIsWatched
  <1>12. CASE Reset \/ PollTick \/ BackTick
    <2>1. task'["stop"] = task["stop"]
      BY <1>1, <1>12 DEF Reset, PollTick, BackTick, Begin, Others
    <2> QED BY <1>2, <1>12, <2>1 DEF Reset, PollTick, BackTick, run
  <1>13. CASE Drop
    <2>1. task'["stop"] = task["stop"] /\ isRunning' = isRunning /\ polling' = polling
      BY <1>1, <1>13, DropFits DEF Drop, Drops, run
    <2> QED BY <1>2, <2>1
  <1>14. CASE UNCHANGED vars \/ Execute \/ EngineEnds \/ NobodyWaits \/ AddPublisher
              \/ (\E idx \in DOMAIN list : RemovePublisher(idx)) \/ StartRefused \/ HeaderTick
    <2>1. UNCHANGED <<task, run>> \/ UNCHANGED <<task, isRunning, polling>>
      BY <1>14 DEF vars, Execute, EngineEnds, NobodyWaits, AddPublisher, RemovePublisher,
           StartRefused, HeaderTick
    <2>2. UNCHANGED <<task, isRunning, polling>>
      BY <2>1 DEF run
    <2> QED BY <1>2, <2>2
  <1> QED BY <1>4, <1>5, <1>6, <1>7, <1>8, <1>9, <1>10, <1>11, <1>12, <1>13, <1>14
        DEF Next, Handlers, UserActs, Timers, Loading

-----------------------------------------------------------------------------
(* Who says that no run is on.                                             *)
LEMMA EndCarried ==
    ASSUME TypeInv, EndInv, NEW d, NEW n, NEW c, Carried(d, n, c)
    PROVE  EndInv'
  <1>1. /\ d \in {0, 1} /\ DOMAIN calls' \subseteq Nat \ {0} /\ DOMAIN calls \subseteq Nat \ {0}
        /\ \A i \in DOMAIN calls' :
             \/ i + d \in DOMAIN calls /\ calls'[i] = calls[i + d]
             \/ n = 1 /\ calls'[i] = c
        /\ \A j \in DOMAIN calls : j > d => j - d \in DOMAIN calls' /\ calls'[j - d] = calls[j]
    BY MovesOn DEF Carried
  <1>2. engine'.running => engine.running
    BY EngineStopped DEF Carried
  <1>3. n = 1 => ~Ended(c)
    BY DEF Carried, Expected, Ended
  <1> SUFFICES ASSUME NEW k \in DOMAIN calls', Ended(calls'[k]), engine'.running
               PROVE  \E j \in DOMAIN calls' : k < j /\ Begun(calls'[j])
    BY DEF EndInv, Ended, Begun
  <1>4. k + d \in DOMAIN calls /\ calls'[k] = calls[k + d]
    BY <1>1, <1>3
  <1>5. PICK j \in DOMAIN calls : k + d < j /\ Begun(calls[j])
    BY <1>2, <1>4 DEF EndInv
  <1>6. j > d /\ k < j - d
    BY <1>1, <1>5
  <1> QED BY <1>1, <1>5, <1>6

\* The backend while the command it executes is not one that starts a run.
LEMMA RunningAfter ==
    ASSUME TypeInv, NEW c, After(c).running
    PROVE  c.cmd = "start" \/ (engine.running /\ c.cmd \notin {"stop", "reset"})
  BY DEF After, Stopped, Emptied, TypeInv, Engines

LEMMA EndKept ==
    ASSUME TypeInv, QueueInv, IdsInv, EndInv, [Next]_vars
    PROVE  EndInv'
  <1>1. ASSUME NEW k, Executes(k)
        PROVE  EndInv'
    <2>1. /\ DOMAIN calls' = DOMAIN calls /\ k \in DOMAIN calls /\ DOMAIN calls \subseteq Nat
          /\ \A j \in DOMAIN calls : j # k => calls'[j] = calls[j]
      BY <1>1, CallsInLine DEF Executes
    <2> SUFFICES ASSUME NEW i \in DOMAIN calls, Ended(calls'[i]), engine'.running
                 PROVE  \E j \in DOMAIN calls : i < j /\ Begun(calls'[j])
      BY <2>1 DEF EndInv, Ended, Begun
    <2>2. \A j \in DOMAIN calls : Begun(calls[j]) => Begun(calls'[j])
      BY <1>1, <2>1 DEF Begun, Executes
    <2>3. CASE i = k
      <3>1. calls'[k].res = "ok" /\ calls'[k].cmd = calls[k].cmd /\ engine' = After(calls[k])
        BY <1>1, <2>3 DEF Ended, Executes, Told
      <3>2. calls[k].cmd \in {"stop", "reset", "running?"}
        BY <2>3, <3>1 DEF Ended
      <3>3. calls[k].cmd = "running?" /\ engine.running
        BY <3>1, <3>2, RunningAfter
      <3>4. calls'[k].value = 1
        BY <1>1, <3>3 DEF Executes, Value
      <3> QED BY <2>3, <3>1, <3>3, <3>4 DEF Ended
    <2>4. CASE i # k
      <3>1. Ended(calls[i]) /\ calls[i].res = "ok"
        BY <2>1, <2>4 DEF Ended
      <3>2. i < k
        BY <1>1, <2>1, <2>4, <3>1 DEF QueueInv, Executes
      <3>3. CASE engine.running
        <4>1. PICK j \in DOMAIN calls : i < j /\ Begun(calls[j])
          BY <3>1, <3>3 DEF EndInv
        <4> QED BY <2>2, <4>1
      <3>4. CASE ~engine.running
        <4>1. Accepts(calls[k]) /\ engine' = After(calls[k])
          BY <1>1, <3>4 DEF Executes
        <4>2. calls[k].cmd = "start"
          BY <3>4, <4>1, RunningAfter
        <4>3. Begun(calls'[k])
          BY <1>1, <4>1, <4>2 DEF Executes, Told, Begun
        <4> QED BY <2>1, <3>2, <4>3
      <3> QED BY <3>3, <3>4
    <2> QED BY <2>3, <2>4
  <1>2. CASE Drop
    <2>1. \A i \in DOMAIN calls' : ~Ended(calls'[i])
      BY <1>2, DropFits, QuestionFits, NamesDiffer DEF Drops, Ended, Others
    <2> QED BY <2>1 DEF EndInv, Ended
  <1>3. CASE Loading
    <2>1. PICK d : Orphans(d)
      BY <1>3, LoadingFits
    <2>2. engine' = engine
      BY <1>3, LoadingClears
    <2>3. /\ d \in {0, 1} /\ DOMAIN calls' \subseteq Nat /\ DOMAIN calls \subseteq Nat
      BY <2>1, CallsInLine, LenProperties DEF Orphans
    <2>4. \A i \in DOMAIN calls' :
            \/ /\ i + d \in DOMAIN calls /\ calls'[i].cmd = calls[i + d].cmd
               /\ calls'[i].value = calls[i + d].value /\ calls'[i].res = calls[i + d].res
            \/ calls'[i].res = "none" /\ \A j \in DOMAIN calls : j - d < i
      <3>1. \A i \in DOMAIN calls' :
            \/ /\ i + d \in DOMAIN calls /\ calls'[i].cmd = calls[i + d].cmd
               /\ calls'[i].value = calls[i + d].value /\ calls'[i].res = calls[i + d].res
            \/ calls'[i].res = "none" /\ (i = Len(calls) - d + 1 \/ i = Len(calls) - d + 2)
        BY <2>1, QuestionFits, NamesDiffer DEF Orphans, Others
      <3>2. \A j \in DOMAIN calls : j - d < Len(calls) - d + 1 /\ j - d < Len(calls) - d + 2
        BY <2>3, CallsInLine
      <3> QED BY <3>1, <3>2
    <2>5. \A j \in DOMAIN calls : j > d => j - d \in DOMAIN calls' /\ (j - d) + d = j /\ j - d <= Len(calls) - d
      BY <2>1, <2>3 DEF Orphans
    <2> SUFFICES ASSUME NEW i \in DOMAIN calls', Ended(calls'[i]), engine'.running
                 PROVE  \E j \in DOMAIN calls' : i < j /\ Begun(calls'[j])
      BY DEF EndInv, Ended, Begun
    <2>6. i + d \in DOMAIN calls /\ Ended(calls[i + d])
      BY <2>4 DEF Ended
    <2>7. PICK j \in DOMAIN calls : i + d < j /\ Begun(calls[j])
      BY <2>2, <2>6 DEF EndInv
    <2>8. j > d /\ i < j - d
      BY <2>3, <2>7
    <2>9. Begun(calls'[j - d])
      <3>1. ~(j - d < j - d)
        BY <2>3
      <3>2. (j - d) + d = j /\ j - d \in DOMAIN calls'
        BY <2>5, <2>8
      <3> QED BY <2>4, <2>7, <3>1, <3>2 DEF Begun
    <2> QED BY <2>5, <2>8, <2>9
  <1> QED BY <1>1, <1>2, <1>3, OneIsExecuted, ActionsCarry, EndCarried

-----------------------------------------------------------------------------
(* Between a stop or a reset and the next call of its handler.             *)
LEMMA PublishersAfter ==
    ASSUME TypeInv, NEW c
    PROVE  /\ After(c).pubs \subseteq engine.pubs
                 \/ (c.cmd = "add" /\ After(c).pubs = engine.pubs \union {engine.next})
           /\ After(c).conf \subseteq engine.conf
                 \/ (c.cmd = "conf" /\ After(c).conf = engine.conf \union {c.arg})
           /\ c.cmd \in {"stop", "reset"} =>
                After(c).pubs = {} /\ After(c).conf = {} /\ ~After(c).running
           /\ c.cmd \in {"start", "gstop", "open", "close", "goose", "side", "running?"} =>
                After(c).pubs = engine.pubs /\ After(c).conf = engine.conf
  <1>1. engine \in Engines
    BY DEF TypeInv
  <1>2. CASE c.cmd \in {"stop", "reset"}
    BY <1>1, <1>2 DEF After, Stopped, Emptied, Engines
  <1>3. CASE c.cmd = "clear"
    BY <1>1, <1>3 DEF After, Emptied, Engines
  <1>4. CASE c.cmd = "add"
    BY <1>1, <1>4 DEF After, Engines
  <1>5. CASE c.cmd = "conf"
    BY <1>1, <1>5 DEF After, Engines
  <1>6. CASE c.cmd \notin {"stop", "reset", "clear", "add", "conf"}
    BY <1>1, <1>6 DEF After, Engines
  <1> QED BY <1>2, <1>3, <1>4, <1>5, <1>6

Cut == engine.conf = {} /\ ~engine.running
CutAt(k) ==
    /\ Cut
    /\ \A l \in Lids : bid[l] \notin engine.pubs
    /\ \A j \in DOMAIN calls : Configures(calls[j]) => calls[j].arg \notin engine.pubs
    /\ \A j \in DOMAIN calls : j < k /\ Added(calls[j]) => calls[j].value \notin engine.pubs
Cutting(c) == c.cmd \in {"stop", "reset"} /\ c.res = "ok" /\ c.by # "gone"
CutBefore(k) ==
    /\ Cut
    /\ \A j \in DOMAIN calls : j < k /\ Configures(calls[j]) => calls[j].arg \notin engine.pubs
Following(c) == c.cmd \in {"gstop", "close"} /\ c.res = "none" /\ c.by # "gone"

LEMMA CutParts ==
    CutInv <=> /\ \A k \in DOMAIN calls : Cutting(calls[k]) => CutAt(k)
               /\ ~dropped => \A k \in DOMAIN calls : Following(calls[k]) => CutBefore(k)
  BY DEF CutInv, Cutting, Following, CutAt, CutBefore, Cut

LEMMA CutCarried ==
    ASSUME TypeInv, QueueInv, IdsInv, CutInv, NEW d, NEW n, NEW c, Carried(d, n, c)
    PROVE  CutInv'
  <1>1. /\ d \in {0, 1} /\ DOMAIN calls' \subseteq Nat \ {0} /\ DOMAIN calls \subseteq Nat \ {0}
        /\ \A i \in DOMAIN calls' :
             \/ i + d \in DOMAIN calls /\ calls'[i] = calls[i + d]
             \/ n = 1 /\ calls'[i] = c /\ \A j \in DOMAIN calls : j - d < i
    BY MovesOn DEF Carried
  <1>2. engine'.conf = engine.conf /\ engine'.pubs = engine.pubs /\ (engine'.running => engine.running)
    BY EngineStopped DEF Carried
  <1>3. Cut => Cut'
    BY <1>2 DEF Cut
  <1>4. \A i, k \in DOMAIN calls' : i < k => i + d < k + d
    BY <1>1
  <1>5. 0 \notin engine.pubs
    BY TypeParts DEF TypeInv, TypeOK
  <1>6. n = 1 => /\ ~Cutting(c) /\ ~Added(c)
                 /\ c.arg = 0 \/ \E l \in Lids : c.arg = bid'[l]
    BY DEF Carried, Expected, Cutting, Added
  <1>7. ASSUME NEW k \in DOMAIN calls', Cutting(calls'[k])
        PROVE  CutAt(k)'
    <2>1. k + d \in DOMAIN calls /\ calls'[k] = calls[k + d]
      BY <1>1, <1>6, <1>7
    <2>2. CutAt(k + d)
      BY <1>7, <2>1, CutParts
    <2>3. d = 1 => 1 < k + d
      BY <1>1
    <2>4. \A l \in Lids : bid'[l] \notin engine.pubs
      BY <1>5, <2>2, <2>3 DEF Carried, BidsKept, CutAt
    <2>5. \A i \in DOMAIN calls' : Configures(calls'[i]) => calls'[i].arg \notin engine.pubs
      BY <1>1, <1>5, <1>6, <2>2, <2>4 DEF CutAt
    <2>6. \A i \in DOMAIN calls' : i < k /\ Added(calls'[i]) => calls'[i].value \notin engine.pubs
      BY <1>1, <1>4, <1>6, <2>2 DEF CutAt
    <2>7. Cut'
      BY <1>3, <2>2 DEF CutAt
    <2> QED BY <1>2, <2>4, <2>5, <2>6, <2>7 DEF CutAt
  <1>8. ASSUME ~dropped', NEW k \in DOMAIN calls', Following(calls'[k])
        PROVE  CutBefore(k)'
    <2>0. ~dropped
      BY <1>8 DEF Carried
    <2>1. CASE k + d \in DOMAIN calls /\ calls'[k] = calls[k + d]
      <3>1. CutBefore(k + d)
        BY <1>8, <2>0, <2>1, CutParts
      <3>2. \A i \in DOMAIN calls' : i < k => i + d \in DOMAIN calls /\ calls'[i] = calls[i + d] /\ i + d < k + d
        <4> TAKE i \in DOMAIN calls'
        <4> HAVE i < k
        <4>1. ~((k + d) - d < i)
          BY <1>1
        <4> QED BY <1>1, <1>4, <2>1, <4>1
      <3>3. Cut'
        BY <1>3, <3>1 DEF CutBefore
      <3> QED BY <1>2, <3>1, <3>2, <3>3 DEF CutBefore
    <2>2. CASE n = 1 /\ calls'[k] = c /\ \A j \in DOMAIN calls : j - d < k
      <3>1. /\ d = 1 /\ calls[1].by = c.by /\ calls[1].cmd \in {"stop", "reset"}
            /\ 1 \in DOMAIN calls /\ calls[1].res # "none" /\ c.by # "gone"
        BY <1>8, <2>2, NamesDiffer DEF Carried, Expected, Following
      <3>2. Cutting(calls[1])
        <4>1. calls[1].res \in {"none", "ok", "rejected"}
          BY <3>1, CallsInLine DEF Calls
        <4> QED BY <2>0, <3>1, <4>1 DEF Cutting, QueueInv
      <3>3. CutAt(1)
        BY <3>1, <3>2, CutParts
      <3>4. \A i \in DOMAIN calls' : i < k /\ Configures(calls'[i]) => calls'[i].arg \notin engine.pubs
        <4>1. ~Configures(c)
          BY <1>8, <2>2 DEF Following, Configures
        <4> QED BY <1>1, <3>3, <4>1 DEF CutAt
      <3>5. Cut'
        BY <1>3, <3>3 DEF CutAt
      <3> QED BY <1>2, <3>4, <3>5 DEF CutBefore
    <2> QED BY <1>1, <2>1, <2>2
  <1> QED BY <1>7, <1>8 DEF CutInv, Cutting, Following, CutAt, CutBefore, Cut

LEMMA CutExecuted ==
    ASSUME TypeInv, QueueInv, IdsInv, CutInv, NEW e, Executes(e)
    PROVE  CutInv'
  <1> DEFINE c == calls[e]
  <1>1. /\ DOMAIN calls' = DOMAIN calls /\ e \in DOMAIN calls /\ DOMAIN calls \subseteq Nat
        /\ \A j \in DOMAIN calls : j # e => calls'[j] = calls[j]
        /\ bid' = bid /\ dropped' = dropped /\ c.res = "none"
        /\ calls'[e].cmd = c.cmd /\ calls'[e].by = c.by /\ calls'[e].arg = c.arg
        /\ calls'[e].res \in {"ok", "rejected"}
    BY CallsInLine DEF Executes, user, Told
  <1>2. engine' = IF Accepts(c) THEN After(c) ELSE engine
    BY DEF Executes
  <1>3. /\ engine.next \in Nat \ {0} /\ \A l \in Lids : bid[l] # engine.next
        /\ \A j \in DOMAIN calls : calls[j].arg # engine.next
        /\ \A j \in DOMAIN calls : Added(calls[j]) => calls[j].value # engine.next
    BY EngineStopped DEF IdsInv
  <1> HIDE DEF c
  <1>4. ASSUME Cut, c.cmd = "conf" => c.arg \notin engine.pubs
        PROVE  /\ Cut'
               /\ engine'.pubs \subseteq engine.pubs \union {engine.next}
    <2>1. CASE ~Accepts(c)
      BY <1>2, <1>4, <2>1 DEF Cut
    <2>2. CASE Accepts(c)
      <3>1. c.cmd # "conf" /\ c.cmd # "start"
        BY <1>4, <2>2 DEF Accepts, Cut
      <3>2. engine' = After(c)
        BY <1>2, <2>2
      <3>3. engine'.conf = {} /\ engine'.pubs \subseteq engine.pubs \union {engine.next}
        BY <1>4, <3>1, <3>2, PublishersAfter DEF Cut
      <3>4. ~engine'.running
        BY <1>4, <3>1, <3>2, RunningAfter DEF Cut
      <3> QED BY <3>3, <3>4 DEF Cut
    <2> QED BY <2>1, <2>2
  <1>5. ASSUME NEW k \in DOMAIN calls, Cutting(calls'[k])
        PROVE  CutAt(k)'
    <2>1. CASE k = e
      <3>1. c.cmd \in {"stop", "reset"} /\ Accepts(c)
        BY <1>1, <1>5, <2>1 DEF Cutting, Accepts
      <3>2. engine'.conf = {} /\ engine'.pubs = {} /\ ~engine'.running
        BY <1>2, <3>1, PublishersAfter
      <3> QED BY <3>2 DEF CutAt, Cut
    <2>2. CASE k # e
      <3>1. CutAt(k) /\ calls[k].res = "ok"
        BY <1>1, <1>5, <2>2, CutParts DEF Cutting
      <3>2. k < e
        BY <1>1, <2>2, <3>1 DEF QueueInv, c
      <3>3. c.cmd = "conf" => c.arg \notin engine.pubs
        BY <1>1, <3>1 DEF CutAt, Configures, c
      <3>4. Cut' /\ engine'.pubs \subseteq engine.pubs \union {engine.next}
        BY <1>4, <3>1, <3>3 DEF CutAt
      <3>5. \A l \in Lids : bid'[l] \notin engine'.pubs
        BY <1>1, <1>3, <3>1, <3>4 DEF CutAt
      <3>6. \A j \in DOMAIN calls : Configures(calls'[j]) => j # e
        BY <1>1 DEF Configures
      <3>7. \A j \in DOMAIN calls : Configures(calls'[j]) => calls'[j].arg \notin engine'.pubs
        BY <1>1, <1>3, <3>1, <3>4, <3>6 DEF CutAt
      <3>8. \A j \in DOMAIN calls : j < k => j # e
        BY <1>1, <3>2
      <3>9. \A j \in DOMAIN calls : j < k /\ Added(calls'[j]) => calls'[j].value \notin engine'.pubs
        BY <1>1, <1>3, <3>1, <3>4, <3>8 DEF CutAt
      <3> QED BY <1>1, <3>4, <3>5, <3>7, <3>9 DEF CutAt
    <2> QED BY <2>1, <2>2
  <1>6. ASSUME ~dropped', NEW k \in DOMAIN calls, Following(calls'[k])
        PROVE  CutBefore(k)'
    <2>1. k # e /\ Following(calls[k])
      BY <1>1, <1>6 DEF Following
    <2>2. e < k
      BY <1>1, <2>1 DEF Following, Executes
    <2>3. CutBefore(k)
      BY <1>1, <1>6, <2>1, CutParts
    <2>4. c.cmd = "conf" => c.arg \notin engine.pubs
      BY <1>1, <2>2, <2>3 DEF CutBefore, Configures, c
    <2>5. Cut' /\ engine'.pubs \subseteq engine.pubs \union {engine.next}
      BY <1>4, <2>3, <2>4 DEF CutBefore
    <2>6. \A j \in DOMAIN calls : Configures(calls'[j]) => j # e
      BY <1>1 DEF Configures
    <2>7. \A j \in DOMAIN calls : j < k /\ Configures(calls'[j]) => calls'[j].arg \notin engine'.pubs
      BY <1>1, <1>3, <2>3, <2>5, <2>6 DEF CutBefore
    <2> QED BY <1>1, <2>5, <2>7 DEF CutBefore
  <1> QED BY <1>1, <1>5, <1>6 DEF CutInv, Cutting, Following, CutAt, CutBefore, Cut

LEMMA CutKept ==
    ASSUME TypeInv, QueueInv, IdsInv, CutInv, [Next]_vars
    PROVE  CutInv'
  <1>1. CASE Drop
    <2>1. /\ dropped' /\ \A i \in DOMAIN calls' : ~Cutting(calls'[i])
      BY <1>1, DropFits, QuestionFits, NamesDiffer DEF Drops, Cutting, Others
    <2> QED BY <2>1 DEF CutInv, Cutting
  <1>2. CASE Loading
    <2>1. PICK d : Orphans(d)
      BY <1>2, LoadingFits
    <2>2. \A i \in DOMAIN calls' : ~Cutting(calls'[i]) /\ ~Following(calls'[i])
      BY <2>1, QuestionFits, NamesDiffer DEF Orphans, Cutting, Following, Others
    <2> QED BY <2>2 DEF CutInv, Cutting, Following
  <1> QED BY <1>1, <1>2, OneIsExecuted, CutExecuted, ActionsCarry, CutCarried

-----------------------------------------------------------------------------
(* What has happened since.                                                *)
Since(k) ==
    /\ engine.conf # {} => Behind(k, "conf")
    /\ engine.running => Behind(k, "conf") /\ Behind(k, "start")
    /\ calls[k].cmd = "gstop" /\ engine.goose # {} => Behind(k, "goose")
    /\ calls[k].cmd = "close" =>
         /\ engine.open => Behind(k, "open")
         /\ engine.running => Behind(k, "open")
Done(c) == c.cmd \in {"gstop", "close"} /\ c.res = "ok" /\ c.by # "gone"

LEMMA SinceParts ==
    SinceInv <=> (~dropped => \A k \in DOMAIN calls : Done(calls[k]) => Since(k))
  BY DEF SinceInv, Done, Since

LEMMA SinceCarried ==
    ASSUME TypeInv, SinceInv, NEW d, NEW n, NEW c, Carried(d, n, c)
    PROVE  SinceInv'
  <1>1. /\ d \in {0, 1} /\ DOMAIN calls' \subseteq Nat \ {0} /\ DOMAIN calls \subseteq Nat \ {0}
        /\ \A i \in DOMAIN calls' :
             \/ i + d \in DOMAIN calls /\ calls'[i] = calls[i + d]
             \/ n = 1 /\ calls'[i] = c
        /\ \A j \in DOMAIN calls : j > d => j - d \in DOMAIN calls' /\ calls'[j - d] = calls[j]
    BY MovesOn DEF Carried
  <1>2. /\ engine'.conf = engine.conf /\ engine'.goose = engine.goose /\ engine'.open = engine.open
        /\ engine'.running => engine.running
        /\ dropped' = dropped
    BY EngineStopped DEF Carried
  <1>3. n = 1 => ~Done(c)
    BY DEF Carried, Expected, Done
  <1>4. ASSUME NEW k \in DOMAIN calls', NEW cmd, Behind(k + d, cmd)
        PROVE  Behind(k, cmd)'
    <2>1. PICK j \in DOMAIN calls : k + d < j /\ calls[j].cmd = cmd /\ calls[j].res = "ok"
      BY <1>4 DEF Behind
    <2>2. j > d /\ k < j - d
      BY <1>1, <2>1
    <2> QED BY <1>1, <2>1, <2>2 DEF Behind
  <1>5. ASSUME ~dropped', NEW k \in DOMAIN calls', Done(calls'[k])
        PROVE  Since(k)'
    <2>1. k + d \in DOMAIN calls /\ calls'[k] = calls[k + d]
      BY <1>1, <1>3, <1>5
    <2>2. Since(k + d)
      BY <1>2, <1>5, <2>1, SinceParts
    <2> QED BY <1>2, <1>4, <2>1, <2>2 DEF Since
  <1> QED BY <1>5 DEF SinceInv, Since, Done

LEMMA GrowsBy ==
    ASSUME TypeInv, NEW c
    PROVE  /\ After(c).goose # {} => engine.goose # {} \/ c.cmd = "goose"
           /\ After(c).open => engine.open \/ c.cmd = "open"
           /\ c.cmd = "gstop" => After(c).goose = {} /\ After(c).conf = engine.conf
                                   /\ After(c).running = engine.running
           /\ c.cmd = "close" => After(c).open = FALSE /\ After(c).conf = engine.conf
                                   /\ After(c).running = engine.running
  <1>1. engine \in Engines
    BY DEF TypeInv
  <1>2. CASE c.cmd \in {"stop", "reset", "clear"}
    BY <1>1, <1>2 DEF After, Stopped, Emptied, Engines
  <1>3. CASE c.cmd \in {"open", "close", "gstop"}
    BY <1>1, <1>3 DEF After, Engines
  <1>4. CASE c.cmd \in {"add", "conf", "goose", "start"}
    BY <1>1, <1>4 DEF After, Engines
  <1>5. CASE c.cmd \notin {"stop", "reset", "clear", "open", "close", "gstop", "add", "conf", "goose", "start"}
    BY <1>1, <1>5 DEF After, Engines
  <1> QED BY <1>2, <1>3, <1>4, <1>5

LEMMA SinceExecuted ==
    ASSUME TypeInv, QueueInv, CutInv, SinceInv, NEW e, Executes(e)
    PROVE  SinceInv'
  <1> DEFINE c == calls[e]
  <1>1. /\ DOMAIN calls' = DOMAIN calls /\ e \in DOMAIN calls /\ DOMAIN calls \subseteq Nat
        /\ \A j \in DOMAIN calls : j # e => calls'[j] = calls[j]
        /\ dropped' = dropped /\ c.res = "none"
        /\ calls'[e].cmd = c.cmd /\ calls'[e].by = c.by
        /\ calls'[e].res = IF Accepts(c) THEN "ok" ELSE "rejected"
    BY CallsInLine DEF Executes, user, Told
  <1>2. engine' = IF Accepts(c) THEN After(c) ELSE engine
    BY DEF Executes
  <1>3. ASSUME ~dropped', NEW k \in DOMAIN calls, Done(calls'[k]), k = e
        PROVE  Since(k)'
    <2>1. Following(c) /\ Accepts(c)
      BY <1>1, <1>3 DEF Done, Following
    <2>2. CutBefore(e)
      BY <1>1, <1>3, <2>1, CutParts
    <2>3. engine'.conf = {} /\ ~engine'.running
      BY <1>2, <2>1, <2>2, GrowsBy DEF CutBefore, Cut, Following
    <2>4. /\ c.cmd = "gstop" => engine'.goose = {}
          /\ c.cmd = "close" => ~engine'.open
      BY <1>2, <2>1, GrowsBy
    <2> QED BY <1>1, <1>3, <2>3, <2>4 DEF Since
  <1>4. ASSUME ~dropped', NEW k \in DOMAIN calls, Done(calls'[k]), k # e
        PROVE  Since(k)'
    <2>1. calls'[k] = calls[k] /\ calls[k].res = "ok" /\ Since(k)
      BY <1>1, <1>4, SinceParts DEF Done
    <2>2. k < e
      BY <1>1, <1>4, <2>1 DEF QueueInv
    <2>3. \A cmd : Behind(k, cmd) => Behind(k, cmd)'
      <3> SUFFICES ASSUME NEW cmd, Behind(k, cmd) PROVE Behind(k, cmd)'
        OBVIOUS
      <3>1. PICK j \in DOMAIN calls : k < j /\ calls[j].cmd = cmd /\ calls[j].res = "ok"
        BY DEF Behind
      <3>2. calls'[j] = calls[j]
        BY <1>1, <3>1
      <3> QED BY <1>1, <3>1, <3>2 DEF Behind
    <2>4. \A cmd : Accepts(c) /\ cmd = c.cmd => Behind(k, cmd)'
      BY <1>1, <2>2 DEF Behind
    <2>5. CASE ~Accepts(c)
      BY <1>2, <2>1, <2>3, <2>5 DEF Since
    <2>6. CASE Accepts(c)
      <3> HIDE DEF c
      <3>0. engine' = After(c) /\ \A cmd : cmd = c.cmd => Behind(k, cmd)'
        BY <1>2, <2>4, <2>6
      <3>1. engine'.conf # {} => Behind(k, "conf")'
        BY <2>1, <2>3, <3>0, PublishersAfter DEF Since
      <3>2. engine'.goose # {} /\ calls[k].cmd = "gstop" => Behind(k, "goose")'
        BY <2>1, <2>3, <3>0, GrowsBy DEF Since
      <3>3. engine'.open /\ calls[k].cmd = "close" => Behind(k, "open")'
        BY <2>1, <2>3, <3>0, GrowsBy DEF Since
      <3>4. engine'.running => /\ Behind(k, "conf")' /\ Behind(k, "start")'
                               /\ calls[k].cmd = "close" => Behind(k, "open")'
        <4>1. CASE engine.running
          BY <2>1, <2>3, <4>1 DEF Since
        <4>2. CASE ~engine.running /\ engine'.running
          <5>1. c.cmd = "start"
            BY <3>0, <4>2, RunningAfter
          <5>2. engine.open /\ engine.conf # {}
            BY <2>6, <5>1 DEF Accepts
          <5> QED BY <2>1, <2>3, <3>0, <5>1, <5>2 DEF Since
        <4> QED BY <4>1, <4>2
      <3> QED BY <2>1, <3>1, <3>2, <3>3, <3>4 DEF Since
    <2> QED BY <2>5, <2>6
  <1> QED BY <1>1, <1>3, <1>4 DEF SinceInv, Since, Done

LEMMA SinceKept ==
    ASSUME TypeInv, QueueInv, IdsInv, CutInv, SinceInv, [Next]_vars
    PROVE  SinceInv'
  <1>1. CASE Drop
    BY <1>1, DropFits DEF Drops, SinceInv
  <1>2. CASE Loading
    <2>1. PICK d : Orphans(d)
      BY <1>2, LoadingFits
    <2>2. \A i \in DOMAIN calls' : ~Done(calls'[i])
      BY <2>1, QuestionFits, NamesDiffer DEF Orphans, Done, Others
    <2> QED BY <2>2 DEF SinceInv, Done
  <1> QED BY <1>1, <1>2, OneIsExecuted, SinceExecuted, ActionsCarry, SinceCarried

-----------------------------------------------------------------------------
(* After a reset.                                                          *)
LEMMA FreshOnly ==
    ASSUME [Next]_vars, ~ResetReloads
    PROVE  fresh' => fresh
  <1>1. CASE Handlers
    BY <1>1 DEF Handlers, StartStep, StopAnswered, StopDone, PollAnswered, BackAnswered,
       HelloAnswered, LoadAnswered, ResetBackend, NobodyWaits, user
  <1>2. CASE UserActs
    BY <1>2 DEF UserActs, AddPublisher, RemovePublisher, Start, StartRefused, Stop, Reset, Reload, user
  <1>3. CASE UNCHANGED vars \/ Execute \/ EngineEnds \/ Timers \/ Drop
    BY <1>3 DEF vars, Execute, EngineEnds, Timers, PollTick, BackTick, HeaderTick, Drop, user
  <1> QED BY <1>1, <1>2, <1>3 DEF Next

\* A start that is told something waits for it.
LEMMA WhoStarts ==
    ASSUME TypeInv, QueueInv, NEW k \in DOMAIN calls, calls[k].by # "gone",
           calls[k].cmd \in {"open", "conf", "start"}
    PROVE  \E s \in Starting : task[s].at = calls[k].cmd
  <1>1. calls[k].by \in Tasks
    BY CallsInLine DEF Calls
  <1>2. task[calls[k].by].at # "idle" /\ calls[k].cmd = CommandOf(task[calls[k].by].at)
    BY QueueInv DEF QueueInv
  <1>3. task[calls[k].by].at = calls[k].cmd
    BY <1>2 DEF CommandOf
  <1>4. task[calls[k].by].at \in LabelsOf(calls[k].by)
    BY <1>1 DEF TypeInv
  <1>5. calls[k].by \in Starters
    BY <1>1, <1>3, <1>4, NamesDiffer DEF Others
  <1> QED BY <1>2, <1>3, <1>5 DEF Starting

LEMMA NoStartComes ==
    ASSUME TypeInv, QueueInv, NEW d, NEW n, NEW c, Carried(d, n, c), fresh', Starting = {}
    PROVE  Starting' = {} /\ (n = 1 => c.cmd \notin {"open", "conf", "start"})
  <1>1. d \in {0, 1} /\ n \in {0, 1}
    BY DEF Carried, Moves
  <1>2. ASSUME NEW s \in Starters, d = 1, calls[1].by = s
        PROVE  FALSE
    BY <1>2, NamesDiffer DEF Carried, QueueInv, Starting
  <1>3. n = 1 => c.by \notin Starters
    BY <1>1, <1>2 DEF Carried, Expected
  <1>4. n = 1 => c.cmd \notin {"open", "conf", "start"}
    BY <1>3 DEF Carried, Expected
  <1>5. ASSUME NEW s \in Starters
        PROVE  task'[s].at = "idle"
    <2>1. task[s].at = "idle" /\ s \in Tasks
      BY NamesDiffer DEF Starting
    <2>2. CASE task' = task
      BY <2>1, <2>2
    <2>3. ASSUME NEW t \in Tasks, Leaves(t)
          PROVE  task'[s].at = "idle"
      BY <2>1, <2>3, IdleFits DEF Leaves
    <2>4. ASSUME NEW t \in Tasks, NEW label, NEW p, NEW i, NEW arg, n = 1,
                 Waits(t, label, p, i, arg, d), c = NewCall(t, CommandOf(label), arg)
          PROVE  task'[s].at = "idle"
      BY <1>3, <2>1, <2>4, CallMade DEF Waits
    <2> QED BY <2>2, <2>3, <2>4 DEF Carried, Shape
  <1> QED BY <1>4, <1>5 DEF Starting

LEMMA FreshCarried ==
    ASSUME TypeInv, QueueInv, FreshInv, NEW d, NEW n, NEW c, Carried(d, n, c), fresh' => fresh
    PROVE  FreshInv'
  <1> SUFFICES ASSUME fresh, fresh' PROVE FreshInv'
    BY DEF FreshInv
  <1>1. Starting = {}
    BY DEF FreshInv
  <1>2. Starting' = {} /\ (n = 1 => c.cmd \notin {"open", "conf", "start"})
    BY <1>1, NoStartComes
  <1>3. \A i \in DOMAIN calls' :
             \/ i + d \in DOMAIN calls /\ calls'[i] = calls[i + d]
             \/ n = 1 /\ calls'[i] = c
    BY MovesOn DEF Carried
  <1>4. \A cmd \in {"open", "conf", "start"} : Pending(cmd)' => Pending(cmd)
    BY <1>2, <1>3 DEF Pending
  <1>5. /\ engine'.conf = engine.conf /\ engine'.open = engine.open
        /\ engine'.running => engine.running
        /\ dropped' = dropped
    BY EngineStopped DEF Carried
  <1>6. Pending("open")' => Pending("open")
    BY <1>4
  <1>7. Pending("conf")' => Pending("conf")
    BY <1>4
  <1>8. Pending("start")' => Pending("start")
    BY <1>4
  <1> QED BY <1>2, <1>5, <1>6, <1>7, <1>8 DEF FreshInv

LEMMA FreshExecuted ==
    ASSUME TypeInv, FreshInv, NEW e, Executes(e)
    PROVE  FreshInv'
  <1> DEFINE c == calls[e]
  <1>1. /\ DOMAIN calls' = DOMAIN calls /\ e \in DOMAIN calls
        /\ \A j \in DOMAIN calls : j # e => calls'[j] = calls[j]
        /\ dropped' = dropped /\ fresh' = fresh /\ task' = task /\ c.res = "none"
        /\ calls'[e].res # "none"
    BY DEF Executes, user, Told
  <1>2. engine' = IF Accepts(c) THEN After(c) ELSE engine
    BY DEF Executes
  <1>3. \A cmd : (Pending(cmd)' => Pending(cmd)) /\ (c.cmd = cmd => Pending(cmd))
    BY <1>1 DEF Pending
  <1> HIDE DEF c
  <1>4. /\ engine'.open => engine.open \/ c.cmd = "open"
        /\ engine'.conf # {} => engine.conf # {} \/ c.cmd = "conf"
        /\ engine'.running => engine.running \/ (c.cmd = "start" /\ engine.open /\ engine.conf # {})
    <2>1. CASE ~Accepts(c)
      BY <1>2, <2>1
    <2>2. CASE Accepts(c)
      <3>1. engine' = After(c)
        BY <1>2, <2>2
      <3>2. c.cmd = "start" /\ ~engine.running => engine.open /\ engine.conf # {}
        BY <2>2 DEF Accepts
      <3> QED BY <3>1, <3>2, GrowsBy, PublishersAfter, RunningAfter
    <2> QED BY <2>1, <2>2
  <1>5. (Pending("open")' => Pending("open")) /\ (c.cmd = "open" => Pending("open"))
    BY <1>3
  <1>6. (Pending("conf")' => Pending("conf")) /\ (c.cmd = "conf" => Pending("conf"))
    BY <1>3
  <1>7. (Pending("start")' => Pending("start")) /\ (c.cmd = "start" => Pending("start"))
    BY <1>3
  <1>8. Starting' = Starting
    BY <1>1 DEF Starting
  <1> QED BY <1>1, <1>4, <1>5, <1>6, <1>7, <1>8 DEF FreshInv

\* Reset loads the page: of two starts at most two calls of an open, a
\* configuration and a start are on their way or have come since.
LEMMA FreshLoaded ==
    ASSUME TypeInv, QueueInv, SinceInv, ResetReloads
    PROVE  FreshInv'
  <1>1. PICK d : Orphans(d)
    BY LoadingFits DEF Loading
  <1>2. Starting' = {}
    <2>1. \A s \in Starters : s \in Tasks /\ s \notin {"load", "hello"}
      BY NamesDiffer DEF Others
    <2> QED BY <1>1, <2>1, IdleFits DEF Orphans, Starting
  <1>3. engine' = engine /\ dropped' = dropped
    BY LoadingClears DEF Loading
  <1>4. SUFFICES ASSUME fresh', ~dropped
                 PROVE  /\ ~engine.running
                        /\ \/ ~Pending("start")'
                           \/ ~engine.open /\ ~Pending("open")'
                           \/ engine.conf = {} /\ ~Pending("conf")'
    BY <1>2, <1>3 DEF FreshInv
  <1>5. \A a, b, c \in Starting : a = b \/ b = c \/ a = c
    BY <1>4 DEF ResetReloads
  <1>6. /\ 1 \in DOMAIN calls /\ calls[1].by = "reset" /\ calls[1].cmd = "close"
        /\ calls[1].res \in {"ok", "rejected"}
    BY OldestAnswer, NamesDiffer DEF ResetReloads, Others, CommandOf
  <1>7. calls[1].res = "ok"
    BY <1>4, <1>6 DEF QueueInv
  <1>8. Since(1)
    BY <1>4, <1>6, <1>7, SinceParts DEF Done
  <1>9. \A k \in DOMAIN calls : calls[k].by # "gone"
    <2> TAKE k \in DOMAIN calls
    <2>1. 1 < k \/ k = 1
      BY CallsInLine
    <2> QED BY <1>6, <2>1 DEF QueueInv
  <1> DEFINE Met(cmd) == \E s \in Starting : task[s].at = cmd
  <1>10. \A k \in DOMAIN calls : calls[k].cmd \in {"open", "conf", "start"} => Met(calls[k].cmd)
    BY <1>9, WhoStarts
  <1>11. \A cmd \in {"open", "conf", "start"} : Behind(1, cmd) => Met(cmd)
    BY <1>10 DEF Behind
  <1>12. \A cmd \in {"open", "conf", "start"} : Pending(cmd)' => Met(cmd)
    <2>1. \A i \in DOMAIN calls' : \/ i + d \in DOMAIN calls /\ calls'[i].cmd = calls[i + d].cmd
                                   \/ calls'[i].cmd = "running?"
      BY <1>1, QuestionFits, NamesDiffer DEF Orphans, Others
    <2> QED BY <1>10, <2>1 DEF Pending
  <1>13. ~(Met("open") /\ Met("conf") /\ Met("start"))
    BY <1>5
  <1> HIDE DEF Met
  <1>14. (Pending("open")' => Met("open")) /\ (Behind(1, "open") => Met("open"))
    BY <1>11, <1>12
  <1>15. (Pending("conf")' => Met("conf")) /\ (Behind(1, "conf") => Met("conf"))
    BY <1>11, <1>12
  <1>16. (Pending("start")' => Met("start")) /\ (Behind(1, "start") => Met("start"))
    BY <1>11, <1>12
  <1> QED BY <1>6, <1>8, <1>13, <1>14, <1>15, <1>16 DEF Since

LEMMA FreshKept ==
    ASSUME TypeInv, QueueInv, IdsInv, SinceInv, FreshInv, [Next]_vars
    PROVE  FreshInv'
  <1>1. CASE ResetReloads
    BY <1>1, FreshLoaded
  <1>2. CASE Reload
    BY <1>2 DEF Reload, FreshInv
  <1>3. CASE Drop
    <2>1. fresh' = fresh /\ dropped' /\ task' = [task EXCEPT !["hello"].at = "running?"]
      BY <1>3 DEF Drop
    <2>2. \A s \in Starters : task'[s] = task[s]
      BY <1>3, DropFits, NamesDiffer DEF Drops, Others
    <2>3. Starting' = Starting
      BY <2>2 DEF Starting
    <2> QED BY <2>1, <2>3 DEF FreshInv
  <1>4. CASE Execute
    BY <1>4, OneIsExecuted, FreshExecuted
  <1>5. CASE ~ResetReloads /\ ~Reload /\ ~Drop /\ ~Execute
    BY <1>5, ActionsCarry, FreshCarried, FreshOnly DEF Loading
  <1> QED BY <1>1, <1>2, <1>3, <1>4, <1>5

-----------------------------------------------------------------------------
(* The invariant of the calls, and what Stop leaves.                       *)
BaseInv ==
    /\ TypeInv /\ QueueInv /\ IdsInv /\ RunIsWatched /\ EndInv
    /\ CutInv /\ SinceInv /\ FreshInv

LEMMA BaseInit ==
    ASSUME Init
    PROVE  BaseInv
  <1>1. \A t \in Tasks : task[t] = Idle /\ task[t].at = "idle"
    BY IdleFits DEF Init
  <1>2. DOMAIN calls = {} /\ calls = <<>> /\ DOMAIN list = {} /\ list = <<>> /\ Listed = {}
    BY EmptySeq DEF Init, Listed
  <1>3. TypeInv
    <2>1. /\ <<>> \in Seq(Lids) /\ <<>> \in Seq(Calls) /\ 1 \in 1 .. MaxLid + 1 /\ 1 \in 1 .. MaxId + 1
      BY PanelAssumption, EmptySeq
    <2>2. task \in [Tasks -> Works]
      BY IdleFits DEF Init
    <2>3. engine \in Engines /\ engine.conf = {} /\ engine.pubs = {} /\ engine.goose = {}
      BY <2>1 DEF Init, Engines
    <2>4. bid \in [Lids -> {0} \union Ids]
      BY DEF Init
    <2>5. TypeOK
      <3>1. \A t \in Tasks : task[t].at \in Labels /\ task[t].pub \in {0} \union Lids
        BY <2>2 DEF Works
      <3> QED BY <1>2, <2>1, <2>3, <2>4, <3>1 DEF TypeOK, Init
    <2>6. \A t \in Tasks : "idle" \in LabelsOf(t)
      BY NamesDiffer DEF Others, StartLabels
    <2> QED BY <1>1, <1>2, <2>1, <2>2, <2>3, <2>5, <2>6 DEF TypeInv
  <1>4. QueueInv
    BY <1>1, <1>2 DEF QueueInv
  <1>5. IdsInv
    <2>1. \A l \in Lids : bid[l] = 0
      BY DEF Init
    <2>2. engine.next = 1
      BY DEF Init
    <2> QED BY <1>2, <2>1, <2>2 DEF IdsInv, IdsNotShared
  <1>6. RunIsWatched /\ FreshInv
    BY DEF Init, RunIsWatched, FreshInv
  <1>7. EndInv /\ CutInv /\ SinceInv
    BY <1>2 DEF EndInv, CutInv, SinceInv
  <1> QED BY <1>3, <1>4, <1>5, <1>6, <1>7 DEF BaseInv

LEMMA BaseKept ==
    ASSUME BaseInv, [Next]_vars
    PROVE  BaseInv'
  BY TypesKept, QueueKept, NumbersKept, WatchKept, EndKept, CutKept, SinceKept, FreshKept
     DEF BaseInv

\* What the calls in flight, executed or not, tell of the backend is right in
\* every state: the invariant that the theorems about the panel rest on.
THEOREM CallsInvariant == Spec => []BaseInv
  BY BaseInit, BaseKept, PTL DEF Spec

\* No two publishers of the page are one publisher of the backend, and a page
\* that shows a run watches for its end: whatever handlers interleave.
LEMMA NumbersAndWatch ==
    ASSUME BaseInv
    PROVE  TypeOK /\ IdsNotShared /\ RunIsWatched
  BY DEF BaseInv, TypeInv, IdsInv

\* Reset is followed up.
LEMMA ResetHolds ==
    ASSUME BaseInv
    PROVE  ResetEndsTheRun
  BY DEF BaseInv, FreshInv, ResetEndsTheRun

LEMMA StopLeft ==
    ASSUME TypeInv, QueueInv, IdsInv, [Next]_vars, ~StopAnswered, ~StopDone, ~Loading
    PROVE  task["stop"].at = "idle" \/ task'["stop"] = task["stop"]
  <1>1. /\ Others \subseteq Tasks /\ Starters \subseteq Tasks
        /\ \A s \in Starters : s # "stop"
        /\ task \in [Tasks -> Works] /\ "stop" \in Tasks
    BY NamesDiffer DEF TypeInv, Others
  <1>2. ASSUME NEW s \in Starters, StartStep(s)
        PROVE  task'["stop"] = task["stop"]
    BY <1>1, <1>2, StartsActAlone
  <1>3. CASE PollAnswered \/ BackAnswered \/ HelloAnswered \/ LoadAnswered
    BY <1>1, <1>3 DEF PollAnswered, BackAnswered, HelloAnswered, LoadAnswered, Return, Others
  <1>4. CASE ResetBackend
    BY <1>1, <1>4 DEF ResetBackend, Await, Others
  <1>5. ASSUME NEW h \in BOOLEAN, Start(h)
        PROVE  task'["stop"] = task["stop"]
    <2>1. Starters \ Starting # {}
      BY <1>5 DEF Start, Starting
    <2>2. PICK s \in Starters : Begin(s, "open", h)
      BY <1>5, <2>1 DEF Start
    <2> QED BY <1>1, <2>2 DEF Begin
  <1>6. ASSUME NEW h \in BOOLEAN, Stop(h)
        PROVE  task["stop"].at = "idle"
    BY <1>6 DEF Stop, Begin
  <1>7. CASE Reset \/ PollTick \/ BackTick
    BY <1>1, <1>7 DEF Reset, PollTick, BackTick, Begin, Others
  <1>8. CASE Drop
    BY <1>1, <1>8, DropFits DEF Drops
  <1>9. CASE UNCHANGED vars \/ Execute \/ EngineEnds \/ NobodyWaits \/ AddPublisher
              \/ (\E idx \in DOMAIN list : RemovePublisher(idx)) \/ StartRefused \/ HeaderTick
    <2>1. task' = task
      BY <1>9 DEF vars, Execute, EngineEnds, NobodyWaits, AddPublisher, RemovePublisher,
           StartRefused, HeaderTick
    <2> QED BY <2>1
  <1> QED BY <1>2, <1>3, <1>4, <1>5, <1>6, <1>7, <1>8, <1>9
        DEF Next, Handlers, UserActs, Timers, Loading

\* Whose call behind that of a handler would configure or start.
LEMMA BehindIsAStart ==
    ASSUME TypeInv, QueueInv, 1 \in DOMAIN calls, calls[1].by # "gone",
           Behind(1, "conf") \/ Behind(1, "goose")
    PROVE  Starting # {}
  <1>1. PICK j \in DOMAIN calls : 1 < j /\ calls[j].cmd \in {"conf", "goose"}
    BY DEF Behind
  <1>2. calls[j].by # "gone"
    BY <1>1 DEF QueueInv
  <1>3. calls[j].by \in Tasks
    BY <1>2, CallsInLine DEF Calls
  <1>4. task[calls[j].by].at # "idle" /\ task[calls[j].by].at \in {"conf", "goose"}
    BY <1>1, <1>2 DEF QueueInv, CommandOf
  <1>5. task[calls[j].by].at \in LabelsOf(calls[j].by)
    BY <1>3 DEF TypeInv
  <1>6. calls[j].by \in Starters
    BY <1>3, <1>4, <1>5, NamesDiffer DEF Others
  <1> QED BY <1>4, <1>6 DEF Starting

\* When stopAll() returns nothing transmits, neither samples nor GOOSE, unless
\* a start is on its way or a call was lost.
THEOREM StopIsSilence == Spec => StopSilences
  <1>1. ASSUME BaseInv, [Next]_vars
        PROVE  [task["stop"].at # "idle" /\ task'["stop"].at = "idle" /\ calls' = Tail(calls)
                  /\ Starting = {} /\ ~dropped /\ task["reset"].at = "idle"
                => ~engine.running /\ engine.goose = {}]_vars
    <2> SUFFICES ASSUME task["stop"].at # "idle", task'["stop"].at = "idle", calls' = Tail(calls),
                        Starting = {}, ~dropped
                 PROVE  ~engine.running /\ engine.goose = {}
      OBVIOUS
    <2>0. TypeInv /\ QueueInv /\ IdsInv /\ SinceInv /\ "stop" \in Tasks
      BY <1>1, NamesDiffer DEF BaseInv, Others
    <2>1. CASE StopDone
      <3>1. Answered("stop", "gstop")
        BY <2>1 DEF StopDone
      <3>2. /\ 1 \in DOMAIN calls /\ calls[1].by = "stop" /\ calls[1].cmd = "gstop"
            /\ calls[1].res \in {"ok", "rejected"}
        BY <2>0, <3>1, OldestAnswer DEF CommandOf
      <3>3. calls[1].res = "ok" /\ calls[1].by # "gone"
        BY <2>0, <3>2 DEF QueueInv
      <3>4. Since(1)
        BY <2>0, <3>2, <3>3, SinceParts DEF Done
      <3>5. ~Behind(1, "conf") /\ ~Behind(1, "goose")
        BY <2>0, <3>2, <3>3, BehindIsAStart
      <3> QED BY <3>2, <3>4, <3>5 DEF Since
    <2>2. CASE StopAnswered
      <3>1. task'["stop"].at = "gstop"
        BY <2>0, <2>2 DEF StopAnswered, AfterStop, Await, TypeInv, Works
      <3> QED BY <3>1
    <2>3. CASE Loading
      <3>1. PICK d : Orphans(d)
        BY <2>0, <2>3, LoadingFits
      <3>2. Len(calls) \in Nat /\ calls \in Seq(Calls)
        BY <2>0, CallsInLine DEF TypeInv
      <3>3. Len(calls') = Len(calls) - d + 2 /\ d \in {0, 1}
        BY <3>1 DEF Orphans
      <3>4. CASE calls = <<>>
        <4>1. DOMAIN calls = {}
          BY <2>0, <3>4, CallsInLine
        <4> QED BY <2>0, <4>1 DEF QueueInv
      <3>5. CASE calls # <<>>
        <4>1. Len(Tail(calls)) = Len(calls) - 1
          BY <3>2, <3>5, HeadTailProperties
        <4> QED BY <3>2, <3>3, <4>1
      <3> QED BY <3>4, <3>5
    <2>4. CASE ~StopDone /\ ~StopAnswered /\ ~Loading
      BY <1>1, <2>0, <2>4, StopLeft
    <2> QED BY <2>1, <2>2, <2>3, <2>4
  <1> QED BY <1>1, CallsInvariant, PTL DEF Spec, StopSilences

-----------------------------------------------------------------------------
(* A start that meets no other start and no edit of the list.  Here w is   *)
(* its task, c its call, l the list, b the numbers and e the backend.      *)
Alone == ~disturbed /\ ~dropped
Numbers(l, b, n) == {b[l[j]] : j \in 1 .. n}
All(l, b) == Numbers(l, b, Len(l))
Bare(e) == e.conf = {} /\ e.pubs = {}
OnList(w, l) == w.i \in 1 .. Len(l) /\ w.pub = l[w.i]

\* What the backend holds when a call of the start is in flight; a reset may
\* have come between two calls.
AddPhase(w, c, l, b, e) ==
    /\ OnList(w, l) /\ e.conf = {}
    /\ c.res = "none" =>
         \/ e.pubs = Numbers(l, b, w.i - 1)
         \/ w.i > 1 /\ b[l[1]] \notin e.pubs
    /\ c.res = "ok" =>
         \/ e.pubs = Numbers(l, b, w.i - 1) \union {c.value}
         \/ (IF w.i = 1 THEN c.value ELSE b[l[1]]) \notin e.pubs
ConfPhase(w, c, l, b, e) ==
    /\ OnList(w, l) /\ c.arg = b[w.pub]
    /\ c.res = "none" =>
         \/ e.pubs = All(l, b) /\ e.conf = Numbers(l, b, w.i - 1)
         \/ e.conf = {} /\ c.arg \notin e.pubs
    /\ c.res = "ok" => (e.pubs = All(l, b) /\ e.conf = Numbers(l, b, w.i)) \/ Bare(e)
AsidePhase(w, l, b, e) ==
    /\ OnList(w, l)
    /\ (e.pubs = All(l, b) /\ e.conf = Numbers(l, b, w.i)) \/ Bare(e)
Phase(w, c, l, b, e) ==
    /\ c.cmd = "clear" /\ w.at = "clear" /\ c.res = "ok" => Bare(e)
    /\ c.cmd = "add" => AddPhase(w, c, l, b, e)
    /\ c.cmd = "conf" => ConfPhase(w, c, l, b, e)
    /\ c.cmd \in {"side", "goose"} => AsidePhase(w, l, b, e)
    /\ c.cmd = "start" /\ c.res = "none" => e.conf \in {All(l, b), {}}
    /\ c.cmd = "start" /\ c.res = "ok" /\ e.running => e.live = All(l, b)

\* A stop that is still on its way is ahead of the start.
StopAhead(s) ==
    \/ task["stop"].at = "gstop" /\ task[s].at = "open"
    \/ \E j, k \in DOMAIN calls :
         /\ j < k /\ calls[j].by = "stop" /\ calls[k].by = s
         /\ <<task["stop"].at, task[s].at>> \in {<<"stop", "open">>, <<"gstop", "clear">>}

Orderly ==
    /\ \A k \in DOMAIN calls : calls[k].by # "gone"
    /\ \A s, r \in Starting : s = r
    /\ task["load"].at = "idle"
    /\ Starting # {} => ~isRunning
    /\ task["stop"].at = "gstop" => ~isRunning
Unseen == engine.running /\ ~isRunning => \E k \in DOMAIN calls : Begun(calls[k])
StopsAhead == \A s \in Starting : task["stop"].at # "idle" => StopAhead(s)
Phases ==
    \A k \in DOMAIN calls :
       calls[k].by \in Starters => Phase(task[calls[k].by], calls[k], list, bid, engine)
Transmitted == isRunning /\ engine.running => engine.live = All(list, bid)
AloneInv == Alone => Orderly /\ Unseen /\ StopsAhead /\ Phases /\ Transmitted
PanelInv == BaseInv /\ AloneInv

-----------------------------------------------------------------------------
(* The phases of a start.                                                  *)
LEMMA NumbersGrow ==
    ASSUME NEW l \in Seq(Lids), NEW b
    PROVE  /\ Numbers(l, b, 0) = {}
           /\ \A n \in 1 .. Len(l) : Numbers(l, b, n) = Numbers(l, b, n - 1) \union {b[l[n]]}
  <1>1. Len(l) \in Nat
    BY LenProperties
  <1>2. 1 .. 0 = {}
    OBVIOUS
  <1>3. Numbers(l, b, 0) = {}
    BY <1>2 DEF Numbers
  <1>4. ASSUME NEW n \in 1 .. Len(l)
        PROVE  Numbers(l, b, n) = Numbers(l, b, n - 1) \union {b[l[n]]}
    <2>1. 1 .. n = (1 .. n - 1) \union {n}
      BY <1>1
    <2> QED BY <2>1 DEF Numbers
  <1> QED BY <1>3, <1>4

Distinct(l) == \A i, j \in DOMAIN l : l[i] = l[j] => i = j
Assigned(b2, b, p, v) == \A q \in Lids : b2[q] = IF q = p THEN v ELSE b[q]
LEMMA NumbersAssigned ==
    ASSUME NEW l, NEW n, NEW b, NEW b2, NEW v,
           l \in Seq(Lids), Distinct(l), n \in 1 .. Len(l), Assigned(b2, b, l[n], v)
    PROVE  /\ Numbers(l, b2, n) = Numbers(l, b, n - 1) \union {v}
           /\ b2[l[n]] = v /\ (n # 1 => b2[l[1]] = b[l[1]])
  <1>1. Len(l) \in Nat /\ DOMAIN l = 1 .. Len(l) /\ \A i \in 1 .. Len(l) : l[i] \in Lids
    BY LenProperties, ElementOfSeq
  <1>2. \A i \in 1 .. Len(l) : b2[l[i]] = IF i = n THEN v ELSE b[l[i]]
    BY <1>1 DEF Distinct, Assigned
  <1>3. Numbers(l, b2, n - 1) = Numbers(l, b, n - 1)
    <2>1. \A j \in 1 .. n - 1 : b2[l[j]] = b[l[j]]
      BY <1>1, <1>2
    <2> QED BY <2>1 DEF Numbers
  <1>4. Numbers(l, b2, n) = Numbers(l, b2, n - 1) \union {b2[l[n]]}
    BY NumbersGrow
  <1>5. n # 1 => b2[l[1]] = b[l[1]]
    BY <1>1, <1>2
  <1> QED BY <1>2, <1>3, <1>4, <1>5

\* Nothing of a phase depends on what the backend is besides.
LEMMA PhaseStays ==
    ASSUME NEW w, NEW c, NEW l, NEW b, NEW e, NEW f, Phase(w, c, l, b, e),
           f.pubs = e.pubs, f.conf = e.conf, f.running => e.running /\ f.live = e.live
    PROVE  Phase(w, c, l, b, f)
  <1>1. c.cmd = "add" => AddPhase(w, c, l, b, f)
    BY DEF Phase, AddPhase
  <1>2. c.cmd = "conf" => ConfPhase(w, c, l, b, f)
    BY DEF Phase, ConfPhase, Bare
  <1>3. c.cmd \in {"side", "goose"} => AsidePhase(w, l, b, f)
    BY DEF Phase, AsidePhase, Bare
  <1>4. c.cmd = "clear" /\ w.at = "clear" /\ c.res = "ok" => Bare(f)
    BY DEF Phase, Bare
  <1> QED BY <1>1, <1>2, <1>3, <1>4 DEF Phase

\* A stop or a reset empties the backend in any phase.
LEMMA PhaseEmptied ==
    ASSUME NEW w, NEW c, NEW l \in Seq(Lids), NEW b, NEW e, NEW f, Phase(w, c, l, b, e),
           f.pubs = {}, f.conf = {}, ~f.running
    PROVE  Phase(w, c, l, b, f)
  <1>1. ASSUME c.cmd = "add"
        PROVE  AddPhase(w, c, l, b, f)
    <2>1. OnList(w, l)
      BY <1>1 DEF Phase, AddPhase
    <2>2. w.i = 1 => Numbers(l, b, w.i - 1) = {}
      BY NumbersGrow
    <2>3. w.i # 1 => w.i > 1
      BY <2>1, LenProperties DEF OnList
    <2> QED BY <2>1, <2>2, <2>3 DEF AddPhase
  <1>2. c.cmd = "conf" => ConfPhase(w, c, l, b, f)
    BY DEF Phase, ConfPhase, Bare
  <1>3. c.cmd \in {"side", "goose"} => AsidePhase(w, l, b, f)
    BY DEF Phase, AsidePhase, Bare
  <1>4. c.cmd = "clear" /\ w.at = "clear" /\ c.res = "ok" => Bare(f)
    BY DEF Bare
  <1> QED BY <1>1, <1>2, <1>3, <1>4 DEF Phase

\* The call of the start is executed itself.
LEMMA PhaseExecuted ==
    ASSUME TypeInv, IdsInv, NEW w, NEW c \in Calls, NEW r, NEW f,
           Phase(w, c, list, bid, engine), c.res = "none",
           c.cmd # "start" => ~engine.running,
           c.cmd \in {"open", "clear", "add", "conf", "side", "goose", "start"},
           r.cmd = c.cmd, r.arg = c.arg, r.value = Value(c),
           r.res = IF Accepts(c) THEN "ok" ELSE "rejected",
           f = IF Accepts(c) THEN After(c) ELSE engine
    PROVE  Phase(w, r, list, bid, f)
  <1>1. list \in Seq(Lids) /\ bid \in [Lids -> {0} \union Ids] /\ Len(list) \in Nat
        /\ \A i \in 1 .. Len(list) : list[i] \in Lids
    BY TypeParts
  <1>2. CASE c.cmd \in {"open", "side", "goose"}
    <2>1. /\ f.pubs = engine.pubs /\ f.conf = engine.conf
          /\ f.running = engine.running /\ f.live = engine.live
      BY <1>2 DEF After, TypeInv, Engines
    <2>2. Phase(w, c, list, bid, f)
      BY <2>1, PhaseStays
    <2> QED BY <1>2, <2>2 DEF Phase
  <1>3. CASE c.cmd = "clear"
    <2>1. f = Emptied(engine)
      BY <1>3 DEF Accepts, After
    <2>2. Bare(f)
      BY <2>1 DEF Bare, Emptied, TypeInv, Engines
    <2> QED BY <1>3, <2>2 DEF Phase
  <1>4. CASE c.cmd = "add"
    <2>1. AddPhase(w, c, list, bid, engine)
      BY <1>4 DEF Phase
    <2>2. OnList(w, list) /\ engine.conf = {}
      BY <2>1 DEF AddPhase
    <2>3. CASE Accepts(c)
      <3>1. f = [engine EXCEPT !.pubs = engine.pubs \union {engine.next}, !.next = engine.next + 1]
        BY <1>4, <2>3 DEF After
      <3>2. f.pubs = engine.pubs \union {engine.next} /\ f.conf = engine.conf
        BY <3>1 DEF TypeInv, Engines
      <3>3. r.res = "ok" /\ r.value = engine.next
        BY <1>4, <2>3 DEF Value
      <3>4. bid[list[1]] # engine.next
        <4>1. list[1] \in Lids
          BY <1>1, <2>2 DEF OnList
        <4>2. bid[list[1]] < engine.next /\ engine.next \in Nat
          BY <4>1, EngineStopped DEF IdsInv
        <4>3. bid[list[1]] \in Nat
          BY <1>1, <4>1 DEF Ids
        <4> QED BY <4>2, <4>3
      <3>5. CASE engine.pubs = Numbers(list, bid, w.i - 1)
        <4>1. f.pubs = Numbers(list, bid, w.i - 1) \union {r.value}
          BY <3>2, <3>3, <3>5
        <4>2. AddPhase(w, r, list, bid, f)
          BY <2>2, <3>2, <3>3, <4>1 DEF AddPhase
        <4> QED BY <1>4, <4>2 DEF Phase
      <3>6. CASE w.i > 1 /\ bid[list[1]] \notin engine.pubs
        <4>1. bid[list[1]] \notin f.pubs /\ w.i # 1
          BY <1>1, <2>2, <3>2, <3>4, <3>6 DEF OnList
        <4>2. AddPhase(w, r, list, bid, f)
          BY <2>2, <3>2, <3>3, <4>1 DEF AddPhase
        <4> QED BY <1>4, <4>2 DEF Phase
      <3> QED BY <2>1, <3>5, <3>6 DEF AddPhase
    <2>4. CASE ~Accepts(c)
      <3>1. AddPhase(w, r, list, bid, f)
        BY <2>2, <2>4 DEF AddPhase
      <3> QED BY <1>4, <3>1 DEF Phase
    <2> QED BY <2>3, <2>4
  <1>5. CASE c.cmd = "conf"
    <2>1. ConfPhase(w, c, list, bid, engine)
      BY <1>5 DEF Phase
    <2>2. OnList(w, list) /\ r.arg = bid[w.pub]
      BY <2>1 DEF ConfPhase
    <2>3. CASE Accepts(c)
      <3>1. c.arg \in engine.pubs
        BY <1>5, <2>3 DEF Accepts
      <3>2. engine.pubs = All(list, bid) /\ engine.conf = Numbers(list, bid, w.i - 1)
        BY <2>1, <3>1 DEF ConfPhase
      <3>3. f.pubs = engine.pubs /\ f.conf = engine.conf \union {c.arg}
        BY <1>5, <2>3 DEF After, TypeInv, Engines
      <3>4. Numbers(list, bid, w.i) = Numbers(list, bid, w.i - 1) \union {bid[list[w.i]]}
        BY <1>1, <2>2, NumbersGrow DEF OnList
      <3>5. f.conf = Numbers(list, bid, w.i)
        BY <2>2, <3>2, <3>3, <3>4 DEF OnList
      <3>6. r.res = "ok"
        BY <2>3
      <3>7. ConfPhase(w, r, list, bid, f)
        BY <2>2, <3>2, <3>3, <3>5, <3>6 DEF ConfPhase
      <3> QED BY <1>5, <3>7 DEF Phase
    <2>4. CASE ~Accepts(c)
      <3>1. ConfPhase(w, r, list, bid, f)
        BY <2>2, <2>4 DEF ConfPhase
      <3> QED BY <1>5, <3>1 DEF Phase
    <2> QED BY <2>3, <2>4
  <1>6. CASE c.cmd = "start"
    <2>1. engine.conf \in {All(list, bid), {}}
      BY <1>6 DEF Phase
    <2>2. CASE Accepts(c)
      <3>1. engine.conf # {}
        BY <1>6, <2>2 DEF Accepts
      <3>2. f.live = engine.conf
        BY <1>6, <2>2 DEF After, TypeInv, Engines
      <3> QED BY <1>6, <2>1, <2>2, <3>1, <3>2 DEF Phase
    <2>3. CASE ~Accepts(c)
      BY <1>6, <2>3 DEF Phase
    <2> QED BY <2>2, <2>3
  <1> QED BY <1>2, <1>3, <1>4, <1>5, <1>6

-----------------------------------------------------------------------------
(* Whose call it is.                                                       *)
OfStart == {"open", "clear", "add", "conf", "side", "goose", "start"}
LEMMA Callers ==
    ASSUME TypeInv, QueueInv, NEW k \in DOMAIN calls, calls[k].by # "gone"
    PROVE  /\ calls[k] \in Calls /\ calls[k].by \in Tasks
           /\ calls[k].cmd = CommandOf(task[calls[k].by].at) /\ task[calls[k].by].at # "idle"
           /\ calls[k].cmd \in OfStart <=> calls[k].by \in Starters
           /\ calls[k].by \in Starters => calls[k].by \in Starting
           /\ calls[k].cmd = "stop" => calls[k].by = "stop" /\ task["stop"].at = "stop"
  <1>1. calls[k] \in Calls /\ calls[k].by \in Tasks
    BY CallsInLine DEF Calls
  <1>2. calls[k].cmd = CommandOf(task[calls[k].by].at) /\ task[calls[k].by].at # "idle"
    BY DEF QueueInv
  <1>3. task[calls[k].by].at \in LabelsOf(calls[k].by)
    BY <1>1 DEF TypeInv
  <1>4. CASE calls[k].by \in Starters
    <2>1. task[calls[k].by].at \in StartLabels
      BY <1>3, <1>4, NamesDiffer
    <2>2. calls[k].cmd \in OfStart
      BY <1>2, <2>1 DEF StartLabels, CommandOf, OfStart
    <2> QED BY <1>1, <1>2, <1>4, <2>2 DEF Starting, OfStart
  <1>5. CASE calls[k].by \notin Starters
    <2>1. calls[k].by \in Others
      BY <1>1, <1>5, NamesDiffer
    <2>2. task[calls[k].by].at \in {"stop", "gstop", "reset", "close", "running?"}
      BY <1>2, <1>3, <2>1, NamesDiffer DEF Others
    <2>3. calls[k].cmd = task[calls[k].by].at
      BY <1>2, <2>2 DEF CommandOf
    <2>4. calls[k].cmd = "stop" => calls[k].by = "stop"
      BY <1>3, <2>1, <2>3, NamesDiffer DEF Others
    <2> QED BY <1>1, <1>2, <1>5, <2>2, <2>3, <2>4 DEF OfStart
  <1> QED BY <1>4, <1>5

\* Whoever has a call in flight has no other one.
LEMMA OneCall ==
    ASSUME TypeInv, QueueInv, NEW j \in DOMAIN calls, NEW k \in DOMAIN calls,
           calls[j].by = calls[k].by, calls[k].by # "gone"
    PROVE  j = k
  BY DEF QueueInv

LEMMA RunSeen ==
    ASSUME TypeInv, QueueInv, Orderly, Unseen, NEW s \in Starting, task[s].at # "start"
    PROVE  ~engine.running
  <1> SUFFICES ASSUME engine.running PROVE FALSE
    OBVIOUS
  <1>1. PICK k \in DOMAIN calls : Begun(calls[k])
    BY DEF Orderly, Unseen
  <1>2. calls[k].by # "gone" /\ calls[k].cmd = "start"
    BY <1>1 DEF Orderly, Begun
  <1>3. calls[k].by \in Starting /\ CommandOf(task[calls[k].by].at) = "start"
    BY <1>2, Callers DEF OfStart
  <1>4. calls[k].by = s
    BY <1>3 DEF Orderly
  <1> QED BY <1>3, <1>4 DEF CommandOf

-----------------------------------------------------------------------------
(* The backend executes a command.                                         *)
LEMMA AloneExecuted ==
    ASSUME TypeInv, QueueInv, IdsInv, AloneInv, NEW e, Executes(e)
    PROVE  AloneInv'
  <1> SUFFICES ASSUME Alone'
               PROVE  (Orderly /\ Unseen /\ StopsAhead /\ Phases /\ Transmitted)'
    BY DEF AloneInv
  <1>1. /\ list' = list /\ bid' = bid /\ isRunning' = isRunning /\ task' = task /\ Alone
        /\ Starting' = Starting
    BY DEF Executes, user, panel, run, Alone, Starting
  <1>2. Orderly /\ Unseen /\ StopsAhead /\ Phases /\ Transmitted
    BY <1>1 DEF AloneInv
  <1>3. /\ DOMAIN calls' = DOMAIN calls /\ e \in DOMAIN calls /\ calls[e] \in Calls
        /\ calls[e].res = "none" /\ calls'[e].res = Told(e) /\ calls'[e].value = Value(calls[e])
        /\ \A j \in DOMAIN calls : j # e => calls'[j] = calls[j]
        /\ \A j \in DOMAIN calls : /\ calls'[j].by = calls[j].by /\ calls'[j].cmd = calls[j].cmd
                                   /\ calls'[j].arg = calls[j].arg
        /\ \A j \in DOMAIN calls : calls[j].by # "gone"
    BY <1>2 DEF Executes, Orderly
  <1>4. engine' = IF Accepts(calls[e]) THEN After(calls[e]) ELSE engine
    BY DEF Executes
  <1>5. Orderly'
    BY <1>1, <1>2, <1>3 DEF Orderly
  <1>6. StopsAhead'
    BY <1>1, <1>2, <1>3 DEF StopsAhead, StopAhead
  <1>7. Unseen'
    <2> SUFFICES ASSUME engine'.running, ~isRunning
                 PROVE  \E k \in DOMAIN calls' : Begun(calls'[k])
      BY <1>1 DEF Unseen, Begun
    <2>1. CASE engine.running
      <3>1. PICK k \in DOMAIN calls : Begun(calls[k])
        BY <1>2, <2>1 DEF Unseen
      <3> QED BY <1>3, <3>1 DEF Begun
    <2>2. CASE ~engine.running
      <3>1. Accepts(calls[e]) /\ calls[e].cmd = "start"
        BY <1>4, <2>2, RunningAfter
      <3> QED BY <1>3, <3>1 DEF Begun, Told
    <2> QED BY <2>1, <2>2
  <1>8. Transmitted'
    <2> SUFFICES ASSUME isRunning, engine'.running
                 PROVE  engine'.live = All(list, bid)
      BY <1>1 DEF Transmitted
    <2>1. calls[e].by \notin Starters
      BY <1>2, <1>3, Callers DEF Orderly
    <2>2. calls[e].cmd \notin OfStart
      BY <1>3, <2>1, Callers
    <2>3. engine.running /\ (engine' = After(calls[e]) => calls[e].cmd \notin {"stop", "reset"})
      BY <1>4, <2>2, RunningAfter DEF OfStart
    <2>4. engine'.live = engine.live
      <3>1. engine' = After(calls[e]) => After(calls[e]).live = engine.live
        BY <2>2, <2>3 DEF After, TypeInv, Engines, OfStart
      <3> QED BY <1>4, <3>1
    <2> QED BY <1>2, <2>3, <2>4 DEF Transmitted
  <1>9. Phases'
    <2> SUFFICES ASSUME NEW k \in DOMAIN calls, calls[k].by \in Starters
                 PROVE  Phase(task[calls[k].by], calls'[k], list, bid, engine')
      BY <1>1, <1>3 DEF Phases
    <2> DEFINE s == calls[k].by
    <2>1. /\ s \in Starting /\ calls[k] \in Calls /\ calls[k].cmd \in OfStart
          /\ Phase(task[s], calls[k], list, bid, engine)
          /\ calls[k].cmd = CommandOf(task[s].at)
      BY <1>2, <1>3, Callers DEF Phases
    <2>2. CASE k = e
      <3>1. calls[k].cmd # "start" => ~engine.running
        BY <1>2, <2>1, RunSeen DEF CommandOf
      <3>2. PICK w, c, r, f : w = task[s] /\ c = calls[k] /\ r = calls'[k] /\ f = engine'
        OBVIOUS
      <3>3. /\ c \in Calls /\ Phase(w, c, list, bid, engine) /\ c.res = "none"
            /\ c.cmd # "start" => ~engine.running
            /\ c.cmd \in {"open", "clear", "add", "conf", "side", "goose", "start"}
            /\ r.cmd = c.cmd /\ r.arg = c.arg /\ r.value = Value(c)
            /\ r.res = IF Accepts(c) THEN "ok" ELSE "rejected"
            /\ f = IF Accepts(c) THEN After(c) ELSE engine
        BY <1>3, <1>4, <2>1, <2>2, <3>1, <3>2 DEF Told, OfStart
      <3>4. Phase(w, r, list, bid, f)
        BY <3>3, PhaseExecuted
      <3> QED BY <3>2, <3>4
    <2>3. CASE k # e
      <3>1. calls'[k] = calls[k]
        BY <1>3, <2>3
      <3>2. calls[e].by \notin Starters
        <4> SUFFICES ASSUME calls[e].by \in Starters PROVE FALSE
          OBVIOUS
        <4>1. calls[e].by \in Starting
          BY <1>3, Callers
        <4>2. calls[e].by = s
          BY <1>2, <2>1, <4>1 DEF Orderly
        <4> QED BY <1>3, <2>3, <4>2, OneCall
      <3>3. calls[e].cmd \notin OfStart
        BY <1>3, <3>2, Callers
      <3>4. list \in Seq(Lids)
        BY TypeParts
      <3>5. CASE Accepts(calls[e]) /\ calls[e].cmd \in {"stop", "reset"}
        <4>1. engine'.pubs = {} /\ engine'.conf = {} /\ ~engine'.running
          BY <1>4, <3>5, PublishersAfter
        <4> QED BY <2>1, <3>1, <3>4, <4>1, PhaseEmptied
      <3>6. CASE ~(Accepts(calls[e]) /\ calls[e].cmd \in {"stop", "reset"})
        <4>1. /\ engine'.pubs = engine.pubs /\ engine'.conf = engine.conf
              /\ engine'.running = engine.running /\ engine'.live = engine.live
          BY <1>4, <3>3, <3>6 DEF After, TypeInv, Engines, OfStart
        <4> QED BY <2>1, <3>1, <4>1, PhaseStays
      <3> QED BY <3>5, <3>6
    <2> QED BY <2>2, <2>3
  <1> QED BY <1>5, <1>6, <1>7, <1>8, <1>9

-----------------------------------------------------------------------------
(* A start begins.                                                         *)
LEMMA AloneStarted ==
    ASSUME TypeInv, QueueInv, AloneInv, QueueInv', NEW h \in BOOLEAN, Start(h)
    PROVE  AloneInv'
  <1> SUFFICES ASSUME Alone'
               PROVE  (Orderly /\ Unseen /\ StopsAhead /\ Phases /\ Transmitted)'
    BY DEF AloneInv
  <1>0. /\ "stop" \in Tasks /\ "load" \in Tasks /\ "gone" \notin Tasks /\ Starters \subseteq Tasks
        /\ \A s \in Starters : s # "stop" /\ s # "load" /\ "open" \in LabelsOf(s)
    BY NamesDiffer DEF Others, StartLabels
  <1>1. /\ Starting = {} /\ dropped' = dropped /\ engine' = engine /\ ~isRunning /\ isRunning' = isRunning
        /\ Alone \/ (~engine.running /\ calls = <<>>)
    BY TypeParts DEF Start, Alone, run
  <1>2. Starters \ Starting # {}
    BY DEF Start, Starting
  <1>3. PICK s \in Starters : Begin(s, "open", h)
    BY <1>2 DEF Start
  <1>4. Waits(s, "open", 0, 0, 0, 0)
    BY <1>0, <1>3, BeginWaits
  <1>5. /\ task'[s].at = "open" /\ \A u \in Tasks : u # s => task'[u] = task[u]
        /\ task'["stop"] = task["stop"] /\ task'["load"] = task["load"]
    BY <1>0, <1>4 DEF Waits
  <1> DEFINE c == NewCall(s, CommandOf("open"), 0)
  <1>6. c.by = s /\ c.cmd = "open" /\ Moves(0, 1, c)
    BY <1>4, CallMade DEF Waits, CommandOf
  <1> HIDE DEF c
  <1>7. /\ DOMAIN calls \subseteq Nat
        /\ \A i \in DOMAIN calls' : (i \in DOMAIN calls /\ calls'[i] = calls[i]) \/ calls'[i] = c
        /\ \E i \in DOMAIN calls' : calls'[i] = c /\ \A j \in DOMAIN calls : j < i
        /\ \A j \in DOMAIN calls : j \in DOMAIN calls' /\ calls'[j] = calls[j]
    <2>1. DOMAIN calls \subseteq Nat \ {0} /\ DOMAIN calls' \subseteq Nat \ {0}
      BY <1>6, MovesOn
    <2>2. \A j \in DOMAIN calls : j > 0 /\ j - 0 = j
      BY <2>1
    <2>3. \A i \in DOMAIN calls' : i + 0 = i
      BY <2>1
    <2>4. \A i \in DOMAIN calls' : (i \in DOMAIN calls /\ calls'[i] = calls[i]) \/ calls'[i] = c
      BY <1>6, <2>3, MovesOn
    <2>5. \A j \in DOMAIN calls : j \in DOMAIN calls' /\ calls'[j] = calls[j]
      BY <1>6, <2>2, MovesOn
    <2>6. \E i \in DOMAIN calls' : calls'[i] = c /\ \A j \in DOMAIN calls : j - 0 < i
      BY <1>6, MovesOn
    <2> QED BY <2>1, <2>2, <2>4, <2>5, <2>6
  <1>8. /\ \A k \in DOMAIN calls : calls[k].by # "gone"
        /\ task["load"].at = "idle"
        /\ engine.running => Alone /\ Unseen
    <2>1. CASE Alone
      BY <2>1 DEF AloneInv, Orderly
    <2>2. CASE ~engine.running /\ calls = <<>>
      <3>1. DOMAIN calls = {}
        BY <2>2, EmptySeq
      <3> QED BY <1>0, <2>2, <3>1 DEF QueueInv
    <2> QED BY <1>1, <2>1, <2>2
  <1>9. \A r \in Starting' : r = s
    BY <1>0, <1>1, <1>5 DEF Starting
  <1>10. Orderly'
    BY <1>0, <1>1, <1>5, <1>6, <1>7, <1>8, <1>9 DEF Orderly
  <1>11. Unseen'
    BY <1>1, <1>7, <1>8 DEF Unseen
  <1>12. StopsAhead'
    <2> SUFFICES ASSUME task["stop"].at # "idle"
                 PROVE  StopAhead(s)'
      BY <1>5, <1>9 DEF StopsAhead
    <2>1. PICK j \in DOMAIN calls : calls[j].by = "stop"
      BY <1>0 DEF QueueInv
    <2>2. PICK i \in DOMAIN calls' : calls'[i] = c /\ j < i
      BY <1>7
    <2>3. task["stop"].at \in {"stop", "gstop"}
      BY <1>0, NamesDiffer DEF TypeInv
    <2>4. j \in DOMAIN calls' /\ calls'[j].by = "stop" /\ calls'[i].by = s
      BY <1>6, <1>7, <2>1, <2>2
    <2> QED BY <1>5, <2>2, <2>3, <2>4 DEF StopAhead
  <1>13. Phases'
    <2> SUFFICES ASSUME NEW k \in DOMAIN calls', calls'[k].by \in Starters
                 PROVE  calls'[k].cmd = "open"
      BY DEF Phases, Phase
    <2>1. calls'[k].by # "gone" /\ calls'[k].by \in Tasks
      BY <1>0
    <2>2. task'[calls'[k].by].at # "idle" /\ calls'[k].cmd = CommandOf(task'[calls'[k].by].at)
      BY <2>1 DEF QueueInv
    <2>3. calls'[k].by = s
      BY <1>9, <2>2 DEF Starting
    <2> QED BY <1>5, <2>2, <2>3 DEF CommandOf
  <1>14. Transmitted'
    BY <1>1 DEF Transmitted
  <1> QED BY <1>10, <1>11, <1>12, <1>13, <1>14

-----------------------------------------------------------------------------
(* A start goes on.                                                        *)
\* A start that is answered, and no other one.
OnlyStart(s) ==
    /\ s \in Starting /\ 1 \in DOMAIN calls /\ calls[1].by = s
    /\ list' = list /\ engine' = engine /\ list \in Seq(Lids)
    /\ \A r \in Starters : r # s => task'[r].at = "idle"

\* Its next call is the only one of a start.
LEMMA OneAsks ==
    ASSUME TypeInv, QueueInv, QueueInv', NEW s \in Starters, OnlyStart(s)
    PROVE  /\ Leaves(s) => Phases'
           /\ \A label, p, i, arg :
                /\ Waits(s, label, p, i, arg, 1)
                /\ \A w, c, b : /\ w.at = label /\ w.pub = p /\ w.i = i /\ b = bid'
                                /\ c.cmd = CommandOf(label) /\ c.arg = arg /\ c.res = "none"
                                => Phase(w, c, list, b, engine)
                => Phases'
  <1>0. s # "gone" /\ s \in Tasks /\ "gone" \notin Starters
    BY NamesDiffer
  <1>1. \A k \in DOMAIN calls' : calls'[k].by \in Starters => calls'[k].by = s /\ task'[s].at # "idle"
    BY <1>0 DEF QueueInv, OnlyStart
  <1>2. Leaves(s) => Phases'
    BY <1>1, IdleFits DEF Leaves, Phases
  <1>3. ASSUME NEW label, NEW p, NEW i, NEW arg, Waits(s, label, p, i, arg, 1),
               NEW k \in DOMAIN calls', calls'[k].by \in Starters
        PROVE  calls'[k] = NewCall(s, CommandOf(label), arg)
    <2> DEFINE c == NewCall(s, CommandOf(label), arg)
    <2>1. Moves(1, 1, c)
      BY <1>3 DEF Waits
    <2> HIDE DEF c
    <2>2. \/ k + 1 \in DOMAIN calls /\ calls'[k] = calls[k + 1]
          \/ calls'[k] = c
      BY <2>1, MovesOn
    <2>3. k + 1 # 1
      BY <2>1, MovesOn
    <2>4. k + 1 \in DOMAIN calls => calls[k + 1].by # s
      BY <1>0, <2>3, OneCall DEF OnlyStart
    <2> QED BY <1>1, <1>3, <2>2, <2>4 DEF c
  <1>4. ASSUME NEW label, NEW p, NEW i, NEW arg, Waits(s, label, p, i, arg, 1),
               \A w, c, b : /\ w.at = label /\ w.pub = p /\ w.i = i /\ b = bid'
                            /\ c.cmd = CommandOf(label) /\ c.arg = arg /\ c.res = "none"
                            => Phase(w, c, list, b, engine)
        PROVE  Phases'
    <2> SUFFICES ASSUME NEW k \in DOMAIN calls', calls'[k].by \in Starters
                 PROVE  Phase(task'[calls'[k].by], calls'[k], list, bid', engine)
      BY DEF Phases, OnlyStart
    <2>1. calls'[k] = NewCall(s, CommandOf(label), arg) /\ calls'[k].by = s
      BY <1>1, <1>3, <1>4
    <2>2. calls'[k].cmd = CommandOf(label) /\ calls'[k].arg = arg /\ calls'[k].res = "none"
      BY <2>1, CallMade
    <2>3. task'[s].at = label /\ task'[s].pub = p /\ task'[s].i = i
      BY <1>4 DEF Waits
    <2> QED BY <1>4, <2>1, <2>2, <2>3
  <1> QED BY <1>2, <1>4

\* Publisher i is configured, or the run started.
LEMMA ConfPhases ==
    ASSUME TypeInv, QueueInv, QueueInv', NEW s \in Starters, OnlyStart(s),
           NEW i \in Nat, ToConf(s, i),
           i \in 1 .. Len(list) =>
              \/ engine.pubs = All(list, bid') /\ engine.conf = Numbers(list, bid', i - 1)
              \/ engine.conf = {} /\ bid'[list[i]] \notin engine.pubs,
           i > Len(list) => engine.conf \in {All(list, bid'), {}}
    PROVE  Phases'
  <1>1. CASE i \in 1 .. Len(list) /\ Waits(s, "conf", list[i], i, bid'[list[i]], 1)
    <2>1. ASSUME NEW w, NEW c, NEW b, w.at = "conf", w.pub = list[i], w.i = i, b = bid',
                 c.cmd = CommandOf("conf"), c.arg = bid'[list[i]], c.res = "none"
          PROVE  Phase(w, c, list, b, engine)
      <3>1. c.cmd = "conf"
        BY <2>1 DEF CommandOf
      <3>2. ConfPhase(w, c, list, b, engine)
        BY <1>1, <2>1 DEF ConfPhase, OnList
      <3> QED BY <3>1, <3>2 DEF Phase
    <2> QED BY <1>1, <2>1, OneAsks
  <1>2. CASE i > Len(list) /\ Waits(s, "start", 0, 0, 0, 1)
    <2>1. ASSUME NEW w, NEW c, NEW b, w.at = "start", w.pub = 0, w.i = 0, b = bid',
                 c.cmd = CommandOf("start"), c.arg = 0, c.res = "none"
          PROVE  Phase(w, c, list, b, engine)
      BY <1>2, <2>1 DEF Phase, CommandOf
    <2> QED BY <1>2, <2>1, OneAsks
  <1> QED BY <1>1, <1>2 DEF ToConf

\* Publisher i is added, or the first one configured.
LEMMA AddPhases ==
    ASSUME TypeInv, QueueInv, QueueInv', NEW s \in Starters, OnlyStart(s),
           NEW i \in Nat, ToAdd(s, i), engine.conf = {},
           i \in 1 .. Len(list) =>
              \/ engine.pubs = Numbers(list, bid', i - 1)
              \/ i > 1 /\ bid'[list[1]] \notin engine.pubs,
           i > Len(list) /\ 1 \in 1 .. Len(list) =>
              engine.pubs = All(list, bid') \/ bid'[list[1]] \notin engine.pubs
    PROVE  Phases'
  <1>1. CASE i \in 1 .. Len(list) /\ Waits(s, "add", list[i], i, 0, 1)
    <2>1. ASSUME NEW w, NEW c, NEW b, w.at = "add", w.pub = list[i], w.i = i, b = bid',
                 c.cmd = CommandOf("add"), c.arg = 0, c.res = "none"
          PROVE  Phase(w, c, list, b, engine)
      <3>1. c.cmd = "add"
        BY <2>1 DEF CommandOf
      <3>2. AddPhase(w, c, list, b, engine)
        BY <1>1, <2>1 DEF AddPhase, OnList
      <3> QED BY <3>1, <3>2 DEF Phase
    <2> QED BY <1>1, <2>1, OneAsks
  <1>2. CASE i > Len(list) /\ ToConf(s, 1)
    <2>1. 1 - 1 = 0 /\ 1 \in Nat
      OBVIOUS
    <2>2. list \in Seq(Lids)
      BY DEF OnlyStart
    <2>3. Numbers(list, bid', 0) = {}
      BY <2>2, NumbersGrow
    <2> QED BY <1>2, <2>1, <2>3, ConfPhases
  <1> QED BY <1>1, <1>2 DEF ToAdd

LEMMA PhaseGoesOn ==
    ASSUME TypeInv, QueueInv, IdsInv, QueueInv', NEW s \in Starters, StartStep(s), OnlyStart(s),
           Phase(task[s], calls[1], list, bid, engine)
    PROVE  Phases'
  <1> DEFINE w == task[s]
             a == calls[1]
  <1>0. s \in Tasks /\ Len(list) \in Nat /\ bid \in [Lids -> {0} \union Ids] /\ list \in Seq(Lids)
        /\ Distinct(list)
    BY NamesDiffer, TypeParts DEF IdsInv, Distinct
  <1>1. StartGoesOn(s)
    BY StartsGoOn
  <1>2. ASSUME NEW before, Answered(s, before)
        PROVE  /\ w.at = before /\ a.cmd = CommandOf(before) /\ (Ok => a.res = "ok")
               /\ a.res \in {"ok", "rejected"}
    BY <1>0, <1>2, OldestAnswer DEF Ok
  <1>3. ASSUME NEW label \in {"clear", "rollback"}, Waits(s, label, 0, 0, 0, 1)
        PROVE  Phases'
    <2>1. ASSUME NEW v, NEW c, NEW b, v.at = label, v.pub = 0, v.i = 0, b = bid',
                 c.cmd = CommandOf(label), c.arg = 0, c.res = "none"
          PROVE  Phase(v, c, list, b, engine)
      BY <1>3, <2>1 DEF Phase, CommandOf
    <2> QED BY <1>3, <2>1, OneAsks
  <1>4. ASSUME NEW label \in {"side", "goose"}, NEW arg, Waits(s, label, w.pub, w.i, arg, 1),
               AsidePhase(w, list, bid, engine), bid' = bid
        PROVE  Phases'
    <2>1. ASSUME NEW v, NEW c, NEW b, v.at = label, v.pub = w.pub, v.i = w.i, b = bid',
                 c.cmd = CommandOf(label), c.arg = arg, c.res = "none"
          PROVE  Phase(v, c, list, b, engine)
      <3>1. c.cmd = label
        BY <1>4, <2>1 DEF CommandOf
      <3>2. AsidePhase(v, list, b, engine)
        BY <1>4, <2>1 DEF AsidePhase, OnList
      <3> QED BY <1>4, <3>1, <3>2 DEF Phase
    <2> QED BY <1>4, <2>1, OneAsks
  <1>5. CASE Answered(s, "clear") /\ bid' = bid /\ Ok /\ ToAdd(s, 1)
    <2>1. Bare(engine)
      BY <1>2, <1>5 DEF Phase, CommandOf
    <2>2. Numbers(list, bid', 1 - 1) = {}
      BY <1>0, NumbersGrow
    <2>3. engine.conf = {} /\ engine.pubs = {} /\ 1 \in Nat
      BY <2>1 DEF Bare
    <2>4. ~(1 > Len(list) /\ 1 \in 1 .. Len(list))
      BY <1>0
    <2> QED BY <1>5, <2>2, <2>3, <2>4, AddPhases
  <1>6. CASE /\ Answered(s, "add") /\ Ok /\ w.pub \in Lids /\ Added(a)
             /\ bid' = [bid EXCEPT ![w.pub] = a.value]
             /\ ToAdd(s, w.i + 1)
    <2>1. a.cmd = "add" /\ a.res = "ok"
      BY <1>6 DEF Added
    <2>2. AddPhase(w, a, list, bid, engine)
      BY <2>1 DEF Phase
    <2>3. w.i \in 1 .. Len(list) /\ w.pub = list[w.i] /\ engine.conf = {}
      BY <2>2 DEF AddPhase, OnList
    <2> DEFINE n == w.i
    <2>4. /\ Numbers(list, bid', n) = Numbers(list, bid, n - 1) \union {a.value}
          /\ bid'[list[n]] = a.value /\ (n # 1 => bid'[list[1]] = bid[list[1]])
      <3>1. PICK v, b2, m : v = a.value /\ b2 = bid' /\ m = n
        OBVIOUS
      <3>2. Assigned(b2, bid, list[m], v) /\ m \in 1 .. Len(list)
        BY <1>0, <1>6, <2>3, <3>1 DEF Assigned
      <3>3. /\ Numbers(list, b2, m) = Numbers(list, bid, m - 1) \union {v}
            /\ b2[list[m]] = v /\ (m # 1 => b2[list[1]] = bid[list[1]])
        BY ZenonT(30), <1>0, <3>2, NumbersAssigned
      <3> QED BY <3>1, <3>3
    <2>5. engine.pubs = Numbers(list, bid', n) \/ bid'[list[1]] \notin engine.pubs
      BY <2>1, <2>2, <2>4 DEF AddPhase
    <2> HIDE DEF n
    <2>6. n \in 1 .. Len(list) /\ n + 1 \in Nat /\ (n + 1) - 1 = n /\ n + 1 > 1
      BY <1>0, <2>3 DEF n
    <2>7. n + 1 > Len(list) => n = Len(list)
      BY <1>0, <2>6
    <2>8. n + 1 > Len(list) => engine.pubs = All(list, bid') \/ bid'[list[1]] \notin engine.pubs
      BY <2>5, <2>7 DEF All
    <2>9. \/ engine.pubs = Numbers(list, bid', (n + 1) - 1)
          \/ n + 1 > 1 /\ bid'[list[1]] \notin engine.pubs
      BY <2>5, <2>6
    <2>10. ToAdd(s, n + 1)
      BY <1>6 DEF n
    <2> QED BY <2>3, <2>6, <2>8, <2>9, <2>10, AddPhases
  <1>7. CASE /\ Answered(s, "conf") /\ Ok /\ bid' = bid /\ w.pub \in Lids
             /\ Waits(s, "side", w.pub, w.i, bid[w.pub], 1)
    <2>1. a.cmd = "conf" /\ a.res = "ok"
      BY <1>2, <1>7 DEF CommandOf
    <2>2. AsidePhase(w, list, bid, engine)
      BY <2>1 DEF Phase, ConfPhase, AsidePhase
    <2> QED BY <1>4, <1>7, <2>2
  <1>8. ASSUME Answered(s, "side") \/ Answered(s, "goose"), bid' = bid
        PROVE  AsidePhase(w, list, bid, engine)
    <2>1. a.cmd \in {"side", "goose"}
      BY <1>2, <1>8 DEF CommandOf
    <2> QED BY <2>1 DEF Phase
  <1>9. CASE /\ Answered(s, "side") /\ bid' = bid /\ w.pub \in Lids
             /\ Waits(s, "goose", w.pub, w.i, bid[w.pub], 1)
    BY <1>4, <1>8, <1>9
  <1>10. CASE /\ Answered(s, "side") \/ Answered(s, "goose")
              /\ bid' = bid /\ ToConf(s, w.i + 1)
    <2>1. AsidePhase(w, list, bid, engine)
      BY <1>8, <1>10
    <2> DEFINE n == w.i
    <2>2. /\ n \in 1 .. Len(list)
          /\ (engine.pubs = All(list, bid') /\ engine.conf = Numbers(list, bid', n)) \/ Bare(engine)
      BY <1>10, <2>1 DEF AsidePhase, OnList
    <2> HIDE DEF n
    <2>3. n + 1 \in Nat /\ (n + 1) - 1 = n /\ (n + 1 > Len(list) => n = Len(list))
      BY <1>0, <2>2
    <2>4. \/ engine.pubs = All(list, bid') /\ engine.conf = Numbers(list, bid', (n + 1) - 1)
          \/ engine.conf = {} /\ bid'[list[n + 1]] \notin engine.pubs
      BY <2>2, <2>3 DEF Bare
    <2>5. n + 1 > Len(list) => engine.conf \in {All(list, bid'), {}}
      BY <2>2, <2>3 DEF Bare, All
    <2>6. ToConf(s, n + 1)
      BY <1>10 DEF n
    <2> QED BY <2>3, <2>4, <2>5, <2>6, ConfPhases
  <1>11. ASSUME Leaves(s)
         PROVE  Phases'
    BY <1>11, OneAsks
  <1> QED BY <1>1, <1>3, <1>5, <1>6, <1>7, <1>9, <1>10, <1>11 DEF StartGoesOn

LEMMA AloneGoesOn ==
    ASSUME TypeInv, QueueInv, IdsInv, AloneInv, TypeInv', QueueInv', NEW s \in Starters, StartStep(s)
    PROVE  AloneInv'
  <1> SUFFICES ASSUME Alone'
               PROVE  (Orderly /\ Unseen /\ StopsAhead /\ Phases /\ Transmitted)'
    BY DEF AloneInv
  <1>0. /\ {"stop", "load"} \subseteq Tasks /\ "gone" \notin Tasks /\ s \in Tasks /\ s \notin {"stop", "load"}
        /\ Starters \subseteq Tasks
    BY NamesDiffer DEF Others
  <1>1. /\ list' = list /\ engine' = engine /\ Alone
    BY DEF StartStep, panel, user, Alone
  <1>2. Orderly /\ Unseen /\ StopsAhead /\ Phases /\ Transmitted
    BY <1>1 DEF AloneInv
  <1>3. StartGoesOn(s)
    BY StartsGoOn
  <1>4. PICK before : Answered(s, before)
    BY <1>3 DEF StartGoesOn
  <1>5. /\ 1 \in DOMAIN calls /\ calls[1].by = s /\ task[s].at = before /\ before # "idle"
        /\ calls[1].cmd = CommandOf(before) /\ Head(calls) = calls[1]
    BY <1>0, <1>4, OldestAnswer
  <1>6. s \in Starting /\ ~isRunning /\ \A r \in Starting : r = s
    BY <1>2, <1>5 DEF Starting, Orderly
  <1>7. task'["stop"] = task["stop"] /\ task'["load"] = task["load"]
        /\ \A u \in Tasks : u # s => task'[u] = task[u]
    BY <1>0, StartsActAlone
  <1>8. \A r \in Starters : r # s => task'[r].at = "idle"
    BY <1>0, <1>6, <1>7 DEF Starting
  <1>9. \A r \in Starting' : r = s
    BY <1>8 DEF Starting
  <1>10. OnlyStart(s)
    BY <1>1, <1>5, <1>6, <1>8, TypeParts DEF OnlyStart
  <1>11. Phase(task[s], calls[1], list, bid, engine)
    BY <1>2, <1>5 DEF Phases
  <1>12. Phases'
    BY <1>10, <1>11, PhaseGoesOn
  <1>13. PICK n, c : Carried(1, n, c)
    BY StartsCarry
  <1>14. /\ DOMAIN calls \subseteq Nat \ {0} /\ DOMAIN calls' \subseteq Nat \ {0} /\ n \in {0, 1}
         /\ n = 1 => c.by = s
         /\ \A j \in DOMAIN calls : j > 1 => j - 1 \in DOMAIN calls' /\ calls'[j - 1] = calls[j]
         /\ \A i \in DOMAIN calls' :
               \/ i + 1 \in DOMAIN calls /\ calls'[i] = calls[i + 1]
               \/ n = 1 /\ calls'[i] = c
         /\ n = 1 => \E i \in DOMAIN calls' : calls'[i] = c /\ \A j \in DOMAIN calls : j - 1 < i
    <2>1. Moves(1, n, c) /\ (n = 1 => c.by = s)
      BY <1>5, <1>13 DEF Carried, Expected
    <2> QED BY <2>1, MovesOn
  \* Stop is over, or its second call is behind the first one of the start.
  <1>15. task["stop"].at # "idle" => task["stop"].at = "gstop" /\ before = "open"
    <2> SUFFICES ASSUME task["stop"].at # "idle", StopAhead(s)
                 PROVE  task["stop"].at = "gstop" /\ before = "open"
      BY <1>2, <1>6 DEF StopsAhead
    <2>1. \A j, k \in DOMAIN calls : j < k => calls[k].by # s
      <3> SUFFICES ASSUME NEW j \in DOMAIN calls, NEW k \in DOMAIN calls, j < k, calls[k].by = s
                   PROVE  FALSE
        OBVIOUS
      <3>1. k = 1
        BY <1>0, <1>5, OneCall
      <3> QED BY <1>14, <3>1
    <2> QED BY <1>5, <2>1 DEF StopAhead
  \* The answer that starts a run is shown.
  <1>16. isRunning' = isRunning
            \/ (before = "start" /\ isRunning' = TRUE /\ task'[s] = Idle /\ Begun(calls[1]))
    <2>1. CASE StartDone(s)
      <3>1. before = "start"
        BY <1>4, <1>5, <2>1 DEF StartDone, Answered
      <3>2. CASE Ok
        <4>1. isRunning' = TRUE /\ Return(s) /\ calls[1].res = "ok"
          BY <1>5, <2>1, <3>2 DEF StartDone, Ok
        <4>2. task'[s] = Idle
          BY <1>0, <4>1 DEF Return, TypeInv
        <4> QED BY <1>5, <3>1, <4>1, <4>2 DEF Begun, CommandOf
      <3>3. CASE ~Ok
        BY <2>1, <3>3 DEF StartDone, StartReturns
      <3> QED BY <3>2, <3>3
    <2>2. CASE ~StartDone(s)
      BY <2>2 DEF StartStep, StartOpened, StartCleared, StartAdded, StartConfigured, StartSideDone,
         StartGooseDone, StartRolledBack, StartReturns, run
    <2> QED BY <2>1, <2>2
  <1>17. Begun(calls[1]) => isRunning' = TRUE
    <2> SUFFICES ASSUME Begun(calls[1]) PROVE isRunning' = TRUE
      OBVIOUS
    <2>1. before = "start" /\ Ok
      BY <1>5 DEF Begun, CommandOf, Ok
    <2>2. StartDone(s)
      BY <1>5, <2>1 DEF StartStep, StartOpened, StartCleared, StartAdded, StartConfigured,
         StartSideDone, StartGooseDone, StartRolledBack, Answered
    <2> QED BY <2>1, <2>2 DEF StartDone
  <1>18. Orderly'
    <2>1. \A k \in DOMAIN calls' : calls'[k].by # "gone"
      BY <1>0, <1>2, <1>14 DEF Orderly
    <2>2. Starting' # {} => ~isRunning'
      BY <1>6, <1>9, <1>16, IdleFits DEF Starting
    <2>3. task'["stop"].at = "gstop" => ~isRunning'
      BY <1>2, <1>7, <1>15, <1>16 DEF Orderly
    <2> QED BY <1>2, <1>7, <1>9, <2>1, <2>2, <2>3 DEF Orderly
  <1>19. Unseen'
    <2> SUFFICES ASSUME engine.running, ~isRunning'
                 PROVE  \E k \in DOMAIN calls' : Begun(calls'[k])
      BY <1>1 DEF Unseen, Begun
    <2>1. PICK j \in DOMAIN calls : Begun(calls[j])
      BY <1>2, <1>6 DEF Unseen
    <2>2. j # 1
      BY <1>17, <2>1
    <2>3. j > 1
      BY <1>14, <2>2
    <2> QED BY <1>14, <2>1, <2>3
  <1>20. StopsAhead'
    <2> SUFFICES ASSUME s \in Starting', task["stop"].at # "idle"
                 PROVE  StopAhead(s)'
      BY <1>7, <1>9 DEF StopsAhead
    <2>1. task["stop"].at = "gstop" /\ before = "open"
      BY <1>15
    <2>2. Answered(s, "open")
      BY <1>4, <2>1
    <2>3. task'[s].at # "idle"
      BY DEF Starting
    <2>4. Waits(s, "clear", 0, 0, 0, 1)
      <3>1. ~Leaves(s)
        BY <2>3, IdleFits DEF Leaves
      <3>2. task[s].at = "open"
        BY <1>5, <2>1
      <3> QED BY <1>3, <3>1, <3>2 DEF StartGoesOn, Answered
    <2>5. task'[s].at = "clear"
      BY <2>4 DEF Waits
    <2>6. PICK k \in DOMAIN calls' : calls'[k].by = s
      BY <1>0, <2>3 DEF QueueInv
    <2>7. PICK j \in DOMAIN calls' : calls'[j].by = "stop"
      BY <1>0, <1>7, <2>1 DEF QueueInv
    <2>8. calls'[k] = c /\ n = 1
      <3> SUFFICES ASSUME k + 1 \in DOMAIN calls, calls[k + 1].by = s
                   PROVE  FALSE
        BY <1>14, <2>6
      <3>1. k + 1 = 1
        BY <1>0, <1>5, OneCall
      <3> QED BY <1>14, <3>1
    <2>9. j < k
      <3>1. PICK i \in DOMAIN calls' : calls'[i] = c /\ \A m \in DOMAIN calls : m - 1 < i
        BY <1>14, <2>8
      <3>2. calls'[i].by = calls'[k].by /\ calls'[k].by # "gone"
        BY <1>0, <2>6, <2>8, <3>1
      <3>3. i = k
        BY <3>2 DEF QueueInv
      <3>4. j + 1 \in DOMAIN calls
        BY <1>0, <1>14, <2>7
      <3>5. (j + 1) - 1 < i
        BY <3>1, <3>4
      <3> QED BY <1>14, <3>3, <3>5
    <2> QED BY <1>7, <2>1, <2>5, <2>6, <2>7, <2>9 DEF StopAhead
  <1>21. Transmitted'
    <2> SUFFICES ASSUME isRunning', engine.running
                 PROVE  engine.live = All(list, bid')
      BY <1>1 DEF Transmitted
    <2>1. before = "start" /\ Begun(calls[1])
      BY <1>6, <1>16
    <2>2. bid' = bid
      BY <1>3, <1>5, <2>1 DEF StartGoesOn, Answered
    <2>3. engine.live = All(list, bid)
      BY <1>11, <2>1 DEF Phase, Begun
    <2> QED BY <2>2, <2>3
  <1> QED BY <1>12, <1>18, <1>19, <1>20, <1>21

-----------------------------------------------------------------------------
(* What goes on beside a start.                                            *)
Aside ==
    /\ \A s \in Starters : task'[s] = task[s]
    /\ Starting # {} \/ isRunning => list' = list
    /\ bid' = bid \/ (isRunning /\ ~isRunning') \/ Answered("stop", "gstop")
    /\ isRunning' => isRunning
    /\ isRunning /\ ~isRunning' => 1 \in DOMAIN calls /\ Ended(calls[1])
    /\ task'["load"].at = "idle"
    /\ task'["stop"].at # "idle" =>
         \/ task'["stop"] = task["stop"]
         \/ isRunning
         \/ task["stop"].at = "stop" /\ task'["stop"].at = "gstop"
    /\ task'["stop"].at = "gstop" => ~isRunning'
    /\ engine' = engine \/ engine' = Stopped(engine)

LEMMA AsideActs ==
    ASSUME TypeInv, QueueInv, Alone, Orderly, Alone', [Next]_vars, ~Execute, ~Drop, ~Loading,
           \A s \in Starters : ~StartStep(s), \A h \in BOOLEAN : ~Start(h)
    PROVE  Aside
  <1>0. /\ Others \subseteq Tasks /\ Starters \subseteq Tasks /\ task \in [Tasks -> Works]
        /\ \A s \in Starters : s \notin Others
        /\ \A t \in {"stop", "poll", "back", "hello", "load", "reset"} : t \in Tasks /\ t \in Others
        /\ task["load"].at = "idle"
        /\ task["stop"].at = "gstop" => ~isRunning
        /\ isRunning \in BOOLEAN /\ Starting # {} => ~isRunning
    BY NamesDiffer, TypeParts DEF TypeInv, Others, Orderly
  <1>1. ASSUME task' = task, isRunning' = isRunning, bid' = bid, list' = list,
               engine' = engine \/ engine' = Stopped(engine)
        PROVE  Aside
    BY <1>0, <1>1 DEF Aside
  <1>2. ASSUME NEW t \in {"poll", "back", "hello", "reset"}, NEW w, task' = [task EXCEPT ![t] = w],
               list' = list, engine' = engine,
               (isRunning' = isRunning /\ bid' = bid)
                  \/ (isRunning' = FALSE /\ (bid' = bid \/ isRunning) /\ 1 \in DOMAIN calls /\ Ended(calls[1]))
        PROVE  Aside
    <2>1. /\ \A s \in Starters : task'[s] = task[s]
          /\ task'["stop"] = task["stop"] /\ task'["load"] = task["load"]
      BY <1>0, <1>2
    <2> QED BY <1>0, <1>2, <2>1 DEF Aside
  <1>3. ASSUME NEW t \in Tasks, Answered(t, "running?"), SaysStopped
        PROVE  1 \in DOMAIN calls /\ Ended(calls[1])
    <2>1. /\ 1 \in DOMAIN calls /\ Head(calls) = calls[1] /\ calls[1].cmd = "running?"
      BY <1>3, OldestAnswer DEF CommandOf
    <2> QED BY <1>3, <2>1 DEF SaysStopped, Ok, Result, Ended
  <1>4. CASE UNCHANGED vars \/ EngineEnds \/ StartRefused \/ HeaderTick \/ NobodyWaits
    <2>1. UNCHANGED <<task, isRunning, bid, list>> /\ (engine' = engine \/ engine' = Stopped(engine))
      BY <1>4 DEF vars, panel, run, EngineEnds, StartRefused, HeaderTick, NobodyWaits
    <2> QED BY <1>1, <2>1
  <1>5. CASE AddPublisher \/ (\E idx \in DOMAIN list : RemovePublisher(idx))
    <2>1. /\ UNCHANGED <<task, isRunning, bid, engine>> /\ ~isRunning
          /\ disturbed' = (disturbed \/ Starting # {})
      BY <1>5 DEF AddPublisher, RemovePublisher, run
    <2>2. Starting = {}
      BY <2>1 DEF Alone
    <2> QED BY <1>0, <2>1, <2>2 DEF Aside
  <1>6. CASE StopAnswered
    <2>1. /\ Answered("stop", "stop") /\ list' = list /\ engine' = engine
          /\ Await("stop", "gstop", 0, 0, 0)
      BY <1>6 DEF StopAnswered, AfterStop, panel
    <2>2. /\ 1 \in DOMAIN calls /\ Head(calls) = calls[1] /\ calls[1].cmd = "stop"
          /\ calls[1].res = "ok" /\ task["stop"].at = "stop"
      <3>1. /\ 1 \in DOMAIN calls /\ Head(calls) = calls[1] /\ calls[1].cmd = "stop"
            /\ calls[1].res \in {"ok", "rejected"} /\ task["stop"].at = "stop"
        BY <1>0, <2>1, OldestAnswer DEF CommandOf
      <3> QED BY <3>1 DEF QueueInv, Alone
    <2>3. isRunning' = FALSE /\ (bid' = bid \/ isRunning) /\ Ended(calls[1])
      BY <1>6, <2>2 DEF StopAnswered, OnPublishingStopped, Ok, Ended
    <2>4. /\ \A s \in Starters : task'[s] = task[s]
          /\ task'["load"] = task["load"] /\ task'["stop"].at = "gstop"
      BY <1>0, <2>1 DEF Await, Works
    <2> QED BY <1>0, <2>1, <2>2, <2>3, <2>4 DEF Aside
  <1>7. CASE StopDone
    <2>1. /\ Answered("stop", "gstop") /\ list' = list /\ engine' = engine /\ isRunning' = FALSE
          /\ task' = [task EXCEPT !["stop"] = Idle] /\ task["stop"].at = "gstop"
      BY <1>7 DEF StopDone, Return, panel, Answered
    <2>2. /\ \A s \in Starters : task'[s] = task[s]
          /\ task'["load"] = task["load"] /\ task'["stop"].at = "idle"
      BY <1>0, <2>1, IdleFits
    <2> QED BY <1>0, <2>1, <2>2 DEF Aside
  <1>8. CASE PollAnswered
    <2>1. /\ Answered("poll", "running?") /\ list' = list /\ engine' = engine
          /\ task' = [task EXCEPT !["poll"] = Idle]
          /\ \/ isRunning' = isRunning /\ bid' = bid
             \/ isRunning' = FALSE /\ isRunning /\ SaysStopped
      BY <1>8 DEF PollAnswered, Return, panel, EndSeen
    <2> QED BY <1>0, <1>2, <1>3, <2>1
  <1>9. CASE BackAnswered
    <2>1. /\ Answered("back", "running?") /\ list' = list /\ engine' = engine
          /\ task' = [task EXCEPT !["back"] = Idle]
          /\ \/ isRunning' = isRunning /\ bid' = bid
             \/ isRunning' = FALSE /\ (bid' = bid \/ isRunning) /\ SaysStopped
      BY <1>9 DEF BackAnswered, OnPublishingStopped, Return, panel, run
    <2> QED BY <1>0, <1>2, <1>3, <2>1
  <1>10. CASE HelloAnswered
    BY <1>2, <1>10 DEF HelloAnswered, Return, panel, run
  <1>11. CASE LoadAnswered
    BY <1>0, <1>11 DEF LoadAnswered, Answered
  <1>12. CASE ResetBackend
    BY <1>2, <1>12 DEF ResetBackend, Await, panel, run
  <1>13. CASE Reset \/ PollTick \/ BackTick
    <2>1. /\ UNCHANGED <<isRunning, bid, list, engine>>
          /\ \E t \in {"poll", "back", "reset"} : \E w : task' = [task EXCEPT ![t] = w]
      BY <1>13 DEF Reset, PollTick, BackTick, Begin, panel, run
    <2> QED BY <1>2, <2>1
  <1>14. ASSUME NEW h \in BOOLEAN, Stop(h)
         PROVE  Aside
    <2>1. /\ UNCHANGED <<isRunning, bid, list, engine>> /\ isRunning
          /\ task' = [task EXCEPT !["stop"] = [Idle EXCEPT !.at = "stop", !.viaHeader = h]]
      BY <1>14 DEF Stop, Begin, panel
    <2>2. [Idle EXCEPT !.at = "stop", !.viaHeader = h].at = "stop"
      BY DEF Idle
    <2>3. /\ \A s \in Starters : task'[s] = task[s]
          /\ task'["load"] = task["load"] /\ task'["stop"].at = "stop"
      BY <1>0, <2>1, <2>2
    <2> QED BY <1>0, <2>1, <2>3 DEF Aside
  <1> QED BY <1>4, <1>5, <1>6, <1>7, <1>8, <1>9, <1>10, <1>11, <1>12, <1>13, <1>14
        DEF Next, Handlers, UserActs, Timers, Loading

\* Its calls: the oldest one goes, or one comes, and neither is of a start.
MovesAside ==
    \E d, n, c :
       /\ Moves(d, n, c)
       /\ d = 1 => calls[1].by \notin Starters
       /\ n = 1 => c.by \in Others
       /\ d = 1 /\ calls[1].by = "stop" => task'["stop"].at # task["stop"].at

LEMMA AsideMoves ==
    ASSUME TypeInv, QueueInv, [Next]_vars, ~Execute, ~Drop, ~Loading,
           \A s \in Starters : ~StartStep(s), \A h \in BOOLEAN : ~Start(h)
    PROVE  MovesAside
  <1>0. /\ \A t \in Others : t \in Tasks /\ t \notin Starters
        /\ "running?" \in LabelsOf("poll") /\ "running?" \in LabelsOf("back")
        /\ {"stop", "gstop"} \subseteq LabelsOf("stop") /\ {"reset", "close"} \subseteq LabelsOf("reset")
        /\ "gone" \notin Starters
    BY NamesDiffer
  <1>1. ASSUME NEW t \in Others, NEW before, Answered(t, before), Return(t)
        PROVE  MovesAside
    <2>1. Leaves(t) /\ task[t].at # "idle"
      BY <1>0, <1>1, ReturnLeaves, OldestAnswer
    <2>2. Moves(1, 0, 0) /\ calls[1].by = t /\ task'[t].at = "idle"
      BY <2>1, IdleFits DEF Leaves
    <2> QED BY <1>0, <1>1, <2>1, <2>2 DEF MovesAside
  <1>2. ASSUME NEW t \in Others, NEW label \in LabelsOf(t), label # "idle", label \notin Publishing,
               Answered(t, t), Await(t, label, 0, 0, 0), label # t
        PROVE  MovesAside
    <2>1. Waits(t, label, 0, 0, 0, 1)
      BY <1>0, <1>2, AwaitWaits
    <2> DEFINE c == NewCall(t, CommandOf(label), 0)
    <2>2. Moves(1, 1, c) /\ c.by = t /\ calls[1].by = t /\ task'[t].at = label
      BY <2>1, CallMade DEF Waits
    <2> HIDE DEF c
    <2>3. task[t].at = t
      BY <1>2 DEF Answered
    <2> QED BY <1>0, <1>2, <2>2, <2>3 DEF MovesAside
  <1>3. ASSUME NEW t \in Others, NEW cmd \in LabelsOf(t), cmd \in {"open", "stop", "reset", "running?"},
               NEW h \in BOOLEAN, Begin(t, cmd, h)
        PROVE  MovesAside
    <2>1. Waits(t, cmd, 0, 0, 0, 0)
      BY <1>0, <1>3, BeginWaits
    <2> DEFINE c == NewCall(t, CommandOf(cmd), 0)
    <2>2. Moves(0, 1, c) /\ c.by = t
      BY <2>1, CallMade DEF Waits
    <2> HIDE DEF c
    <2> QED BY <1>3, <2>2 DEF MovesAside
  <1>4. CASE calls' = calls
    <2>1. Moves(0, 0, 0)
      BY <1>4, MovesNot
    <2> QED BY <2>1 DEF MovesAside
  <1>5. CASE NobodyWaits
    <2>1. calls # <<>> /\ calls[1].by = "gone" /\ calls' = Tail(calls)
      BY <1>5 DEF NobodyWaits, TypeInv
    <2>2. Moves(1, 0, 0)
      BY <2>1, MovesByTail
    <2> QED BY <1>0, <2>1, <2>2 DEF MovesAside
  <1>6. CASE UNCHANGED vars \/ EngineEnds \/ StartRefused \/ HeaderTick
              \/ AddPublisher \/ (\E idx \in DOMAIN list : RemovePublisher(idx))
    BY <1>4, <1>6 DEF vars, EngineEnds, StartRefused, HeaderTick, AddPublisher, RemovePublisher
  <1>7. CASE StopDone \/ PollAnswered \/ BackAnswered \/ HelloAnswered \/ LoadAnswered
    BY <1>1, <1>7 DEF StopDone, PollAnswered, BackAnswered, HelloAnswered, LoadAnswered, Others
  <1>8. CASE StopAnswered
    BY <1>0, <1>2, <1>8 DEF StopAnswered, AfterStop, Others, Publishing
  <1>9. CASE ResetBackend
    BY <1>0, <1>2, <1>9 DEF ResetBackend, Others, Publishing
  <1>10. CASE PollTick \/ BackTick
    BY <1>0, <1>3, <1>10 DEF PollTick, BackTick, Others
  <1>11. CASE Reset
    BY <1>0, <1>3, <1>11 DEF Reset, Others
  <1>12. ASSUME NEW h \in BOOLEAN, Stop(h)
         PROVE  MovesAside
    BY <1>0, <1>3, <1>12 DEF Stop, Others
  <1> QED BY <1>5, <1>6, <1>7, <1>8, <1>9, <1>10, <1>11, <1>12
        DEF Next, Handlers, UserActs, Timers, Loading

LEMMA AloneAside ==
    ASSUME TypeInv, QueueInv, EndInv, Alone, AloneInv, Aside, MovesAside
    PROVE  (Orderly /\ Unseen /\ StopsAhead /\ Phases /\ Transmitted)'
  <1>0. "gone" \notin Others /\ \A t \in Others : t \notin Starters
    BY NamesDiffer DEF Others
  <1>1. Orderly /\ Unseen /\ StopsAhead /\ Phases /\ Transmitted
    BY DEF AloneInv
  <1>2. PICK d, n, c :
           /\ Moves(d, n, c)
           /\ d = 1 => calls[1].by \notin Starters
           /\ n = 1 => c.by \in Others
           /\ d = 1 /\ calls[1].by = "stop" => task'["stop"].at # task["stop"].at
    BY DEF MovesAside
  <1>3. /\ d \in {0, 1} /\ DOMAIN calls \subseteq Nat \ {0} /\ DOMAIN calls' \subseteq Nat \ {0}
        /\ \A j \in DOMAIN calls :
             j > d => j - d \in DOMAIN calls' /\ calls'[j - d] = calls[j]
        /\ \A i \in DOMAIN calls' :
             \/ i + d \in DOMAIN calls /\ calls'[i] = calls[i + d]
             \/ n = 1 /\ calls'[i] = c
    BY <1>2, MovesOn
  <1>4. /\ \A s \in Starters : task'[s] = task[s]
        /\ Starting' = Starting
        /\ Starting # {} => ~isRunning /\ list' = list
    BY <1>1 DEF Aside, Starting, Orderly
  <1>5. /\ engine'.running => engine' = engine
        /\ engine'.pubs = engine.pubs /\ engine'.conf = engine.conf
        /\ engine'.running \in BOOLEAN /\ engine.running \in BOOLEAN
    BY EngineStopped DEF Aside
  <1>6. Orderly'
    <2>1. \A k \in DOMAIN calls' : calls'[k].by # "gone"
      BY <1>0, <1>1, <1>2, <1>3 DEF Orderly
    <2> QED BY <1>1, <1>4, <2>1 DEF Orderly, Aside
  <1>7. Unseen'
    <2> SUFFICES ASSUME engine'.running, ~isRunning'
                 PROVE  \E k \in DOMAIN calls' : Begun(calls'[k])
      BY DEF Unseen, Begun
    <2>1. \E j \in DOMAIN calls : j > d /\ Begun(calls[j])
      <3>1. CASE isRunning
        <4>1. 1 \in DOMAIN calls /\ Ended(calls[1])
          BY <3>1 DEF Aside
        <4>2. PICK j \in DOMAIN calls : 1 < j /\ Begun(calls[j])
          BY <1>5, <4>1 DEF EndInv
        <4> QED BY <1>3, <4>2
      <3>2. CASE ~isRunning
        <4>1. PICK j \in DOMAIN calls : Begun(calls[j])
          BY <1>1, <1>5, <3>2 DEF Unseen
        <4>2. calls[j].by \in Starters
          BY <1>1, <4>1, Callers DEF Orderly, Begun, OfStart
        <4>3. d = 1 => j # 1
          BY <1>2, <4>2
        <4> QED BY <1>3, <4>1, <4>3
      <3> QED BY <3>1, <3>2
    <2> QED BY <1>3, <2>1
  <1>8. StopsAhead'
    <2> SUFFICES ASSUME NEW s \in Starting, task'["stop"].at # "idle"
                 PROVE  StopAhead(s)'
      BY <1>4 DEF StopsAhead
    <2>1. task'[s] = task[s] /\ ~isRunning
      BY <1>4 DEF Starting
    <2>2. CASE task'["stop"] = task["stop"]
      <3>1. StopAhead(s)
        BY <1>1, <2>2 DEF StopsAhead
      <3>2. CASE task["stop"].at = "gstop" /\ task[s].at = "open"
        BY <2>1, <2>2, <3>2 DEF StopAhead
      <3>3. CASE \E j, k \in DOMAIN calls :
                   /\ j < k /\ calls[j].by = "stop" /\ calls[k].by = s
                   /\ <<task["stop"].at, task[s].at>> \in {<<"stop", "open">>, <<"gstop", "clear">>}
        <4>1. PICK j, k \in DOMAIN calls :
                   /\ j < k /\ calls[j].by = "stop" /\ calls[k].by = s
                   /\ <<task["stop"].at, task[s].at>> \in {<<"stop", "open">>, <<"gstop", "clear">>}
          BY <3>3
        <4>2. d = 1 => j # 1
          BY <1>2, <2>2, <4>1
        <4>3. j > d /\ k > d /\ j - d < k - d
          BY <1>3, <4>1, <4>2
        <4>4. /\ j - d \in DOMAIN calls' /\ calls'[j - d].by = "stop"
              /\ k - d \in DOMAIN calls' /\ calls'[k - d].by = s
          BY <1>3, <4>1, <4>3
        <4>5. <<task'["stop"].at, task'[s].at>> \in {<<"stop", "open">>, <<"gstop", "clear">>}
          BY <2>1, <2>2, <4>1
        <4> QED BY <4>3, <4>4, <4>5 DEF StopAhead
      <3> QED BY <3>1, <3>2, <3>3 DEF StopAhead
    <2>3. CASE task["stop"].at = "stop" /\ task'["stop"].at = "gstop"
      <3>1. StopAhead(s)
        BY <1>1, <2>3 DEF StopsAhead
      <3>2. task[s].at = "open"
        BY <2>3, <3>1 DEF StopAhead
      <3> QED BY <2>1, <2>3, <3>2 DEF StopAhead
    <2> QED BY <2>1, <2>2, <2>3 DEF Aside
  <1>9. Phases'
    <2> SUFFICES ASSUME NEW k \in DOMAIN calls', calls'[k].by \in Starters
                 PROVE  Phase(task'[calls'[k].by], calls'[k], list', bid', engine')
      BY DEF Phases
    <2>1. k + d \in DOMAIN calls /\ calls'[k] = calls[k + d]
      BY <1>0, <1>2, <1>3
    <2> DEFINE s == calls[k + d].by
    <2>2. /\ s \in Starting /\ s \in Starters /\ calls[k + d].cmd = CommandOf(task[s].at)
          /\ Phase(task[s], calls[k + d], list, bid, engine)
      BY <1>1, <2>1, Callers DEF Orderly, Phases
    <2>3. task'[s] = task[s] /\ list' = list /\ ~isRunning
      BY <1>4, <2>2
    <2>4. Phase(task[s], calls[k + d], list, bid, engine')
      BY <1>5, <2>2, PhaseStays
    <2>5. CASE bid' = bid
      BY <2>1, <2>3, <2>4, <2>5
    <2>6. CASE bid' # bid
      <3>1. task["stop"].at = "gstop"
        BY <2>3, <2>6 DEF Aside, Answered
      <3>2. StopAhead(s)
        BY <1>1, <2>2, <3>1 DEF StopsAhead
      <3>3. task[s].at \in {"open", "clear"}
        BY <3>1, <3>2 DEF StopAhead
      <3>4. calls[k + d].cmd \in {"open", "clear"}
        BY <2>2, <3>3 DEF CommandOf
      <3> QED BY <2>1, <2>3, <2>4, <3>4 DEF Phase
    <2> QED BY <2>5, <2>6
  <1>10. Transmitted'
    <2> SUFFICES ASSUME isRunning', engine'.running
                 PROVE  engine'.live = All(list', bid')
      BY DEF Transmitted
    <2>1. isRunning /\ engine' = engine /\ list' = list
      BY <1>5 DEF Aside
    <2>2. bid' = bid
      BY <1>1, <2>1 DEF Aside, Answered, Orderly
    <2> QED BY <1>1, <2>1, <2>2 DEF Transmitted
  <1> QED BY <1>6, <1>7, <1>8, <1>9, <1>10

-----------------------------------------------------------------------------
(* The page and the engine agree.                                          *)
LEMMA AloneBefore ==
    ASSUME TypeInv, [Next]_vars, ~Execute, ~Drop, ~Loading, \A h \in BOOLEAN : ~Start(h), Alone'
    PROVE  Alone
  <1>1. ASSUME disturbed' = disturbed, dropped' = dropped
        PROVE  Alone
    BY <1>1 DEF Alone
  <1>2. CASE Handlers
    <2>1. ASSUME NEW s \in Starters, StartStep(s)
          PROVE  disturbed' = disturbed /\ dropped' = dropped
      BY <2>1 DEF StartStep, user
    <2>2. CASE StopAnswered \/ StopDone \/ PollAnswered \/ BackAnswered \/ HelloAnswered
                 \/ LoadAnswered \/ ResetBackend \/ NobodyWaits
      <3>1. UNCHANGED user
        BY <2>2 DEF StopAnswered, StopDone, PollAnswered, BackAnswered, HelloAnswered,
           LoadAnswered, ResetBackend, NobodyWaits
      <3> QED BY <1>1, <3>1 DEF user
    <2> QED BY <1>1, <1>2, <2>1, <2>2 DEF Handlers, Loading
  <1>3. CASE AddPublisher \/ (\E idx \in DOMAIN list : RemovePublisher(idx))
    <2>1. disturbed' = (disturbed \/ Starting # {}) /\ dropped' = dropped
      BY <1>3 DEF AddPublisher, RemovePublisher
    <2> QED BY <2>1, TypeParts DEF Alone
  <1>4. CASE StartRefused \/ (\E h \in BOOLEAN : Stop(h)) \/ Reset
    <2>1. UNCHANGED <<disturbed, dropped>>
      BY <1>4 DEF StartRefused, Stop, Reset, user
    <2> QED BY <1>1, <2>1
  <1>5. CASE UNCHANGED vars \/ EngineEnds \/ Timers
    <2>1. UNCHANGED user
      BY <1>5 DEF vars, EngineEnds, Timers, PollTick, BackTick, HeaderTick
    <2> QED BY <1>1, <2>1 DEF user
  <1> QED BY <1>2, <1>3, <1>4, <1>5 DEF Next, UserActs, Loading

LEMMA AloneInit ==
    ASSUME Init
    PROVE  AloneInv
  <1>1. \A t \in Tasks : task[t].at = "idle"
    BY IdleFits DEF Init
  <1>2. DOMAIN calls = {} /\ Starting = {}
    BY <1>1, EmptySeq, NamesDiffer DEF Init, Starting
  <1>3. Orderly /\ StopsAhead /\ Phases
    BY <1>1, <1>2, NamesDiffer DEF Orderly, StopsAhead, Phases, Others
  <1>4. Unseen /\ Transmitted
    BY DEF Init, Unseen, Transmitted
  <1> QED BY <1>3, <1>4 DEF AloneInv

LEMMA AloneKept ==
    ASSUME BaseInv, AloneInv, [Next]_vars
    PROVE  AloneInv'
  <1>0. /\ TypeInv /\ QueueInv /\ IdsInv /\ EndInv /\ TypeInv' /\ QueueInv'
    BY BaseKept DEF BaseInv
  <1>1. CASE Execute
    BY <1>0, <1>1, OneIsExecuted, AloneExecuted
  <1>2. CASE Drop
    BY <1>2 DEF Drop, AloneInv, Alone
  <1>3. CASE Loading
    BY <1>3, LoadingClears DEF AloneInv, Alone
  <1>4. ASSUME NEW s \in Starters, StartStep(s)
        PROVE  AloneInv'
    BY <1>0, <1>4, AloneGoesOn
  <1>5. ASSUME NEW h \in BOOLEAN, Start(h)
        PROVE  AloneInv'
    BY <1>0, <1>5, AloneStarted
  <1>6. ASSUME ~Execute, ~Drop, ~Loading, \A s \in Starters : ~StartStep(s),
               \A h \in BOOLEAN : ~Start(h), Alone'
        PROVE  (Orderly /\ Unseen /\ StopsAhead /\ Phases /\ Transmitted)'
    <2>1. Alone
      BY <1>0, <1>6, AloneBefore
    <2>2. Orderly
      BY <2>1 DEF AloneInv
    <2>3. Aside
      BY <1>0, <1>6, <2>1, <2>2, AsideActs
    <2>4. MovesAside
      BY <1>0, <1>6, AsideMoves
    <2> QED BY <1>0, <2>1, <2>3, <2>4, AloneAside
  <1> QED BY <1>1, <1>2, <1>3, <1>4, <1>5, <1>6 DEF AloneInv

\* What is transmitted is what the page lists.
LEMMA ListHolds ==
    ASSUME PanelInv
    PROVE  RunIsTheList
  <1>1. Len(list) \in Nat /\ DOMAIN list = 1 .. Len(list)
    BY TypeParts DEF PanelInv, BaseInv
  <1>2. All(list, bid) = {bid[l] : l \in Listed}
    BY <1>1 DEF All, Numbers, Listed
  <1>3. isRunning /\ engine.running /\ Alone => engine.live = All(list, bid)
    BY DEF PanelInv, AloneInv, Transmitted
  <1> QED BY <1>2, <1>3 DEF RunIsTheList, Alone

\* However many calls of startAll() interleave with the other handlers, the
\* timers, the user and the connection, the page and the engine agree: no two
\* publishers of the page are one of the backend, a run that is shown is
\* watched, a run whose start met no other start transmits what the page
\* lists, publisher by publisher, and Reset is followed up.
THEOREM PageAgrees == Spec => []PageAndEngineAgree
  <1>1. Init => PanelInv
    BY BaseInit, AloneInit DEF PanelInv
  <1>2. PanelInv /\ [Next]_vars => PanelInv'
    BY BaseKept, AloneKept DEF PanelInv
  <1>3. PanelInv => PageAndEngineAgree
    BY NumbersAndWatch, ResetHolds, ListHolds DEF PanelInv, PageAndEngineAgree
  <1> QED BY <1>1, <1>2, <1>3, PTL DEF Spec
=============================================================================
