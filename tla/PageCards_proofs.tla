-------------------------- MODULE PageCards_proofs --------------------------
(***************************************************************************)
(* Proofs about three cards of the page, for every value of the constants: *)
(* the fault panel (FaultPanel), the equation editor (EquationEditor) and  *)
(* the frame viewer (FrameView).  The three share no state, and a theorem  *)
(* here is about the specification of one of them: Spec, EditorSpec or     *)
(* ViewSpec.                                                               *)
(***************************************************************************)
EXTENDS FaultPanel, EquationEditor, FrameView,
        FiniteSetTheorems, FunctionTheorems, SequenceTheorems, WellFoundedInduction, TLAPS

-----------------------------------------------------------------------------
(* The fault panel.                                                        *)
(*                                                                         *)
(* The panel, the store and the injector agree at rest because of what is  *)
(* under way when they are not at rest: the invariants below say of the    *)
(* calls under way which of them will still change the injector, the timer *)
(* or a count, and that the last of these leaves what the store says.      *)
Commands == {"configure", "resetHits", "resetStats", "start", "stop", "hits?",
             "stats?", "running?"}
Thens == {"applied", "resetApplied", "resetDone", "hits", "started",
          "stopped", "poll", "numbers", "hello", "ignored"}
Requests == [cmd : Commands, arg : Configs, then : Thens,
             res : {"none", "ok", "error"}, value : Nat]

\* The answer of a call is used for what was asked.
Coherent(c) ==
    /\ c.then = "resetApplied" => c.cmd = "configure" /\ c.arg = Off
    /\ c.then = "resetDone" => c.cmd = "resetHits"
    /\ c.then = "stopped" => c.cmd = "stop"
    /\ c.then = "hits" => c.cmd = "hits?"
    /\ c.then = "numbers" => c.cmd = "stats?"
    /\ c.cmd \in {"hits?", "stats?"} => c.value \in 0 .. MaxCount
TypeInv ==
    /\ TypeOK
    /\ calls \in Seq(Requests)
    /\ \A k \in DOMAIN calls : Coherent(calls[k])

\* Only a lost connection or a reload hides an answer from its handler.
Attended(c) ==
    /\ c.cmd = "stop" => c.then = "stopped"
    /\ c.res = "error" => c.cmd = "start"
LossInv == ~history.lost => \A k \in DOMAIN calls : Attended(calls[k])

\* The last configuration under way is the stored one; one that is not under
\* way any more is in force.  When a stop is answered the store follows.
Configuring(c) == c.cmd = "configure" /\ c.res = "none"
StopUnderWay == \E k \in DOMAIN calls : calls[k].then = "stopped"
StoreInv ==
    ~history.lost /\ ~StopUnderWay =>
        /\ \A k \in DOMAIN calls :
             Configuring(calls[k]) =>
                \/ Effect(calls[k].arg) = Effect(stored)
                \/ \E j \in DOMAIN calls : k < j /\ Configuring(calls[j])
        /\ \/ Effect(engine.faults) = Effect(stored)
           \/ \E j \in DOMAIN calls : Configuring(calls[j])

\* While a handler waits that will look at it, the box is what was stored.
AwaitedUnderWay == \E k \in DOMAIN calls : calls[k].then \in Awaited
ResetUnderWay ==
    \E k \in DOMAIN calls : calls[k].then \in {"resetApplied", "resetDone"}
PollInv ==
    ~history.fiddled =>
        /\ ~AwaitedUnderWay => timer = stored.on
        /\ AwaitedUnderWay => box = stored.on
        /\ ResetUnderWay => ~box

\* Until the next Apply a reset goes on behind everything that could arm the
\* injector, count a fault or show a count.
AppliesOff(c) == c.then = "resetApplied"
ZeroInv ==
    history.zeroed /\ ~history.lost =>
        /\ \A k \in DOMAIN calls :
             Configuring(calls[k]) /\ Effect(calls[k].arg) # "none" =>
                \E j \in DOMAIN calls :
                   k < j /\ AppliesOff(calls[j]) /\ calls[j].res = "none"
        /\ Effect(engine.faults) # "none" =>
                \E j \in DOMAIN calls : AppliesOff(calls[j]) /\ calls[j].res = "none"
        /\ engine.hits # 0 =>
                \E j \in DOMAIN calls :
                   \/ AppliesOff(calls[j])
                   \/ calls[j].then = "resetDone" /\ calls[j].res = "none"
        /\ \A k \in DOMAIN calls :
             calls[k].then = "hits" /\ calls[k].res = "ok" /\ calls[k].value # 0 =>
                \E j \in DOMAIN calls :
                   \/ AppliesOff(calls[j])
                   \/ k < j /\ calls[j].then = "resetDone"
        /\ shownHits # 0 => ResetUnderWay

IInv == TypeInv /\ LossInv /\ StoreInv /\ PollInv /\ ZeroInv
-----------------------------------------------------------------------------
(* How the calls under way change: t is s without its first d calls, with  *)
(* those of N behind.                                                      *)
Built(s, t, d, N) ==
    /\ t \in Seq(Requests)
    /\ \A k \in DOMAIN s : k > d => k - d \in DOMAIN t /\ t[k - d] = s[k]
    /\ \A i \in DOMAIN t :
         \/ i + d \in DOMAIN s /\ t[i] = s[i + d]
         \/ t[i] \in N /\ \A k \in DOMAIN s : k - d < i
    /\ \A c \in N : \E j \in DOMAIN t : t[j] = c /\ \A k \in DOMAIN s : k - d < j

\* A call as it is made.
Fresh == {c \in Requests : /\ c.res = "none" /\ c.value = 0
                           /\ Coherent(c) /\ Attended(c)}

LEMMA BuiltSelf ==
    ASSUME NEW s \in Seq(Requests)
    PROVE  Built(s, s, 0, {})
  BY LenProperties DEF Built

LEMMA BuiltTail ==
    ASSUME NEW s \in Seq(Requests), s # <<>>
    PROVE  Built(s, Tail(s), 1, {})
  <1>1. /\ Tail(s) \in Seq(Requests) /\ Len(Tail(s)) = Len(s) - 1
        /\ \A i \in 1 .. Len(Tail(s)) : Tail(s)[i] = s[i + 1]
        /\ Len(s) \in Nat \ {0}
        /\ DOMAIN s = 1 .. Len(s) /\ DOMAIN Tail(s) = 1 .. Len(s) - 1
    BY HeadTailProperties, EmptySeq, LenProperties
  <1>2. ASSUME NEW k \in DOMAIN s, k > 1
        PROVE  k - 1 \in DOMAIN Tail(s) /\ Tail(s)[k - 1] = s[k]
    BY <1>1, <1>2
  <1>3. ASSUME NEW i \in DOMAIN Tail(s)
        PROVE  i + 1 \in DOMAIN s /\ Tail(s)[i] = s[i + 1]
    BY <1>1
  <1> QED BY <1>1, <1>2, <1>3 DEF Built

LEMMA BuiltAppend ==
    ASSUME NEW s \in Seq(Requests), NEW t, NEW d \in {0, 1}, NEW N,
           Built(s, t, d, N), NEW c \in Fresh
    PROVE  Built(s, Append(t, c), d, N \cup {c})
  <1> DEFINE u == Append(t, c)
  <1>1. c \in Requests /\ t \in Seq(Requests)
    BY DEF Fresh, Built
  <1>2. /\ u \in Seq(Requests) /\ DOMAIN u = 1 .. Len(t) + 1
        /\ \A i \in 1 .. Len(t) : u[i] = t[i]
        /\ u[Len(t) + 1] = c
        /\ DOMAIN t = 1 .. Len(t) /\ Len(t) \in Nat
        /\ DOMAIN s = 1 .. Len(s) /\ Len(s) \in Nat
    <2>1. /\ u \in Seq(Requests) /\ Len(u) = Len(t) + 1
          /\ \A i \in 1 .. Len(t) : u[i] = t[i]
          /\ u[Len(t) + 1] = c
      BY <1>1, AppendProperties
    <2> QED BY <1>1, <2>1, LenProperties
  <1> HIDE DEF u
  <1>3. ASSUME NEW k \in DOMAIN s
        PROVE  k - d < Len(t) + 1
    BY <1>2 DEF Built
  <1>4. ASSUME NEW k \in DOMAIN s, k > d
        PROVE  k - d \in DOMAIN u /\ u[k - d] = s[k]
    BY <1>2, <1>4 DEF Built
  <1>5. ASSUME NEW i \in DOMAIN u
        PROVE  \/ i + d \in DOMAIN s /\ u[i] = s[i + d]
               \/ u[i] \in N \cup {c} /\ \A k \in DOMAIN s : k - d < i
    <2>1. CASE i \in DOMAIN t
      BY <1>2, <2>1 DEF Built
    <2>2. CASE i = Len(t) + 1
      BY <1>2, <1>3, <2>2
    <2> QED BY <1>2, <2>1, <2>2
  <1>6. ASSUME NEW e \in N \cup {c}
        PROVE  \E j \in DOMAIN u : u[j] = e /\ \A k \in DOMAIN s : k - d < j
    <2>1. CASE e \in N
      <3>1. PICK j \in DOMAIN t : t[j] = e /\ \A k \in DOMAIN s : k - d < j
        BY <2>1 DEF Built
      <3>2. j \in DOMAIN u /\ u[j] = e
        BY <1>2, <3>1
      <3> QED BY <3>1, <3>2
    <2>2. CASE e = c
      <3>1. Len(t) + 1 \in DOMAIN u
        BY <1>2
      <3> QED BY <1>2, <1>3, <2>2, <3>1
    <2> QED BY <2>1, <2>2
  <1> QED BY <1>2, <1>4, <1>5, <1>6 DEF Built, u

(* The calls of the handlers.                                              *)
LEMMA CallsAreFresh ==
    /\ \A c \in Configs :
         \A then \in {"applied", "ignored"} : NewCall("configure", c, then) \in Fresh
    /\ NewCall("configure", Off, "resetApplied") \in Fresh
    /\ Plain("resetHits", "resetDone") \in Fresh
    /\ Plain("resetStats", "ignored") \in Fresh
    /\ Plain("start", "started") \in Fresh
    /\ Plain("stop", "stopped") \in Fresh
    /\ Plain("hits?", "hits") \in Fresh
    /\ Plain("stats?", "numbers") \in Fresh
    /\ Plain("running?", "poll") \in Fresh
    /\ Plain("running?", "hello") \in Fresh
  <1>1. Off \in Configs /\ 0 \in Nat /\ 0 \in 0 .. MaxCount
    BY FaultPanelAssumption DEF Off, Configs, Kinds
  <1> HIDE DEF Off, Configs
  <1> QED BY <1>1 DEF Plain, NewCall, Fresh, Requests, Commands, Thens,
        Coherent, Attended

\* A handler takes the oldest answer.
LEMMA AnswerTaken ==
    ASSUME TypeInv, NEW then, Answered(then)
    PROVE  /\ Built(calls, Tail(calls), 1, {})
           /\ 1 \in DOMAIN calls /\ Head(calls) = calls[1]
           /\ calls[1] \in Requests /\ Coherent(calls[1])
           /\ calls[1].then = then /\ calls[1].res # "none"
  <1>1. calls # <<>> /\ calls \in Seq(Requests)
    BY DEF Answered, TypeInv
  <1>2. 1 \in DOMAIN calls /\ Head(calls) = calls[1] /\ calls[1] \in Requests
    BY <1>1, EmptySeq, LenProperties, ElementOfSeq
  <1> QED BY <1>1, <1>2, BuiltTail DEF Answered, TypeInv

-----------------------------------------------------------------------------
(* What each action does to the calls under way.                           *)
Moves(d, N) ==
    /\ d \in {0, 1} /\ N \subseteq Fresh
    /\ Built(calls, calls', d, N)
    /\ d = 1 => 1 \in DOMAIN calls /\ calls[1].res # "none"

\* The listener's configure.
OffCall == NewCall("configure", [UiConfig EXCEPT !.on = FALSE], "ignored")
NumbersCall == Plain("stats?", "numbers")

LEMMA FormFits ==
    ASSUME TypeInv
    PROVE  /\ UiConfig \in Configs /\ [UiConfig EXCEPT !.on = FALSE] \in Configs
           /\ Off \in Configs /\ Off.on = FALSE
           /\ UiConfig.on = box /\ [UiConfig EXCEPT !.on = FALSE].on = FALSE
  BY DEF TypeInv, TypeOK, UiConfig, Configs, Off, Kinds

LEMMA Asking ==
    ASSUME TypeInv
    PROVE  /\ UNCHANGED calls => Moves(0, {})
           /\ Apply => Moves(0, {NewCall("configure", UiConfig, "applied")})
           /\ ResetAll => Moves(0, {NewCall("configure", Off, "resetApplied")})
           /\ ResetStats => Moves(0, {Plain("resetStats", "ignored")})
           /\ Start => Moves(0, {Plain("start", "started")})
           /\ Stop => Moves(0, {Plain("stop", "stopped")})
           /\ FaultTick => Moves(0, {Plain("hits?", "hits")})
           /\ BackTick => Moves(0, {Plain("running?", "poll")})
  <1>1. calls \in Seq(Requests)
    BY DEF TypeInv
  <1>2. Built(calls, calls, 0, {})
    BY <1>1, BuiltSelf
  <1>3. ASSUME NEW c \in Fresh, calls' = Append(calls, c)
        PROVE  Moves(0, {c})
    <2>1. Built(calls, Append(calls, c), 0, {} \cup {c})
      BY <1>1, <1>2, BuiltAppend
    <2>2. {} \cup {c} = {c}
      OBVIOUS
    <2> QED BY <1>3, <2>1, <2>2 DEF Moves
  <1>4. UNCHANGED calls => Moves(0, {})
    BY <1>2 DEF Moves
  <1>5. NewCall("configure", UiConfig, "applied") \in Fresh
    BY FormFits, CallsAreFresh
  <1>6. Apply => Moves(0, {NewCall("configure", UiConfig, "applied")})
    BY <1>3, <1>5 DEF Apply
  <1>7. ResetAll => Moves(0, {NewCall("configure", Off, "resetApplied")})
    BY <1>3, CallsAreFresh DEF ResetAll
  <1>8. ResetStats => Moves(0, {Plain("resetStats", "ignored")})
    BY <1>3, CallsAreFresh DEF ResetStats
  <1>9. Start => Moves(0, {Plain("start", "started")})
    BY <1>3, CallsAreFresh DEF Start
  <1>10. Stop => Moves(0, {Plain("stop", "stopped")})
    BY <1>3, CallsAreFresh DEF Stop
  <1>11. FaultTick => Moves(0, {Plain("hits?", "hits")})
    BY <1>3, CallsAreFresh DEF FaultTick
  <1>12. BackTick => Moves(0, {Plain("running?", "poll")})
    BY <1>3, CallsAreFresh DEF BackTick
  <1> QED BY <1>4, <1>6, <1>7, <1>8, <1>9, <1>10, <1>11, <1>12

LEMMA Answering ==
    ASSUME TypeInv
    PROVE  /\ Applied \/ ResetDone \/ HitsAnswered \/ Started \/ NumbersAnswered
                 \/ HelloAnswered \/ Ignored => Moves(1, {})
           /\ ResetApplied => Moves(1, {Plain("resetHits", "resetDone")})
           /\ Stopped => Moves(1, IF Ok THEN {OffCall} ELSE {})
           /\ PollAnswered =>
                Moves(1, (IF SawEnd THEN {OffCall} ELSE {})
                            \cup (IF Ok THEN {NumbersCall} ELSE {}))
  <1> DEFINE rest == Tail(calls)
             Reply == \E then : Answered(then)
  <1>0. Reply => /\ Built(calls, rest, 1, {}) /\ rest \in Seq(Requests)
                 /\ 1 \in DOMAIN calls /\ calls[1].res # "none"
    BY AnswerTaken DEF Built
  <1>1. OffCall \in Fresh /\ OffCall \in Requests
    BY FormFits, CallsAreFresh DEF OffCall, Fresh
  <1>2. NumbersCall \in Fresh /\ NumbersCall \in Requests
    BY CallsAreFresh DEF NumbersCall, Fresh
  <1>3. ListenerCalls = <<OffCall>>
    BY DEF ListenerCalls, OffCall
  <1>4. ASSUME NEW q \in Seq(Requests), NEW c \in Requests
        PROVE  q \o <<c>> = Append(q, c) /\ q \o <<>> = q
    BY <1>4, AppendIsConcat, ConcatEmptySeq
  <1> HIDE DEF rest, OffCall, NumbersCall
  <1>5. ASSUME Reply, NEW c \in Fresh
        PROVE  Built(calls, Append(rest, c), 1, {c})
    <2>1. Built(calls, Append(rest, c), 1, {} \cup {c})
      BY <1>0, <1>5, BuiltAppend DEF TypeInv
    <2>2. {} \cup {c} = {c}
      OBVIOUS
    <2> QED BY <2>1, <2>2
  <1>6. ASSUME Reply
        PROVE  /\ Append(rest, OffCall) \in Seq(Requests)
               /\ Built(calls, Append(Append(rest, OffCall), NumbersCall), 1,
                        {OffCall} \cup {NumbersCall})
    <2>1. Built(calls, Append(rest, OffCall), 1, {OffCall})
      BY <1>1, <1>5, <1>6
    <2>2. Append(rest, OffCall) \in Seq(Requests)
      BY <2>1 DEF Built
    <2>3. calls \in Seq(Requests)
      BY DEF TypeInv
    <2> QED BY <2>1, <2>2, <2>3, <1>2, BuiltAppend
  <1>7. ASSUME Reply, calls' = rest
        PROVE  Moves(1, {})
    BY <1>0, <1>7 DEF Moves
  <1>8. ASSUME Reply, NEW c \in Fresh, calls' = Append(rest, c)
        PROVE  Moves(1, {c})
    BY <1>0, <1>5, <1>8 DEF Moves
  <1>9. Applied \/ ResetDone \/ HitsAnswered \/ Started \/ NumbersAnswered
           \/ HelloAnswered \/ Ignored => Moves(1, {})
    BY <1>7 DEF rest, Applied, ResetDone, HitsAnswered, Started, NumbersAnswered,
         HelloAnswered, Ignored
  <1>10. ResetApplied => Moves(1, {Plain("resetHits", "resetDone")})
    BY <1>8, CallsAreFresh DEF rest, ResetApplied
  <1>11. ASSUME Stopped
         PROVE  Moves(1, IF Ok THEN {OffCall} ELSE {})
    <2>1. Reply
      BY <1>11 DEF Stopped
    <2>2. CASE Ok
      <3>1. calls' = rest \o <<OffCall>>
        BY <1>3, <1>11, <2>2 DEF Stopped, rest
      <3>2. calls' = Append(rest, OffCall)
        BY <1>0, <1>1, <1>4, <2>1, <3>1
      <3> QED BY <1>1, <1>8, <2>1, <2>2, <3>2
    <2>3. CASE ~Ok
      <3>1. calls' = rest
        BY <1>11, <2>3 DEF Stopped, rest
      <3> QED BY <1>7, <2>1, <2>3, <3>1
    <2> QED BY <2>2, <2>3
  <1>12. ASSUME PollAnswered
         PROVE  Moves(1, (IF SawEnd THEN {OffCall} ELSE {})
                            \cup (IF Ok THEN {NumbersCall} ELSE {}))
    <2>1. Reply
      BY <1>12 DEF PollAnswered
    <2>2. calls' = rest \o (IF SawEnd THEN <<OffCall>> ELSE <<>>)
                        \o (IF Ok THEN <<NumbersCall>> ELSE <<>>)
      BY <1>3, <1>12 DEF PollAnswered, rest, NumbersCall
    <2>3. SawEnd => Ok
      BY DEF SawEnd
    <2>4. CASE SawEnd
      <3>1. calls' = (rest \o <<OffCall>>) \o <<NumbersCall>>
        BY <2>2, <2>3, <2>4
      <3>2. calls' = Append(Append(rest, OffCall), NumbersCall)
        BY <1>0, <1>1, <1>2, <1>4, <1>6, <2>1, <3>1
      <3> QED BY <1>0, <1>1, <1>2, <1>6, <2>1, <2>3, <2>4, <3>2 DEF Moves
    <2>5. CASE ~SawEnd /\ Ok
      <3>1. calls' = (rest \o <<>>) \o <<NumbersCall>>
        BY <2>2, <2>5
      <3>2. calls' = Append(rest, NumbersCall)
        BY <1>0, <1>2, <1>4, <2>1, <3>1
      <3>3. Moves(1, {NumbersCall})
        BY <1>2, <1>8, <2>1, <3>2
      <3>4. {NumbersCall} = {} \cup {NumbersCall}
        OBVIOUS
      <3> QED BY <2>5, <3>3, <3>4
    <2>6. CASE ~Ok
      <3>1. calls' = (rest \o <<>>) \o <<>>
        BY <2>2, <2>3, <2>6
      <3>2. calls' = rest
        BY <1>0, <1>2, <1>4, <2>1, <3>1
      <3>3. Moves(1, {})
        BY <1>7, <2>1, <3>2
      <3>4. {} = {} \cup {}
        OBVIOUS
      <3> QED BY <2>3, <2>6, <3>3, <3>4
    <2> QED BY <2>4, <2>5, <2>6
  <1> QED BY <1>9, <1>10, <1>11, <1>12

-----------------------------------------------------------------------------
(* What a move of the calls leaves of each part of the invariant.          *)
LEMMA TypedMove ==
    ASSUME TypeInv, NEW d, NEW N, Moves(d, N)
    PROVE  /\ calls' \in Seq(Requests)
           /\ \A k \in DOMAIN calls' : Coherent(calls'[k])
           /\ \A k \in DOMAIN calls' : calls'[k].res \in {"none", "ok", "error"}
  <1>1. /\ calls' \in Seq(Requests)
        /\ \A i \in DOMAIN calls' : \/ i + d \in DOMAIN calls /\ calls'[i] = calls[i + d]
                                    \/ calls'[i] \in Fresh
    BY DEF Moves, Built
  <1>2. \A k \in DOMAIN calls' : calls'[k] \in Requests
    BY <1>1, ElementOfSeq, LenProperties
  <1> QED BY <1>1, <1>2 DEF TypeInv, Fresh, Requests

LEMMA LossMove ==
    ASSUME LossInv, NEW d, NEW N, Moves(d, N),
           history'.lost \/ ~history.lost \/ calls = <<>>
    PROVE  LossInv'
  <1> SUFFICES ASSUME ~history'.lost, NEW i \in DOMAIN calls'
               PROVE  Attended(calls'[i])
    BY DEF LossInv
  <1>1. \/ i + d \in DOMAIN calls /\ calls'[i] = calls[i + d]
        \/ calls'[i] \in Fresh
    BY DEF Moves, Built
  <1>2. CASE i + d \in DOMAIN calls /\ calls'[i] = calls[i + d]
    <2>1. calls # <<>>
      BY <1>2
    <2> QED BY <1>2, <2>1 DEF LossInv
  <1> QED BY <1>1, <1>2 DEF Fresh

\* Nothing is stored, armed or disarmed.
LEMMA StoreCarried ==
    ASSUME TypeInv, StoreInv, NEW d, NEW N, Moves(d, N),
           history'.lost \/ ~history.lost,
           stored' = stored, engine'.faults = engine.faults,
           d = 1 => calls[1].then # "stopped",
           \A c \in N : ~Configuring(c)
    PROVE  StoreInv'
  <1> DEFINE Fits(c) == Effect(c) = Effect(stored)
  <1> SUFFICES ASSUME ~history'.lost, ~StopUnderWay'
               PROVE  /\ \A k \in DOMAIN calls' :
                           Configuring(calls'[k]) =>
                              \/ Fits(calls'[k].arg)
                              \/ \E j \in DOMAIN calls' : k < j /\ Configuring(calls'[j])
                      /\ \/ Fits(engine.faults)
                         \/ \E j \in DOMAIN calls' : Configuring(calls'[j])
    BY DEF StoreInv, Effect, Configuring
  <1> HIDE DEF Fits
  <1>1. d \in {0, 1} /\ DOMAIN calls \subseteq Nat /\ DOMAIN calls' \subseteq Nat
    BY LenProperties DEF Moves, Built, TypeInv
  <1>2. ASSUME NEW j \in DOMAIN calls, calls[j].res = "none" \/ calls[j].then = "stopped"
        PROVE  j - d \in DOMAIN calls' /\ calls'[j - d] = calls[j]
    <2>1. j > d
      BY <1>1, <1>2, LenProperties DEF Moves, TypeInv
    <2> QED BY <2>1 DEF Moves, Built
  <1>3. ~StopUnderWay
    BY <1>2 DEF StopUnderWay
  <1>4. /\ \A k \in DOMAIN calls :
             Configuring(calls[k]) =>
                \/ Fits(calls[k].arg)
                \/ \E j \in DOMAIN calls : k < j /\ Configuring(calls[j])
        /\ \/ Fits(engine.faults)
           \/ \E j \in DOMAIN calls : Configuring(calls[j])
    BY <1>3 DEF StoreInv, Fits
  <1>5. ASSUME NEW j \in DOMAIN calls, Configuring(calls[j])
        PROVE  j - d \in DOMAIN calls' /\ Configuring(calls'[j - d])
    BY <1>2, <1>5 DEF Configuring
  <1>6. ASSUME NEW k \in DOMAIN calls', Configuring(calls'[k])
        PROVE  \/ Fits(calls'[k].arg)
               \/ \E j \in DOMAIN calls' : k < j /\ Configuring(calls'[j])
    <2>1. k + d \in DOMAIN calls /\ calls'[k] = calls[k + d]
      BY <1>6 DEF Moves, Built
    <2>2. \/ Fits(calls[k + d].arg)
          \/ \E j \in DOMAIN calls : k + d < j /\ Configuring(calls[j])
      BY <1>4, <1>6, <2>1
    <2>3. ASSUME NEW j \in DOMAIN calls, k + d < j, Configuring(calls[j])
          PROVE  j - d \in DOMAIN calls' /\ Configuring(calls'[j - d]) /\ k < j - d
      BY <1>1, <1>5, <2>3
    <2> QED BY <2>1, <2>2, <2>3
  <1> QED BY <1>4, <1>5, <1>6

\* A configuration is stored and sent.
LEMMA StoreSent ==
    ASSUME TypeInv, NEW d, NEW N, Moves(d, N),
           NEW c \in N, c.cmd = "configure", Effect(c.arg) = Effect(stored'),
           \A e \in N : Configuring(e) => e = c
    PROVE  StoreInv'
  <1> DEFINE Fits(a) == Effect(a) = Effect(stored')
  <1>1. d \in {0, 1} /\ DOMAIN calls \subseteq Nat /\ DOMAIN calls' \subseteq Nat
    BY LenProperties DEF Moves, Built, TypeInv
  <1>2. PICK j \in DOMAIN calls' : calls'[j] = c /\ \A k \in DOMAIN calls : k - d < j
    BY DEF Moves, Built
  <1>3. Configuring(c)
    BY DEF Moves, Fresh, Configuring
  <1> HIDE DEF Fits
  <1>4. ASSUME NEW k \in DOMAIN calls', Configuring(calls'[k])
        PROVE  Fits(calls'[k].arg) \/ k < j
    <2>1. CASE k + d \in DOMAIN calls
      BY <1>1, <1>2, <2>1
    <2>2. CASE calls'[k] \in N
      BY <1>4, <2>2 DEF Fits
    <2> QED BY <2>1, <2>2 DEF Moves, Built
  <1> QED BY <1>2, <1>3, <1>4 DEF StoreInv, Configuring, Fits, Effect

LEMMA AwaitedMove ==
    ASSUME TypeInv, NEW d, NEW N, Moves(d, N)
    PROVE  /\ AwaitedUnderWay' => AwaitedUnderWay \/ \E c \in N : c.then \in Awaited
           /\ (\E c \in N : c.then \in Awaited) => AwaitedUnderWay'
           /\ AwaitedUnderWay /\ (d = 1 => calls[1].then \notin Awaited)
                 => AwaitedUnderWay'
           /\ ResetUnderWay' =>
                 ResetUnderWay \/ \E c \in N : c.then \in {"resetApplied", "resetDone"}
           /\ (\E c \in N : c.then \in {"resetApplied", "resetDone"}) => ResetUnderWay'
           /\ ResetUnderWay /\ (d = 1 => calls[1].then \notin {"resetApplied", "resetDone"})
                 => ResetUnderWay'
  <1>1. d \in {0, 1} /\ DOMAIN calls \subseteq Nat \ {0}
    BY LenProperties DEF Moves, Built, TypeInv
  <1>2. \A j \in DOMAIN calls :
          \/ d = 1 /\ j = 1
          \/ j - d \in DOMAIN calls' /\ calls'[j - d] = calls[j]
    BY <1>1 DEF Moves, Built
  <1>3. \A i \in DOMAIN calls' :
          \/ i + d \in DOMAIN calls /\ calls'[i] = calls[i + d]
          \/ calls'[i] \in N
    BY DEF Moves, Built
  <1>4. \A c \in N : \E j \in DOMAIN calls' : calls'[j] = c
    BY DEF Moves, Built
  <1> QED BY <1>2, <1>3, <1>4 DEF AwaitedUnderWay, ResetUnderWay

\* Neither a reset nor anything it holds back is answered.  A counted fault
\* changes the count only while the injector is armed.
LEMMA ZeroCarried ==
    ASSUME TypeInv, ZeroInv, NEW d, NEW N, Moves(d, N),
           history.zeroed = history'.zeroed, history.lost = history'.lost,
           engine'.faults = engine.faults,
           engine'.hits = engine.hits \/ Effect(engine.faults) # "none",
           shownHits' = shownHits,
           d = 1 => calls[1].then \notin {"resetApplied", "resetDone"},
           \A c \in N : c.cmd = "configure" => Effect(c.arg) = "none"
    PROVE  ZeroInv'
  <1> SUFFICES ASSUME history'.zeroed, ~history'.lost
               PROVE  ZeroInv'
    BY DEF ZeroInv
  <1>1. /\ d \in {0, 1} /\ DOMAIN calls \subseteq Nat \ {0} /\ DOMAIN calls' \subseteq Nat
        /\ d = 1 => calls[1].res # "none"
    BY LenProperties DEF Moves, Built, TypeInv
  <1>2. \A j \in DOMAIN calls :
          \/ j > d /\ j - d \in DOMAIN calls' /\ calls'[j - d] = calls[j]
          \/ d = 1 /\ j = 1 /\ calls[j].res # "none"
               /\ calls[j].then \notin {"resetApplied", "resetDone"}
    BY <1>1 DEF Moves, Built
  <1>3. \A i \in DOMAIN calls' :
          \/ i + d \in DOMAIN calls /\ calls'[i] = calls[i + d]
          \/ calls'[i].res = "none" /\ (Configuring(calls'[i]) => Effect(calls'[i].arg) = "none")
    BY DEF Moves, Built, Fresh, Configuring
  <1>4. ASSUME NEW k \in DOMAIN calls', Configuring(calls'[k]), Effect(calls'[k].arg) # "none"
        PROVE  \E j \in DOMAIN calls' :
                  k < j /\ AppliesOff(calls'[j]) /\ calls'[j].res = "none"
    <2>1. k + d \in DOMAIN calls /\ calls'[k] = calls[k + d]
      BY <1>3, <1>4
    <2>2. PICK j \in DOMAIN calls :
             k + d < j /\ AppliesOff(calls[j]) /\ calls[j].res = "none"
      BY <1>4, <2>1 DEF ZeroInv
    <2>3. j - d \in DOMAIN calls' /\ calls'[j - d] = calls[j] /\ k < j - d
      BY <1>1, <1>2, <2>2
    <2> QED BY <2>2, <2>3
  <1>5. ASSUME Effect(engine.faults) # "none"
        PROVE  \E j \in DOMAIN calls' : AppliesOff(calls'[j]) /\ calls'[j].res = "none"
    <2>1. PICK j \in DOMAIN calls : AppliesOff(calls[j]) /\ calls[j].res = "none"
      BY <1>5 DEF ZeroInv
    <2> QED BY <1>2, <2>1
  <1>6. ASSUME engine'.hits # 0
        PROVE  \E j \in DOMAIN calls' :
                  \/ AppliesOff(calls'[j])
                  \/ calls'[j].then = "resetDone" /\ calls'[j].res = "none"
    <2>1. CASE Effect(engine.faults) # "none"
      BY <1>5, <2>1
    <2>2. CASE Effect(engine.faults) = "none"
      <3>1. PICK j \in DOMAIN calls : \/ AppliesOff(calls[j])
                                      \/ calls[j].then = "resetDone" /\ calls[j].res = "none"
        BY <1>6, <2>2 DEF ZeroInv
      <3> QED BY <1>2, <3>1 DEF AppliesOff
    <2> QED BY <2>1, <2>2
  <1>7. ASSUME NEW k \in DOMAIN calls',
               calls'[k].then = "hits", calls'[k].res = "ok", calls'[k].value # 0
        PROVE  \E j \in DOMAIN calls' : \/ AppliesOff(calls'[j])
                                        \/ k < j /\ calls'[j].then = "resetDone"
    <2>1. k + d \in DOMAIN calls /\ calls'[k] = calls[k + d]
      BY <1>3, <1>7
    <2>2. PICK j \in DOMAIN calls : \/ AppliesOff(calls[j])
                                    \/ k + d < j /\ calls[j].then = "resetDone"
      BY <1>7, <2>1 DEF ZeroInv
    <2>3. j - d \in DOMAIN calls' /\ calls'[j - d] = calls[j]
      BY <1>2, <2>2 DEF AppliesOff
    <2>4. k + d < j => k < j - d
      BY <1>1
    <2> QED BY <2>2, <2>3, <2>4
  <1>8. shownHits' # 0 => ResetUnderWay'
    <2>1. shownHits # 0 => ResetUnderWay
      BY DEF ZeroInv
    <2> QED BY <2>1, AwaitedMove
  <1> QED BY <1>4, <1>5, <1>6, <1>7, <1>8 DEF ZeroInv, Effect, Configuring, AppliesOff

\* "Reset All to 0" is asked for: it is behind everything.
LEMMA ZeroAsked ==
    ASSUME TypeInv,
           Moves(0, {NewCall("configure", Off, "resetApplied")})
    PROVE  ZeroInv'
  <1> DEFINE c == NewCall("configure", Off, "resetApplied")
  <1>1. /\ c.then = "resetApplied" /\ c.res = "none" /\ c.arg = Off /\ Effect(Off) = "none"
    BY DEF NewCall, Effect, Off
  <1> HIDE DEF c
  <1>2. PICK j \in DOMAIN calls' : calls'[j] = c /\ \A k \in DOMAIN calls : k - 0 < j
    BY DEF Moves, Built, c
  <1>3. AppliesOff(calls'[j]) /\ calls'[j].res = "none"
    BY <1>1, <1>2 DEF AppliesOff
  <1>4. DOMAIN calls \subseteq Nat
    BY LenProperties DEF TypeInv
  <1>5. ASSUME NEW k \in DOMAIN calls', Configuring(calls'[k]), Effect(calls'[k].arg) # "none"
        PROVE  k < j
    <2>1. CASE k + 0 \in DOMAIN calls /\ calls'[k] = calls[k + 0]
      <3>1. k + 0 = k /\ k - 0 = k
        BY LenProperties DEF Moves, Built
      <3> QED BY <1>2, <2>1, <3>1
    <2>2. CASE calls'[k] \in {c}
      BY <1>1, <1>5, <2>2
    <2> QED BY <2>1, <2>2 DEF Moves, Built, c
  <1>6. ResetUnderWay'
    BY <1>3 DEF ResetUnderWay, AppliesOff
  <1> QED BY <1>3, <1>5, <1>6 DEF ZeroInv, Effect, Configuring, AppliesOff

-----------------------------------------------------------------------------
(* The types.                                                              *)
Histories == [lost : BOOLEAN, fiddled : BOOLEAN, zeroed : BOOLEAN, leftover : BOOLEAN]
Engines == [faults : Configs, hits : 0 .. MaxCount, running : BOOLEAN, sent : 0 .. MaxCount]

LEMMA TypeSplit ==
    TypeOK <=> /\ box \in BOOLEAN /\ timer \in BOOLEAN
               /\ isRunning \in BOOLEAN /\ lastRunning \in BOOLEAN
               /\ form \in Kinds /\ stored \in Configs
               /\ shownHits \in 0 .. MaxCount /\ shownSent \in 0 .. MaxCount
               /\ engine \in Engines
               /\ \A k \in DOMAIN calls : calls[k].res \in {"none", "ok", "error"}
               /\ history \in Histories
  BY DEF TypeOK, Engines, Histories

LEMMA HistoryFits ==
    ASSUME history \in Histories
    PROVE  /\ \A b \in BOOLEAN : /\ [history EXCEPT !.leftover = b] \in Histories
                                 /\ [history EXCEPT !.fiddled = b] \in Histories
           /\ \A z \in BOOLEAN, l \in BOOLEAN, f \in BOOLEAN :
                [history EXCEPT !.zeroed = z, !.leftover = FALSE,
                                !.lost = l, !.fiddled = f] \in Histories
           /\ [history EXCEPT !.lost = TRUE] \in Histories
           /\ [history EXCEPT !.lost = TRUE, !.fiddled = FALSE, !.zeroed = FALSE] \in Histories
           /\ history.lost \in BOOLEAN /\ history.fiddled \in BOOLEAN
           /\ history.leftover \in BOOLEAN
  BY DEF Histories

\* What the backend answers, and what its counts become.
LEMMA BackendFits ==
    ASSUME engine \in Engines, NEW c \in Requests
    PROVE  /\ After(c) \in Engines
           /\ c.cmd \in {"hits?", "stats?"} => Value(c) \in 0 .. MaxCount
           /\ Value(c) \in Nat
  <1>1. MaxCount \in Nat /\ 0 \in 0 .. MaxCount
    BY FaultPanelAssumption
  <1>2. c.arg \in Configs /\ Off \in Configs
    BY DEF Requests, Off, Configs, Kinds
  <1>3. /\ engine.hits \in 0 .. MaxCount /\ engine.sent \in 0 .. MaxCount
        /\ engine.running \in BOOLEAN
    BY DEF Engines
  <1>4. Value(c) \in Nat /\ (c.cmd \in {"hits?", "stats?"} => Value(c) \in 0 .. MaxCount)
    BY <1>1, <1>3 DEF Value
  <1> HIDE DEF Configs
  <1>5. After(c) \in Engines
    BY <1>1, <1>2 DEF After, Disarmed, Engines
  <1> QED BY <1>4, <1>5

\* A call is executed: k is told its result.
Executes(k) ==
    /\ k \in DOMAIN calls /\ calls[k].res = "none"
    /\ \A j \in DOMAIN calls : calls[j].res = "none" => k <= j
    /\ engine' = IF Refused(calls[k]) THEN engine ELSE After(calls[k])
    /\ DOMAIN calls' = DOMAIN calls
    /\ \A j \in DOMAIN calls : j # k => calls'[j] = calls[j]
    /\ calls'[k].cmd = calls[k].cmd /\ calls'[k].arg = calls[k].arg
    /\ calls'[k].then = calls[k].then
    /\ calls'[k].res = (IF Refused(calls[k]) THEN "error" ELSE "ok")
    /\ calls'[k].value = Value(calls[k])
    /\ calls' \in Seq(Requests)

LEMMA OneIsExecuted ==
    ASSUME TypeInv, Execute
    PROVE  \E k : Executes(k)
  <1>1. PICK k \in Unexecuted :
           /\ \A j \in Unexecuted : k <= j
           /\ engine' = IF Refused(calls[k]) THEN engine ELSE After(calls[k])
           /\ calls' = [calls EXCEPT ![k].res = IF Refused(calls[k]) THEN "error" ELSE "ok",
                                     ![k].value = Value(calls[k])]
    BY DEF Execute
  <1>2. k \in DOMAIN calls /\ calls[k].res = "none" /\ calls[k] \in Requests
    BY ElementOfSeq, LenProperties DEF Unexecuted, TypeInv
  <1>3. Value(calls[k]) \in Nat
    BY <1>2, BackendFits, TypeSplit DEF TypeInv
  <1> DEFINE r == IF Refused(calls[k]) THEN "error" ELSE "ok"
             v == Value(calls[k])
  <1>4. r \in {"none", "ok", "error"} /\ v \in Nat
    BY <1>3
  <1>5. calls' = [calls EXCEPT ![k].res = r, ![k].value = v]
    BY <1>1
  <1>8. engine' = IF Refused(calls[k]) THEN engine ELSE After(calls[k])
    BY <1>1
  <1>9. \A j \in DOMAIN calls : calls[j].res = "none" => k <= j
    BY <1>1 DEF Unexecuted
  <1>10. r = (IF Refused(calls[k]) THEN "error" ELSE "ok") /\ v = Value(calls[k])
    OBVIOUS
  <1> HIDE DEF r, v
  <1>6. /\ DOMAIN calls' = DOMAIN calls
        /\ \A j \in DOMAIN calls : j # k => calls'[j] = calls[j]
        /\ calls'[k] = [calls[k] EXCEPT !.res = r, !.value = v]
    BY <1>2, <1>5 DEF TypeInv
  <1>7. /\ calls'[k] \in Requests
        /\ calls'[k].cmd = calls[k].cmd /\ calls'[k].arg = calls[k].arg
        /\ calls'[k].then = calls[k].then
        /\ calls'[k].res = r /\ calls'[k].value = v
    <2> HIDE DEF Configs, Commands, Thens
    <2> QED BY <1>2, <1>4, <1>6 DEF Requests
  <1>11. calls' \in Seq(Requests)
    <2>1. DOMAIN calls = 1 .. Len(calls) /\ Len(calls) \in Nat
      BY LenProperties DEF TypeInv
    <2>2. \A j \in DOMAIN calls : calls[j] \in Requests
      BY ElementOfSeq, LenProperties DEF TypeInv
    <2>3. calls' \in [1 .. Len(calls) -> Requests]
      <3>1. \A j \in DOMAIN calls' : calls'[j] \in Requests
        BY <1>6, <1>7, <2>2
      <3>2. calls' = [j \in DOMAIN calls' |-> calls'[j]]
        BY <1>5 DEF TypeInv
      <3> HIDE DEF Requests
      <3> QED BY <1>6, <2>1, <3>1, <3>2
    <2> QED BY <2>1, <2>3, SeqDef
  <1> QED BY <1>2, <1>6, <1>7, <1>8, <1>9, <1>10, <1>11 DEF Executes

\* Every action but Execute, Drop and Reload moves the calls.
LEMMA ActionsMove ==
    ASSUME TypeInv, [Next]_vars, ~Execute, ~Drop, ~Reload
    PROVE  \E d, N : Moves(d, N)
  <1>2. CASE UNCHANGED vars
    BY <1>2, Asking DEF vars
  <1>3. CASE WriterSends \/ EngineEnds \/ PanelNotices
    BY <1>3, Asking DEF WriterSends, EngineEnds, PanelNotices
  <1>4. CASE Handlers
    BY <1>4, Answering DEF Handlers
  <1>5. CASE UserActs
    <2>1. CASE Tick \/ (\E p \in Profiles : Preset(p)) \/ (\E k \in Kinds : Slide(k))
      BY <2>1, Asking DEF Tick, Preset, Slide
    <2> QED BY <1>5, <2>1, Asking DEF UserActs
  <1> QED BY <1>2, <1>3, <1>4, <1>5, Asking DEF Next

\* A lost connection and a reload: every call is still there, a question behind.
LEMMA DropFits ==
    ASSUME TypeInv, Drop \/ Reload
    PROVE  /\ calls' \in Seq(Requests)
           /\ \A i \in DOMAIN calls' :
                \/ /\ i \in DOMAIN calls
                   /\ calls'[i].cmd = calls[i].cmd /\ calls'[i].arg = calls[i].arg
                   /\ calls'[i].value = calls[i].value
                   /\ \/ calls'[i].then = calls[i].then /\ calls'[i].res = "error" /\ Drop
                      \/ calls'[i].then = "ignored" /\ calls'[i].res = calls[i].res
                \/ calls'[i] = Plain("running?", "hello")
           /\ \A i \in DOMAIN calls :
                Drop => i \in DOMAIN calls' /\ calls'[i].then = calls[i].then
  <1> DEFINE failed == [k \in DOMAIN calls |-> [calls[k] EXCEPT !.res = "error"]]
             left == [k \in DOMAIN calls |-> [calls[k] EXCEPT !.then = "ignored"]]
             q == Plain("running?", "hello")
  <1>1. q \in Requests
    BY CallsAreFresh DEF Fresh
  <1>2. /\ DOMAIN calls = 1 .. Len(calls) /\ Len(calls) \in Nat
        /\ \A j \in DOMAIN calls : calls[j] \in Requests
    BY ElementOfSeq, LenProperties DEF TypeInv
  <1>3. \A j \in DOMAIN calls :
          /\ failed[j] \in Requests /\ failed[j].res = "error"
          /\ failed[j].cmd = calls[j].cmd /\ failed[j].arg = calls[j].arg
          /\ failed[j].value = calls[j].value /\ failed[j].then = calls[j].then
          /\ left[j] \in Requests /\ left[j].then = "ignored"
          /\ left[j].cmd = calls[j].cmd /\ left[j].arg = calls[j].arg
          /\ left[j].value = calls[j].value /\ left[j].res = calls[j].res
    <2> HIDE DEF Configs, Commands
    <2> QED BY <1>2 DEF Requests, Thens
  <1>4. failed \in Seq(Requests) /\ left \in Seq(Requests)
    <2>1. failed \in [1 .. Len(calls) -> Requests] /\ left \in [1 .. Len(calls) -> Requests]
      BY <1>2, <1>3
    <2> QED BY <1>2, <2>1, SeqDef
  <1>5. DOMAIN failed = DOMAIN calls /\ DOMAIN left = DOMAIN calls
    OBVIOUS
  <1>6. ASSUME NEW s \in Seq(Requests), DOMAIN s = DOMAIN calls
        PROVE  /\ Append(s, q) \in Seq(Requests)
               /\ \A i \in DOMAIN Append(s, q) :
                     \/ i \in DOMAIN calls /\ Append(s, q)[i] = s[i]
                     \/ Append(s, q)[i] = q
               /\ \A i \in DOMAIN calls :
                     i \in DOMAIN Append(s, q) /\ Append(s, q)[i] = s[i]
    <2>1. /\ Append(s, q) \in Seq(Requests) /\ Len(Append(s, q)) = Len(s) + 1
          /\ \A i \in 1 .. Len(s) : Append(s, q)[i] = s[i]
          /\ Append(s, q)[Len(s) + 1] = q
      BY <1>1, AppendProperties
    <2>2. DOMAIN s = 1 .. Len(s) /\ Len(s) \in Nat
      BY LenProperties
    <2>3. DOMAIN Append(s, q) = 1 .. Len(s) + 1
      BY <2>1, LenProperties
    <2> HIDE DEF q
    <2> QED BY <1>6, <2>1, <2>2, <2>3
  <1>7. (Drop /\ calls' = Append(failed, q)) \/ calls' = Append(left, q)
    BY DEF Drop, Reload
  <1>8. Drop => calls' = Append(failed, q)
    BY DEF Drop
  <1> HIDE DEF failed, left, q
  <1>9. CASE Drop
    <2>1. /\ calls' \in Seq(Requests)
          /\ \A i \in DOMAIN calls' : \/ i \in DOMAIN calls /\ calls'[i] = failed[i]
                                      \/ calls'[i] = q
          /\ \A i \in DOMAIN calls : i \in DOMAIN calls' /\ calls'[i] = failed[i]
      BY <1>4, <1>5, <1>6, <1>8, <1>9
    <2> QED BY <1>3, <1>9, <2>1 DEF q
  <1>10. CASE ~Drop
    <2>1. /\ calls' \in Seq(Requests)
          /\ \A i \in DOMAIN calls' : \/ i \in DOMAIN calls /\ calls'[i] = left[i]
                                      \/ calls'[i] = q
      BY <1>4, <1>5, <1>6, <1>7, <1>10
    <2> QED BY <1>3, <1>10, <2>1 DEF q
  <1> QED BY <1>9, <1>10

\* Everything but the calls.
Around ==
    /\ box \in BOOLEAN /\ timer \in BOOLEAN
    /\ isRunning \in BOOLEAN /\ lastRunning \in BOOLEAN
    /\ form \in Kinds /\ stored \in Configs
    /\ shownHits \in 0 .. MaxCount /\ shownSent \in 0 .. MaxCount
    /\ engine \in Engines /\ history \in Histories

LEMMA TypeParts ==
    TypeInv <=> /\ Around /\ calls \in Seq(Requests)
                /\ \A k \in DOMAIN calls :
                     calls[k].res \in {"none", "ok", "error"} /\ Coherent(calls[k])
  BY TypeSplit DEF TypeInv, Around

LEMMA BackendStays ==
    ASSUME TypeInv, Execute \/ WriterSends \/ EngineEnds
    PROVE  Around'
  <1> USE TypeParts
  <1>0. Around
    OBVIOUS
  <1>1. CASE Execute
    <2>1. engine' \in Engines
      <3>1. PICK k : Executes(k)
        BY <1>1, OneIsExecuted
      <3>2. calls[k] \in Requests
        BY <3>1, ElementOfSeq, LenProperties DEF Executes, TypeInv
      <3> QED BY <3>1, <3>2, BackendFits DEF Executes, Around
    <2>2. history' \in Histories
      <3>1. \E b \in BOOLEAN : history' = [history EXCEPT !.leftover = b]
        BY <1>1, HistoryFits DEF Execute, Around
      <3> QED BY <3>1, HistoryFits DEF Around
    <2> QED BY <1>0, <1>1, <2>1, <2>2 DEF Execute, Around, fault, run
  <1>2. CASE WriterSends
    <2>1. engine' \in Engines
      <3>1. MaxCount \in Nat
        BY FaultPanelAssumption
      <3> HIDE DEF Configs
      <3> QED BY <1>0, <1>2, <3>1 DEF WriterSends, Around, Engines
    <2> QED BY <1>0, <1>2, <2>1 DEF WriterSends, Around, fault, run
  <1>3. CASE EngineEnds
    <2>1. engine' \in Engines
      <3> HIDE DEF Configs
      <3> QED BY <1>0, <1>3 DEF EngineEnds, Around, Engines
    <2>2. history' \in Histories
      <3>1. \E b \in BOOLEAN : history' = [history EXCEPT !.leftover = b]
        BY <1>0, <1>3 DEF EngineEnds, Around
      <3> QED BY <3>1, HistoryFits DEF Around
    <2> QED BY <1>0, <1>3, <2>1, <2>2 DEF EngineEnds, Around, fault, run
  <1> QED BY <1>1, <1>2, <1>3

LEMMA HandlersStay ==
    ASSUME TypeInv, Handlers
    PROVE  Around'
  <1>0. /\ Around
        /\ UiConfig \in Configs /\ [UiConfig EXCEPT !.on = FALSE] \in Configs
        /\ 0 \in 0 .. MaxCount
    BY TypeParts, FormFits, FaultPanelAssumption
  <1>1. ASSUME NEW then \in {"hits", "numbers"}, Answered(then)
        PROVE  Result \in 0 .. MaxCount
    BY <1>1, AnswerTaken DEF Coherent, Result
  <1>2. PublishingStopped /\ UNCHANGED <<history, engine>> /\ lastRunning' \in BOOLEAN
          => Around'
    BY <1>0 DEF PublishingStopped, Around, TimerAfterStop
  <1>3. Applied \/ ResetApplied \/ Ignored => Around'
    BY <1>0 DEF Applied, ResetApplied, Ignored, Around, fault, run
  <1>4. ResetDone => Around'
    BY <1>0 DEF ResetDone, HitsAfterReset, Around, run
  <1>5. HitsAnswered => Around'
    <2>1. HitsAnswered => shownHits' \in 0 .. MaxCount
      BY <1>0, <1>1 DEF HitsAnswered, HitsShown, Around
    <2> QED BY <1>0, <2>1 DEF HitsAnswered, Around, run
  <1>6. NumbersAnswered => Around'
    <2>1. NumbersAnswered => shownSent' \in 0 .. MaxCount
      BY <1>0, <1>1 DEF NumbersAnswered, Numbers, Around
    <2> QED BY <1>0, <2>1 DEF NumbersAnswered, Around, fault, run
  <1>7. Started => Around'
    BY <1>0 DEF Started, Around, fault, Ok
  <1>8. HelloAnswered => Around'
    BY <1>0 DEF HelloAnswered, Around, fault
  <1>9. Stopped => Around'
    BY <1>0, <1>2 DEF Stopped, Around, fault
  <1>10. PollAnswered => Around'
    <2>1. PollAnswered => /\ lastRunning' \in BOOLEAN
                          /\ UNCHANGED <<history, engine>>
      BY <1>0 DEF PollAnswered, Around
    <2> QED BY <1>0, <1>2, <2>1 DEF PollAnswered, Around, fault
  <1> QED BY <1>3, <1>4, <1>5, <1>6, <1>7, <1>8, <1>9, <1>10 DEF Handlers

LEMMA UserStays ==
    ASSUME TypeInv, UserActs \/ PanelNotices \/ FaultTick \/ BackTick \/ Drop
    PROVE  Around'
  <1>0. /\ Around
        /\ UiConfig \in Configs /\ Off \in Configs
        /\ 0 \in 0 .. MaxCount /\ "none" \in Kinds
    BY TypeParts, FormFits, FaultPanelAssumption DEF Kinds
  <1>1. /\ history.lost \in BOOLEAN /\ history.fiddled \in BOOLEAN
        /\ engine.running \in BOOLEAN
    BY <1>0, HistoryFits DEF Around, Engines
  <1> DEFINE b == UnderWay(Awaited) # {}
  <1>2. ASSUME Fiddles
        PROVE  history' \in Histories
    <2>1. history' = [history EXCEPT !.fiddled = @ \/ b]
      BY <1>2 DEF Fiddles
    <2>2. PICK f \in BOOLEAN : f = (history.fiddled \/ b)
      OBVIOUS
    <2>3. history' = [history EXCEPT !.fiddled = f]
      BY <2>1, <2>2
    <2> QED BY <1>0, <2>3, HistoryFits DEF Around
  <1>3. ASSUME Apply \/ ResetAll
        PROVE  history' \in Histories
    <2>1. \E z \in BOOLEAN :
            history' = [history EXCEPT !.zeroed = z, !.leftover = FALSE,
                                       !.lost = @ /\ ~Quiet, !.fiddled = @ /\ b]
      BY <1>3 DEF Apply, ResetAll
    <2>2. PICK f \in BOOLEAN : f = (history.fiddled /\ b)
      OBVIOUS
    <2>3. PICK l \in BOOLEAN : l = (history.lost /\ ~Quiet)
      OBVIOUS
    <2>4. \E z \in BOOLEAN :
            history' = [history EXCEPT !.zeroed = z, !.leftover = FALSE,
                                       !.lost = l, !.fiddled = f]
      BY <2>1, <2>2, <2>3
    <2> QED BY <1>0, <2>4, HistoryFits DEF Around
  <1>4. Tick => Around'
    BY <1>0, <1>2 DEF Tick, Around, run
  <1>5. ASSUME NEW p \in Profiles, Preset(p)
        PROVE  Around'
    BY <1>0, <1>2, <1>5 DEF Preset, Around, run, Kinds
  <1>6. ASSUME NEW k \in Kinds, Slide(k)
        PROVE  Around'
    BY <1>0, <1>6 DEF Slide, Around, run
  <1>7. Apply => Around'
    BY <1>0, <1>3 DEF Apply, Around, run
  <1>8. ResetAll => Around'
    BY <1>0, <1>3 DEF ResetAll, Around, run
  <1>9. ResetStats \/ Start \/ Stop \/ FaultTick \/ BackTick => Around'
    BY <1>0 DEF ResetStats, Start, Stop, FaultTick, BackTick, Around, fault, run
  <1>10. PanelNotices => Around'
    BY <1>0 DEF PanelNotices, Around, fault
  <1>11. Drop => Around'
    BY <1>0, HistoryFits DEF Drop, Around, fault, run
  <1>12. Reload => Around'
    BY <1>0, <1>1, HistoryFits DEF Reload, Around
  <1> QED BY <1>4, <1>5, <1>6, <1>7, <1>8, <1>9, <1>10, <1>11, <1>12 DEF UserActs

LEMMA TypeStep ==
    ASSUME TypeInv, [Next]_vars
    PROVE  TypeInv'
  <1>1. Around'
    <2>1. CASE UNCHANGED vars
      BY <2>1, TypeParts DEF Around, vars, fault, run
    <2>2. CASE Next
      BY <2>2, BackendStays, HandlersStay, UserStays DEF Next
    <2> QED BY <2>1, <2>2
  <1>2. /\ calls' \in Seq(Requests)
        /\ \A k \in DOMAIN calls' :
             calls'[k].res \in {"none", "ok", "error"} /\ Coherent(calls'[k])
    <2>1. CASE Execute
      <3>1. PICK k : Executes(k)
        BY <2>1, OneIsExecuted
      <3>2. calls[k] \in Requests /\ calls'[k].cmd \in {"hits?", "stats?"}
              => calls'[k].value \in 0 .. MaxCount
        BY <3>1, BackendFits, TypeParts DEF Executes, Around
      <3>3. calls[k] \in Requests
        BY <3>1, ElementOfSeq, LenProperties DEF Executes, TypeInv
      <3>4. Coherent(calls'[k])
        BY <3>1, <3>2, <3>3 DEF Executes, Coherent, TypeInv
      <3> QED BY <3>1, <3>4 DEF Executes, TypeInv, TypeOK
    <2>2. CASE Drop \/ Reload
      <3>1. Coherent(Plain("running?", "hello")) /\ Plain("running?", "hello").res = "none"
        BY CallsAreFresh DEF Fresh
      <3>2. ASSUME NEW i \in DOMAIN calls'
            PROVE  calls'[i].res \in {"none", "ok", "error"} /\ Coherent(calls'[i])
        <4>1. CASE calls'[i] = Plain("running?", "hello")
          BY <3>1, <4>1
        <4>2. CASE calls'[i] # Plain("running?", "hello")
          BY <2>2, <4>2, DropFits DEF Coherent, TypeInv, TypeOK
        <4> QED BY <4>1, <4>2
      <3> QED BY <2>2, <3>2, DropFits
    <2>3. CASE ~Execute /\ ~Drop /\ ~Reload
      BY <2>3, ActionsMove, TypedMove
    <2> QED BY <2>1, <2>2, <2>3
  <1>3. TypeInv' <=> /\ Around' /\ calls' \in Seq(Requests)
                     /\ \A k \in DOMAIN calls' :
                          calls'[k].res \in {"none", "ok", "error"} /\ Coherent(calls'[k])
    BY DEF TypeInv, TypeOK, Around, Engines, Histories
  <1> QED BY <1>1, <1>2, <1>3

LEMMA LossStep ==
    ASSUME TypeInv, LossInv, [Next]_vars
    PROVE  LossInv'
  <1>1. CASE Execute
    <2>1. PICK k : Executes(k)
      BY <1>1, OneIsExecuted
    <2>2. history'.lost = history.lost
      BY <1>1, TypeParts DEF Execute, Around, Histories
    <2>3. ASSUME ~history.lost, NEW i \in DOMAIN calls'
          PROVE  Attended(calls'[i])
      <3>1. i \in DOMAIN calls /\ Attended(calls[i])
        BY <2>1, <2>3 DEF Executes, LossInv
      <3>2. CASE i = k
        BY <2>1, <3>1, <3>2 DEF Executes, Attended, Refused
      <3>3. CASE i # k
        BY <2>1, <3>1, <3>3 DEF Executes
      <3> QED BY <3>2, <3>3
    <2> QED BY <2>2, <2>3 DEF LossInv
  <1>2. CASE Drop \/ Reload
    <2>1. history'.lost
      BY <1>2, TypeParts DEF Drop, Reload, Around, Histories
    <2> QED BY <2>1 DEF LossInv
  <1>3. CASE ~Execute /\ ~Drop /\ ~Reload
    <2>1. history'.lost \/ ~history.lost \/ calls = <<>>
      <3>1. history.lost \in BOOLEAN /\ history \in Histories
        BY TypeParts, HistoryFits DEF Around
      <3>2. CASE UNCHANGED history
        BY <3>2
      <3>3. CASE EngineEnds
        BY <3>1, <3>3 DEF EngineEnds, Histories
      <3>4. CASE Fiddles
        BY <3>1, <3>4 DEF Fiddles, Histories
      <3>5. CASE Apply \/ ResetAll
        BY <3>1, <3>5 DEF Apply, ResetAll, Histories, Quiet
      <3>6. Handlers => UNCHANGED history
        BY DEF Handlers, Applied, ResetApplied, ResetDone, HitsAnswered, Started,
             Stopped, PollAnswered, NumbersAnswered, HelloAnswered, Ignored
      <3>7. WriterSends \/ PanelNotices \/ FaultTick \/ BackTick => UNCHANGED history
        BY DEF WriterSends, PanelNotices, FaultTick, BackTick
      <3>8. UserActs => Fiddles \/ UNCHANGED history \/ Apply \/ ResetAll \/ Reload
        BY DEF UserActs, Tick, Preset, Slide, ResetStats, Start, Stop
      <3> QED BY <1>3, <3>2, <3>3, <3>4, <3>5, <3>6, <3>7, <3>8 DEF Next, vars
    <2> QED BY <1>3, <2>1, ActionsMove, LossMove
  <1> QED BY <1>1, <1>2, <1>3

-----------------------------------------------------------------------------
(* What is remembered, and what is asked with what.                        *)
Remembers ==
    /\ history'.lost = history.lost /\ history'.fiddled = history.fiddled
    /\ history'.zeroed = history.zeroed
Plainly ==
    \/ UNCHANGED vars \/ WriterSends \/ EngineEnds \/ Handlers
    \/ \E k \in Kinds : Slide(k)
    \/ ResetStats \/ Start \/ Stop \/ PanelNotices \/ FaultTick \/ BackTick
Fiddling == Tick \/ \E p \in Profiles : Preset(p)

LEMMA ActionsSorted ==
    [Next]_vars <=> \/ Execute \/ Plainly \/ Fiddling \/ Apply \/ ResetAll
                    \/ Reload \/ Drop
  BY DEF Next, UserActs, Plainly, Fiddling

LEMMA HistoryStep ==
    ASSUME TypeInv
    PROVE  /\ Plainly \/ Execute => Remembers
           /\ Fiddling => /\ history'.lost = history.lost
                          /\ history'.zeroed = history.zeroed
                          /\ history'.fiddled = (history.fiddled \/ AwaitedUnderWay)
           /\ Apply \/ ResetAll => history'.fiddled = (history.fiddled /\ AwaitedUnderWay)
           /\ Apply => ~history'.zeroed
           /\ Drop => /\ history'.lost /\ history'.fiddled = history.fiddled
           /\ Reload => history'.lost /\ ~history'.fiddled
  <1>1. history \in Histories
    BY TypeParts DEF Around
  <1>2. UnderWay(Awaited) # {} <=> AwaitedUnderWay
    BY DEF UnderWay, AwaitedUnderWay
  <1>3. UNCHANGED history => Remembers
    BY DEF Remembers
  <1>4. EngineEnds \/ Execute => Remembers
    BY <1>1 DEF EngineEnds, Execute, Remembers, Histories
  <1>5. Handlers => UNCHANGED history
    BY DEF Handlers, Applied, ResetApplied, ResetDone, HitsAnswered, Started,
         Stopped, PollAnswered, NumbersAnswered, HelloAnswered, Ignored
  <1>6. Plainly \/ Execute => Remembers
    BY <1>3, <1>4, <1>5 DEF Plainly, vars, WriterSends, Slide, ResetStats, Start, Stop,
         PanelNotices, FaultTick, BackTick
  <1>7. Fiddles => /\ history'.lost = history.lost /\ history'.zeroed = history.zeroed
                   /\ history'.fiddled = (history.fiddled \/ AwaitedUnderWay)
    BY <1>1, <1>2 DEF Fiddles, Histories
  <1>8. Fiddling => Fiddles
    BY DEF Fiddling, Tick, Preset
  <1>9. /\ Apply \/ ResetAll => history'.fiddled = (history.fiddled /\ AwaitedUnderWay)
        /\ Apply => ~history'.zeroed
    BY <1>1, <1>2 DEF Apply, ResetAll, Histories
  <1>10. /\ Drop => /\ history'.lost /\ history'.fiddled = history.fiddled
         /\ Reload => history'.lost /\ ~history'.fiddled
    BY <1>1 DEF Drop, Reload, Histories
  <1> QED BY <1>6, <1>7, <1>8, <1>9, <1>10

\* The calls that are made, field by field.
LEMMA CallFields ==
    /\ \A cmd, arg, then : /\ NewCall(cmd, arg, then).cmd = cmd
                           /\ NewCall(cmd, arg, then).arg = arg
                           /\ NewCall(cmd, arg, then).then = then
                           /\ NewCall(cmd, arg, then).res = "none"
    /\ \A cmd, then : /\ Plain(cmd, then).cmd = cmd
                      /\ Plain(cmd, then).then = then
                      /\ Plain(cmd, then).res = "none"
  BY DEF NewCall, Plain

\* What is told by a run's end: the store is off, and so is the call.
LEMMA OffTold ==
    ASSUME TypeInv
    PROVE  /\ OffCall.cmd = "configure" /\ OffCall.then = "ignored"
           /\ Effect(OffCall.arg) = "none" /\ Configuring(OffCall)
           /\ NumbersCall.cmd = "stats?" /\ NumbersCall.then = "numbers"
           /\ ~Configuring(NumbersCall)
           /\ PublishingStopped =>
                 /\ Effect(stored') = "none" /\ stored'.on = FALSE
                 /\ box' = FALSE /\ timer' = FALSE /\ shownHits' = shownHits
  <1> DEFINE off == [UiConfig EXCEPT !.on = FALSE]
  <1>1. off.on = FALSE /\ Effect(off) = "none"
    BY FormFits DEF Effect
  <1>2. OffCall = NewCall("configure", off, "ignored")
    BY DEF OffCall
  <1>3. PublishingStopped => /\ stored' = off /\ box' = FALSE /\ timer' = FALSE
                             /\ shownHits' = shownHits
    BY DEF PublishingStopped, TimerAfterStop
  <1> HIDE DEF off
  <1>4. /\ OffCall.cmd = "configure" /\ OffCall.then = "ignored"
        /\ OffCall.arg = off /\ OffCall.res = "none"
    BY <1>2, CallFields
  <1>5. NumbersCall.cmd = "stats?" /\ NumbersCall.then = "numbers"
    BY CallFields DEF NumbersCall
  <1>6. PublishingStopped => Effect(stored') = "none"
    BY <1>1, <1>3
  <1> QED BY <1>1, <1>3, <1>4, <1>5, <1>6 DEF Configuring

-----------------------------------------------------------------------------
(* The store and the injector.                                             *)
LEMMA HandlersAnswer ==
    /\ Applied => Answered("applied")
    /\ ResetApplied => Answered("resetApplied")
    /\ ResetDone => Answered("resetDone")
    /\ HitsAnswered => Answered("hits")
    /\ Started => Answered("started")
    /\ Stopped => Answered("stopped")
    /\ PollAnswered => Answered("poll")
    /\ NumbersAnswered => Answered("numbers")
    /\ HelloAnswered => Answered("hello")
    /\ Ignored => Answered("ignored")
  BY DEF Applied, ResetApplied, ResetDone, HitsAnswered, Started, Stopped,
       PollAnswered, NumbersAnswered, HelloAnswered, Ignored

\* One configuration is sent, and stored; the store is switched off.
Tells(d, N) ==
    /\ Moves(d, N) /\ OffCall \in N
    /\ \A e \in N : e = OffCall \/ e = NumbersCall
    /\ PublishingStopped

\* Nothing is configured and nothing is stored.
Spares(d, N) ==
    /\ Moves(d, N)
    /\ d = 1 => calls[1].then # "stopped"
    /\ \A c \in N : c.cmd # "configure"
    /\ stored' = stored /\ engine'.faults = engine.faults

LEMMA SparedOrTold ==
    ASSUME TypeInv, Plainly \/ Fiddling, ~Stopped
    PROVE  \E d, N : Spares(d, N) \/ Tells(d, N)
  <1>1. ASSUME UNCHANGED <<calls, stored>>, engine'.faults = engine.faults
        PROVE  Spares(0, {})
    BY <1>1, Asking DEF Spares
  <1>2. ASSUME UNCHANGED <<stored, engine>>, NEW cmd, NEW then, cmd # "configure",
               Moves(0, {Plain(cmd, then)})
        PROVE  Spares(0, {Plain(cmd, then)})
    BY <1>2, CallFields DEF Spares
  <1>3. CASE UNCHANGED vars \/ Fiddling \/ \E k \in Kinds : Slide(k)
    BY <1>1, <1>3 DEF vars, fault, Fiddling, Tick, Preset, Slide
  <1>4. CASE WriterSends \/ EngineEnds
    <2>1. engine'.faults = engine.faults
      BY <1>4, TypeParts DEF WriterSends, EngineEnds, Around, Engines
    <2> QED BY <1>1, <1>4, <2>1 DEF WriterSends, EngineEnds, fault
  <1>5. CASE PanelNotices
    BY <1>1, <1>5 DEF PanelNotices, fault
  <1>6. CASE ResetStats
    BY <1>2, <1>6, Asking DEF ResetStats, fault
  <1>7. CASE Start
    BY <1>2, <1>7, Asking DEF Start, fault
  <1>8. CASE Stop
    BY <1>2, <1>8, Asking DEF Stop, fault
  <1>9. CASE FaultTick
    BY <1>2, <1>9, Asking DEF FaultTick, fault
  <1>10. CASE BackTick
    BY <1>2, <1>10, Asking DEF BackTick, fault
  <1>11. CASE Handlers
    <2>1. calls[1].then # "stopped"
      <3>1. \E then : then # "stopped" /\ Answered(then)
        BY <1>11, HandlersAnswer DEF Handlers
      <3> QED BY <3>1, AnswerTaken
    <2>2. CASE Applied \/ ResetDone \/ HitsAnswered \/ Started \/ NumbersAnswered
                 \/ HelloAnswered \/ Ignored
      <3>1. Moves(1, {})
        BY <2>2, Answering
      <3>2. UNCHANGED <<stored, engine>>
        BY <2>2 DEF Applied, ResetDone, HitsAnswered, Started, NumbersAnswered,
             HelloAnswered, Ignored, fault
      <3>3. Spares(1, {})
        BY <2>1, <3>1, <3>2 DEF Spares
      <3> QED BY <3>3
    <2>3. CASE ResetApplied
      <3>1. UNCHANGED <<stored, engine>>
        BY <2>3 DEF ResetApplied, fault
      <3>2. Spares(1, {Plain("resetHits", "resetDone")})
        BY <2>1, <2>3, <3>1, Answering, CallFields DEF Spares
      <3> QED BY <3>2
    <2>4. CASE PollAnswered
      <3> DEFINE N == (IF SawEnd THEN {OffCall} ELSE {}) \cup (IF Ok THEN {NumbersCall} ELSE {})
      <3>1. Moves(1, N)
        BY <2>4, Answering
      <3>2. UNCHANGED engine /\ (IF SawEnd THEN PublishingStopped ELSE UNCHANGED stored)
        BY <2>4 DEF PollAnswered, fault
      <3>3. \A e \in N : (SawEnd /\ e = OffCall) \/ e = NumbersCall
        OBVIOUS
      <3>4. SawEnd => OffCall \in N
        OBVIOUS
      <3> HIDE DEF N
      <3>5. CASE SawEnd
        BY <3>1, <3>2, <3>3, <3>4, <3>5 DEF Tells
      <3>6. CASE ~SawEnd
        <4>1. \A e \in N : e.cmd # "configure"
          BY <3>3, <3>6, OffTold
        <4>2. Spares(1, N)
          BY <2>1, <3>1, <3>2, <3>6, <4>1 DEF Spares
        <4> QED BY <4>2
      <3> QED BY <3>5, <3>6
    <2> QED BY <1>11, <2>2, <2>3, <2>4 DEF Handlers
  <1> QED BY <1>3, <1>4, <1>5, <1>6, <1>7, <1>8, <1>9, <1>10, <1>11 DEF Plainly

\* A stop is answered: it has succeeded, unless the connection was lost.
LEMMA StopTells ==
    ASSUME TypeInv, LossInv, Stopped
    PROVE  history.lost \/ \E N : Tells(1, N)
  <1>1. /\ 1 \in DOMAIN calls /\ Head(calls) = calls[1]
        /\ calls[1].then = "stopped" /\ calls[1].res # "none" /\ calls[1].cmd = "stop"
    BY HandlersAnswer, AnswerTaken DEF Coherent
  <1>2. CASE ~history.lost
    <2>1. Attended(calls[1])
      BY <1>1, <1>2 DEF LossInv
    <2>2. Ok
      BY <1>1, <2>1, TypeParts DEF Attended, Ok
    <2>3. Moves(1, {OffCall})
      BY <2>2, Answering
    <2>4. PublishingStopped
      BY <2>2 DEF Stopped
    <2>5. Tells(1, {OffCall})
      BY <2>3, <2>4 DEF Tells
    <2> QED BY <2>5
  <1> QED BY <1>2

LEMMA StoreStep ==
    ASSUME TypeInv, LossInv, StoreInv, [Next]_vars
    PROVE  StoreInv'
  <1>1. ASSUME NEW d, NEW N, Tells(d, N)
        PROVE  StoreInv'
    <2>1. Effect(OffCall.arg) = Effect(stored') /\ OffCall.cmd = "configure"
      BY <1>1, OffTold DEF Tells
    <2>2. \A e \in N : Configuring(e) => e = OffCall
      BY <1>1, OffTold DEF Tells
    <2>3. Moves(d, N) /\ OffCall \in N
      BY <1>1 DEF Tells
    <2> QED BY <2>1, <2>2, <2>3, StoreSent
  <1>2. history'.lost => StoreInv'
    BY DEF StoreInv
  <1>3. CASE Plainly \/ Fiddling
    <2>1. history'.lost = history.lost
      BY <1>3, HistoryStep DEF Remembers
    <2>2. CASE Stopped
      BY <1>1, <1>2, <2>1, <2>2, StopTells
    <2>3. CASE ~Stopped
      <3>1. PICK d, N : Spares(d, N) \/ Tells(d, N)
        BY <1>3, <2>3, SparedOrTold
      <3>2. CASE Spares(d, N)
        <4>1. \A c \in N : ~Configuring(c)
          BY <3>2 DEF Spares, Configuring
        <4> QED BY <2>1, <3>2, <4>1, StoreCarried DEF Spares
      <3> QED BY <1>1, <3>1, <3>2
    <2> QED BY <2>2, <2>3
  <1>4. CASE Apply
    <2> DEFINE c == NewCall("configure", UiConfig, "applied")
    <2>1. Moves(0, {c}) /\ stored' = UiConfig
      BY <1>4, Asking DEF Apply
    <2>2. c.cmd = "configure" /\ Effect(c.arg) = Effect(stored')
      BY <2>1, CallFields DEF Effect
    <2> HIDE DEF c
    <2> QED BY <2>1, <2>2, StoreSent
  <1>5. CASE ResetAll
    <2> DEFINE c == NewCall("configure", Off, "resetApplied")
    <2>1. Moves(0, {c}) /\ stored' = Off
      BY <1>5, Asking DEF ResetAll
    <2>2. c.cmd = "configure" /\ Effect(c.arg) = Effect(stored')
      BY <2>1, CallFields DEF Effect
    <2> HIDE DEF c
    <2> QED BY <2>1, <2>2, StoreSent
  <1>6. CASE Drop \/ Reload
    BY <1>2, <1>6, HistoryStep
  <1>7. CASE Execute
    <2>1. PICK k : Executes(k)
      BY <1>7, OneIsExecuted
    <2>2. UNCHANGED stored /\ history'.lost = history.lost
      BY <1>7, HistoryStep DEF Execute, fault, Remembers
    <2> SUFFICES ASSUME ~history.lost, ~StopUnderWay'
                 PROVE  /\ \A i \in DOMAIN calls :
                             Configuring(calls'[i]) =>
                               \/ Effect(calls'[i].arg) = Effect(stored)
                               \/ \E j \in DOMAIN calls : i < j /\ Configuring(calls'[j])
                        /\ \/ Effect(engine'.faults) = Effect(stored)
                           \/ \E j \in DOMAIN calls : Configuring(calls'[j])
      BY <2>1, <2>2 DEF StoreInv, Executes, Effect, Configuring
    <2>3. \A i \in DOMAIN calls : calls'[i].then = calls[i].then
      BY <2>1 DEF Executes
    <2>4. ~StopUnderWay
      BY <2>1, <2>3 DEF StopUnderWay, Executes
    <2>5. /\ \A i \in DOMAIN calls :
               Configuring(calls[i]) =>
                 \/ Effect(calls[i].arg) = Effect(stored)
                 \/ \E j \in DOMAIN calls : i < j /\ Configuring(calls[j])
          /\ \/ Effect(engine.faults) = Effect(stored)
             \/ \E j \in DOMAIN calls : Configuring(calls[j])
      BY <2>4 DEF StoreInv
    <2>6. /\ k \in DOMAIN calls /\ DOMAIN calls \subseteq Nat
          /\ \A i \in DOMAIN calls : Configuring(calls[i]) => k <= i
          /\ \A i \in DOMAIN calls : i # k => calls'[i] = calls[i]
          /\ ~Configuring(calls'[k])
          /\ Configuring(calls[k]) <=> calls[k].cmd = "configure"
      BY <2>1, LenProperties DEF Executes, Configuring, TypeInv
    <2>7. CASE calls[k].cmd = "configure"
      <3>1. engine'.faults = calls[k].arg
        BY <2>1, <2>7, TypeParts DEF Executes, Refused, After, Around, Engines
      <3> QED BY <2>5, <2>6, <2>7, <3>1
    <2>8. CASE calls[k].cmd # "configure"
      <3>1. calls[k].cmd # "stop"
        BY <2>4, <2>6 DEF StopUnderWay, LossInv, Attended
      <3>2. engine'.faults = engine.faults
        BY <2>1, <2>8, <3>1, TypeParts DEF Executes, Refused, After, Around, Engines
      <3> QED BY <2>5, <2>6, <2>8, <3>2
    <2> QED BY <2>7, <2>8
  <1> QED BY <1>3, <1>4, <1>5, <1>6, <1>7, ActionsSorted

-----------------------------------------------------------------------------
(* The panel's timer.                                                      *)

\* The timer, the box and the awaited calls are left as they are.
LEMMA PollCarried ==
    ASSUME TypeInv, PollInv, history'.fiddled = history.fiddled,
           NEW d, NEW N, Moves(d, N),
           timer' = timer, stored' = stored, box' = box,
           d = 1 => calls[1].then \notin Awaited,
           \A c \in N : c.then \notin Awaited
    PROVE  PollInv'
  <1>1. /\ AwaitedUnderWay' <=> AwaitedUnderWay
        /\ ResetUnderWay' <=> ResetUnderWay
    BY AwaitedMove DEF Awaited
  <1> QED BY <1>1 DEF PollInv

LEMMA PollAsked ==
    ASSUME TypeInv, PollInv, Apply \/ ResetAll
    PROVE  PollInv'
  <1>1. ~history'.fiddled => ~history.fiddled \/ ~AwaitedUnderWay
    BY HistoryStep
  <1>2. ResetUnderWay => AwaitedUnderWay
    BY DEF ResetUnderWay, AwaitedUnderWay, Awaited
  <1>3. CASE Apply
    <2> DEFINE c == NewCall("configure", UiConfig, "applied")
    <2>1. Moves(0, {c}) /\ stored'.on = box' /\ box' = box
      BY <1>3, Asking, FormFits DEF Apply
    <2>2. c.then = "applied"
      BY CallFields
    <2> HIDE DEF c
    <2>3. AwaitedUnderWay' /\ (ResetUnderWay' => ResetUnderWay)
      BY <2>1, <2>2, AwaitedMove DEF Awaited
    <2> QED BY <1>1, <1>2, <2>1, <2>3 DEF PollInv
  <1>4. CASE ResetAll
    <2> DEFINE c == NewCall("configure", Off, "resetApplied")
    <2>1. Moves(0, {c}) /\ stored'.on = FALSE /\ box' = FALSE
      BY <1>4, Asking, FormFits DEF ResetAll
    <2>2. c.then = "resetApplied"
      BY CallFields
    <2> HIDE DEF c
    <2>3. AwaitedUnderWay'
      BY <2>1, <2>2, AwaitedMove DEF Awaited
    <2> QED BY <2>1, <2>3 DEF PollInv
  <1> QED BY <1>3, <1>4

LEMMA PollAwaited ==
    ASSUME TypeInv, PollInv, Applied \/ ResetApplied \/ ResetDone
    PROVE  PollInv'
  <1>1. history'.fiddled = history.fiddled /\ UNCHANGED <<box, stored>>
    BY DEF Applied, ResetApplied, ResetDone, fault
  <1>2. 1 \in DOMAIN calls /\ \E then : Answered(then) /\ calls[1].then = then
    BY HandlersAnswer, AnswerTaken
  <1>3. CASE Applied
    <2>1. calls[1].then = "applied" /\ AwaitedUnderWay
      BY <1>2, <1>3, HandlersAnswer, AnswerTaken DEF AwaitedUnderWay, Awaited
    <2>2. Moves(1, {}) /\ timer' = box
      BY <1>3, Answering DEF Applied
    <2>3. ResetUnderWay' => ResetUnderWay
      BY <2>2, AwaitedMove
    <2> QED BY <1>1, <2>1, <2>2, <2>3 DEF PollInv
  <1>4. CASE ResetApplied
    <2> DEFINE c == Plain("resetHits", "resetDone")
    <2>1. calls[1].then = "resetApplied" /\ AwaitedUnderWay /\ ResetUnderWay
      BY <1>2, <1>4, HandlersAnswer, AnswerTaken DEF AwaitedUnderWay, Awaited, ResetUnderWay
    <2>2. Moves(1, {c}) /\ c.then = "resetDone"
      BY <1>4, Answering, CallFields
    <2> HIDE DEF c
    <2>3. AwaitedUnderWay'
      BY <2>2, AwaitedMove DEF Awaited
    <2> QED BY <1>1, <2>1, <2>3 DEF PollInv
  <1>5. CASE ResetDone
    <2>1. calls[1].then = "resetDone" /\ AwaitedUnderWay /\ ResetUnderWay
      BY <1>2, <1>5, HandlersAnswer, AnswerTaken DEF AwaitedUnderWay, Awaited, ResetUnderWay
    <2>2. timer' = FALSE /\ box \in BOOLEAN
      BY <1>5, TypeParts DEF ResetDone, Around
    <2>3. ~history.fiddled => stored.on = FALSE /\ box = FALSE
      BY <2>1, <2>2 DEF PollInv
    <2> QED BY <1>1, <2>2, <2>3 DEF PollInv
  <1> QED BY <1>3, <1>4, <1>5

\* The store is left alone by everything else, or the run's end is told.
LEMMA PollOthers ==
    ASSUME TypeInv, PollInv, Plainly,
           ~Applied, ~ResetApplied, ~ResetDone
    PROVE  PollInv'
  <1>1. history'.fiddled = history.fiddled
    BY HistoryStep DEF Remembers
  <1>2. PublishingStopped => PollInv'
    BY OffTold DEF PollInv
  <1>3. ASSUME UNCHANGED <<timer, stored, box, calls>>
        PROVE  PollInv'
    BY <1>1, <1>3, Asking, PollCarried
  <1>4. ASSUME UNCHANGED <<timer, stored, box>>, NEW cmd, NEW then, then \notin Awaited,
               Moves(0, {Plain(cmd, then)})
        PROVE  PollInv'
    <2>1. \A c \in {Plain(cmd, then)} : c.then \notin Awaited
      BY <1>4, CallFields
    <2> QED BY <1>1, <1>4, <2>1, PollCarried
  <1>5. CASE UNCHANGED vars \/ WriterSends \/ EngineEnds \/ PanelNotices
               \/ \E k \in Kinds : Slide(k)
    BY <1>3, <1>5 DEF vars, fault, WriterSends, EngineEnds, PanelNotices, Slide
  <1>6. CASE ResetStats
    BY <1>4, <1>6, Asking DEF ResetStats, fault, Awaited
  <1>7. CASE Start
    BY <1>4, <1>7, Asking DEF Start, fault, Awaited
  <1>8. CASE Stop
    BY <1>4, <1>8, Asking DEF Stop, fault, Awaited
  <1>9. CASE FaultTick
    BY <1>4, <1>9, Asking DEF FaultTick, fault, Awaited
  <1>10. CASE BackTick
    BY <1>4, <1>10, Asking DEF BackTick, fault, Awaited
  <1>11. ASSUME Handlers
         PROVE  PollInv'
    <2>1. calls[1].then \notin Awaited
      <3>1. \E then : then \notin Awaited /\ Answered(then)
        BY <1>11, HandlersAnswer DEF Handlers, Awaited
      <3> QED BY <3>1, AnswerTaken
    <2>2. ASSUME UNCHANGED <<timer, stored, box>>, NEW N, Moves(1, N),
                 \A c \in N : c = OffCall \/ c = NumbersCall
          PROVE  PollInv'
      <3>1. \A c \in N : c.then \notin Awaited
        BY <2>2, OffTold DEF Awaited
      <3> QED BY <1>1, <2>1, <2>2, <3>1, PollCarried
    <2>3. CASE HitsAnswered \/ Started \/ NumbersAnswered \/ HelloAnswered \/ Ignored
      <3>1. Moves(1, {})
        BY <2>3, Answering
      <3>2. UNCHANGED <<timer, stored, box>>
        BY <2>3 DEF HitsAnswered, Started, NumbersAnswered, HelloAnswered, Ignored, fault
      <3> QED BY <2>2, <3>1, <3>2
    <2>4. CASE Stopped
      <3>1. Moves(1, IF Ok THEN {OffCall} ELSE {})
        BY <2>4, Answering
      <3>2. PublishingStopped \/ UNCHANGED <<timer, stored, box>>
        BY <2>4 DEF Stopped, fault
      <3> QED BY <1>2, <2>2, <3>1, <3>2
    <2>5. CASE PollAnswered
      <3>1. Moves(1, (IF SawEnd THEN {OffCall} ELSE {})
                        \cup (IF Ok THEN {NumbersCall} ELSE {}))
        BY <2>5, Answering
      <3>2. PublishingStopped \/ UNCHANGED <<timer, stored, box>>
        BY <2>5 DEF PollAnswered, fault
      <3> QED BY <1>2, <2>2, <3>1, <3>2
    <2> QED BY <1>11, <2>3, <2>4, <2>5 DEF Handlers
  <1> QED BY <1>5, <1>6, <1>7, <1>8, <1>9, <1>10, <1>11 DEF Plainly

LEMMA PollStep ==
    ASSUME TypeInv, PollInv, [Next]_vars
    PROVE  PollInv'
  <1>1. CASE Apply \/ ResetAll
    BY <1>1, PollAsked
  <1>2. CASE Plainly
    BY <1>2, PollAwaited, PollOthers
  <1>3. CASE Fiddling
    <2>1. UNCHANGED <<timer, stored, calls>>
      BY <1>3 DEF Fiddling, Tick, Preset
    <2>2. /\ ~history'.fiddled => ~history.fiddled /\ ~AwaitedUnderWay
          /\ ResetUnderWay' => AwaitedUnderWay'
          /\ AwaitedUnderWay' <=> AwaitedUnderWay
      BY <1>3, <2>1, HistoryStep DEF ResetUnderWay, AwaitedUnderWay, Awaited
    <2> QED BY <2>1, <2>2 DEF PollInv
  <1>4. CASE Execute
    <2>1. PICK k : Executes(k)
      BY <1>4, OneIsExecuted
    <2>2. \A i \in DOMAIN calls : calls'[i].then = calls[i].then
      BY <2>1 DEF Executes
    <2>3. /\ AwaitedUnderWay' <=> AwaitedUnderWay
          /\ ResetUnderWay' <=> ResetUnderWay
      BY <2>1, <2>2 DEF Executes, AwaitedUnderWay, ResetUnderWay, Awaited
    <2>4. UNCHANGED <<timer, stored, box>> /\ history'.fiddled = history.fiddled
      BY <1>4, HistoryStep DEF Execute, fault, Remembers
    <2> QED BY <2>3, <2>4 DEF PollInv
  <1>5. CASE Drop
    <2>1. Plain("running?", "hello").then = "hello"
      BY CallFields
    <2>2. /\ AwaitedUnderWay' <=> AwaitedUnderWay
          /\ ResetUnderWay' <=> ResetUnderWay
      BY <1>5, <2>1, DropFits DEF AwaitedUnderWay, ResetUnderWay, Awaited
    <2>3. UNCHANGED <<timer, stored, box>> /\ history'.fiddled = history.fiddled
      BY <1>5, HistoryStep DEF Drop, fault
    <2> QED BY <2>2, <2>3 DEF PollInv
  <1>6. CASE Reload
    <2>1. Plain("running?", "hello").then = "hello"
      BY CallFields
    <2>2. CASE Drop
      BY <1>5, <2>2
    <2>3. CASE ~Drop
      <3>1. ~AwaitedUnderWay' /\ ~ResetUnderWay'
        BY <1>6, <2>1, <2>3, DropFits DEF AwaitedUnderWay, ResetUnderWay, Awaited
      <3>2. timer' = FALSE /\ stored'.on = FALSE
        BY <1>6, FormFits DEF Reload
      <3> QED BY <3>1, <3>2 DEF PollInv
    <2> QED BY <2>2, <2>3
  <1> QED BY <1>1, <1>2, <1>3, <1>4, <1>5, <1>6, ActionsSorted

-----------------------------------------------------------------------------
(* The counters after a reset.                                             *)
LEMMA ZeroExecuted ==
    ASSUME TypeInv, ZeroInv, Execute
    PROVE  ZeroInv'
  <1>1. PICK k : Executes(k)
    BY OneIsExecuted
  <1>2. UNCHANGED shownHits /\ Remembers
    BY HistoryStep DEF Execute, fault
  <1> SUFFICES ASSUME history.zeroed, ~history.lost
               PROVE  ZeroInv'
    BY <1>2 DEF ZeroInv, Remembers
  <1> DEFINE e == calls[k]
  <1>3. /\ k \in DOMAIN calls /\ DOMAIN calls \subseteq Nat /\ DOMAIN calls' = DOMAIN calls
        /\ e.res = "none" /\ calls'[k].res # "none"
        /\ \A j \in DOMAIN calls : calls[j].res = "none" => k <= j
        /\ \A j \in DOMAIN calls : j # k => calls'[j] = calls[j]
        /\ calls'[k].then = e.then /\ calls'[k].value = Value(e)
    BY <1>1, LenProperties DEF Executes, TypeInv
  <1>4. /\ engine'.faults = CASE e.cmd = "configure" -> e.arg
                              [] e.cmd = "stop" -> Off
                              [] OTHER -> engine.faults
        /\ engine'.hits = IF e.cmd \in {"resetHits", "stop"} THEN 0 ELSE engine.hits
    BY <1>1, TypeParts DEF Executes, Refused, After, Disarmed, Around, Engines
  <1>5. Effect(Off) = "none"
    BY DEF Effect, Off
  <1>6. Coherent(e)
    BY <1>3 DEF TypeInv
  <1> HIDE DEF e
  <1>7. ASSUME NEW i \in DOMAIN calls, Configuring(calls[i]), Effect(calls[i].arg) # "none"
        PROVE  \E j \in DOMAIN calls : i < j /\ AppliesOff(calls[j]) /\ calls[j].res = "none"
    BY <1>7 DEF ZeroInv
  <1>8. ASSUME NEW i \in DOMAIN calls', Configuring(calls'[i]), Effect(calls'[i].arg) # "none"
        PROVE  \E j \in DOMAIN calls' : i < j /\ AppliesOff(calls'[j]) /\ calls'[j].res = "none"
    <2>1. i # k /\ calls'[i] = calls[i] /\ k <= i
      BY <1>3, <1>8 DEF Configuring
    <2>2. PICK j \in DOMAIN calls : i < j /\ AppliesOff(calls[j]) /\ calls[j].res = "none"
      BY <1>3, <1>7, <1>8, <2>1
    <2>3. j # k
      BY <1>3, <2>1, <2>2
    <2> QED BY <1>3, <2>2, <2>3
  <1>9. ASSUME Effect(engine'.faults) # "none"
        PROVE  \E j \in DOMAIN calls' : AppliesOff(calls'[j]) /\ calls'[j].res = "none"
    <2>1. CASE e.cmd = "configure"
      <3>1. Effect(e.arg) # "none" /\ Configuring(e)
        BY <1>3, <1>4, <1>9, <2>1 DEF Configuring
      <3>2. PICK j \in DOMAIN calls : k < j /\ AppliesOff(calls[j]) /\ calls[j].res = "none"
        BY <1>3, <1>7, <3>1 DEF e
      <3>3. j # k
        BY <1>3, <3>2
      <3> QED BY <1>3, <3>2, <3>3
    <2>2. CASE e.cmd # "configure"
      <3>1. Effect(engine.faults) # "none"
        BY <1>4, <1>5, <1>9, <2>2
      <3>2. PICK j \in DOMAIN calls : AppliesOff(calls[j]) /\ calls[j].res = "none"
        BY <3>1 DEF ZeroInv
      <3>3. j # k
        BY <1>6, <2>2, <3>2 DEF AppliesOff, Coherent, e
      <3> QED BY <1>3, <3>2, <3>3
    <2> QED BY <2>1, <2>2
  <1>10. ASSUME engine.hits # 0
         PROVE  \E j \in DOMAIN calls :
                   \/ AppliesOff(calls[j])
                   \/ calls[j].then = "resetDone" /\ calls[j].res = "none"
    BY <1>10 DEF ZeroInv
  <1>11. ASSUME engine'.hits # 0
         PROVE  \E j \in DOMAIN calls' :
                   \/ AppliesOff(calls'[j])
                   \/ calls'[j].then = "resetDone" /\ calls'[j].res = "none"
    <2>1. e.cmd # "resetHits" /\ engine.hits # 0
      BY <1>4, <1>11
    <2>2. PICK j \in DOMAIN calls : \/ AppliesOff(calls[j])
                                    \/ calls[j].then = "resetDone" /\ calls[j].res = "none"
      BY <1>10, <2>1
    <2>3. j = k => AppliesOff(calls[j])
      BY <1>6, <2>1, <2>2 DEF Coherent, e
    <2> QED BY <1>3, <2>2, <2>3 DEF AppliesOff, e
  <1>12. ASSUME NEW i \in DOMAIN calls', calls'[i].then = "hits",
                calls'[i].res = "ok", calls'[i].value # 0
         PROVE  \E j \in DOMAIN calls' : \/ AppliesOff(calls'[j])
                                         \/ i < j /\ calls'[j].then = "resetDone"
    <2>1. \A j \in DOMAIN calls : calls'[j].then = calls[j].then
      BY <1>3 DEF e
    <2> SUFFICES \E j \in DOMAIN calls : \/ AppliesOff(calls[j])
                                         \/ i < j /\ calls[j].then = "resetDone"
      BY <1>3, <2>1 DEF AppliesOff
    <2>2. CASE i # k
      BY <1>3, <1>12, <2>2 DEF ZeroInv
    <2>3. CASE i = k
      <3>1. e.then = "hits" /\ e.cmd = "hits?" /\ Value(e) # 0
        BY <1>3, <1>6, <1>12, <2>3 DEF Coherent
      <3>2. engine.hits # 0
        BY <3>1 DEF Value
      <3>3. PICK j \in DOMAIN calls : \/ AppliesOff(calls[j])
                                      \/ calls[j].then = "resetDone" /\ calls[j].res = "none"
        BY <1>10, <3>2
      <3>4. CASE ~AppliesOff(calls[j])
        <4>1. j # k /\ k <= j
          BY <1>3, <3>1, <3>3, <3>4 DEF e
        <4>2. i < j
          BY <1>3, <2>3, <4>1
        <4> QED BY <3>3, <3>4, <4>2
      <3> QED BY <3>3, <3>4
    <2> QED BY <2>2, <2>3
  <1>13. shownHits' # 0 => ResetUnderWay'
    BY <1>2, <1>3 DEF ZeroInv, ResetUnderWay, e
  <1> QED BY <1>8, <1>9, <1>11, <1>12, <1>13 DEF ZeroInv, Effect, Configuring, AppliesOff

\* The two steps of a reset are answered: the later one takes over.
LEMMA ZeroGoesOn ==
    ASSUME TypeInv, LossInv, ZeroInv, ResetApplied \/ ResetDone
    PROVE  ZeroInv'
  <1>1. UNCHANGED <<engine, history>>
    BY DEF ResetApplied, ResetDone
  <1> SUFFICES ASSUME history.zeroed, ~history.lost
               PROVE  ZeroInv'
    BY <1>1 DEF ZeroInv
  <1> DEFINE N == IF ResetApplied THEN {Plain("resetHits", "resetDone")} ELSE {}
  <1>2. /\ 1 \in DOMAIN calls /\ Head(calls) = calls[1] /\ calls[1].res # "none"
        /\ \/ ResetApplied /\ calls[1].then = "resetApplied"
           \/ ResetDone /\ ~ResetApplied /\ calls[1].then = "resetDone"
    BY HandlersAnswer, AnswerTaken
  <1>3. Moves(1, N) /\ \A c \in N : c.then = "resetDone" /\ c.res = "none" /\ c.cmd = "resetHits"
    BY <1>2, Answering, CallFields
  <1>4. ResetApplied => \E c \in N : TRUE
    OBVIOUS
  <1> HIDE DEF N
  <1>5. /\ DOMAIN calls \subseteq Nat \ {0} /\ DOMAIN calls' \subseteq Nat
        /\ \A j \in DOMAIN calls :
             j # 1 => j - 1 \in DOMAIN calls' /\ calls'[j - 1] = calls[j]
        /\ \A i \in DOMAIN calls' :
             \/ i + 1 \in DOMAIN calls /\ calls'[i] = calls[i + 1]
             \/ calls'[i] \in N
    BY <1>3, LenProperties DEF Moves, Built, TypeInv
  <1>6. ResetApplied =>
          \E j \in DOMAIN calls' : /\ calls'[j].then = "resetDone" /\ calls'[j].res = "none"
                                   /\ \A i \in DOMAIN calls : i - 1 < j
    BY <1>3, <1>4 DEF Moves, Built
  <1>7. ASSUME NEW i \in DOMAIN calls', Configuring(calls'[i]), Effect(calls'[i].arg) # "none"
        PROVE  \E j \in DOMAIN calls' : i < j /\ AppliesOff(calls'[j]) /\ calls'[j].res = "none"
    <2>1. i + 1 \in DOMAIN calls /\ calls'[i] = calls[i + 1]
      BY <1>3, <1>5, <1>7 DEF Configuring
    <2>2. PICK j \in DOMAIN calls : i + 1 < j /\ AppliesOff(calls[j]) /\ calls[j].res = "none"
      BY <1>7, <2>1 DEF ZeroInv
    <2>3. j # 1 /\ i < j - 1
      BY <1>2, <1>5, <2>2
    <2> QED BY <1>5, <2>2, <2>3
  <1>8. ASSUME Effect(engine.faults) # "none"
        PROVE  \E j \in DOMAIN calls' : AppliesOff(calls'[j]) /\ calls'[j].res = "none"
    <2>1. PICK j \in DOMAIN calls : AppliesOff(calls[j]) /\ calls[j].res = "none"
      BY <1>8 DEF ZeroInv
    <2> QED BY <1>2, <1>5, <2>1
  <1>9. ASSUME engine.hits # 0
        PROVE  \E j \in DOMAIN calls' : \/ AppliesOff(calls'[j])
                                        \/ calls'[j].then = "resetDone" /\ calls'[j].res = "none"
    <2>1. PICK j \in DOMAIN calls : \/ AppliesOff(calls[j])
                                    \/ calls[j].then = "resetDone" /\ calls[j].res = "none"
      BY <1>9 DEF ZeroInv
    <2>2. j = 1 => ResetApplied
      BY <1>2, <2>1 DEF AppliesOff
    <2> QED BY <1>5, <1>6, <2>1, <2>2
  <1>10. ASSUME NEW i \in DOMAIN calls', calls'[i].then = "hits",
                calls'[i].res = "ok", calls'[i].value # 0
         PROVE  \E j \in DOMAIN calls' : \/ AppliesOff(calls'[j])
                                         \/ i < j /\ calls'[j].then = "resetDone"
    <2>1. i + 1 \in DOMAIN calls /\ calls'[i] = calls[i + 1]
      BY <1>3, <1>5, <1>10
    <2>2. PICK j \in DOMAIN calls : \/ AppliesOff(calls[j])
                                    \/ i + 1 < j /\ calls[j].then = "resetDone"
      BY <1>10, <2>1 DEF ZeroInv
    <2>3. CASE j = 1
      <3>1. ResetApplied
        BY <1>2, <1>5, <2>2, <2>3 DEF AppliesOff
      <3>2. PICK m \in DOMAIN calls' : calls'[m].then = "resetDone"
                                       /\ \A n \in DOMAIN calls : n - 1 < m
        BY <1>6, <3>1
      <3>3. i < m
        BY <1>5, <2>1, <3>2
      <3> QED BY <3>2, <3>3
    <2>4. CASE j # 1
      <3>1. j - 1 \in DOMAIN calls' /\ calls'[j - 1] = calls[j]
        BY <1>5, <2>4
      <3>2. i + 1 < j => i < j - 1
        BY <1>5
      <3> QED BY <2>2, <3>1, <3>2
    <2> QED BY <2>3, <2>4
  <1>11. shownHits' # 0 => ResetUnderWay'
    <2>1. CASE ResetApplied
      BY <1>6, <2>1 DEF ResetUnderWay
    <2>2. CASE ~ResetApplied
      <3>1. calls[1].cmd = "resetHits" /\ calls[1].res = "ok"
        BY <1>2, <2>2, TypeParts DEF Coherent, LossInv, Attended
      <3>2. shownHits' = 0
        BY <1>2, <2>2, <3>1 DEF ResetDone, HitsAfterReset, Ok
      <3> QED BY <3>2
    <2> QED BY <2>1, <2>2
  <1> QED BY <1>1, <1>7, <1>8, <1>9, <1>10, <1>11 DEF ZeroInv, Effect, Configuring, AppliesOff

\* A count is shown: not one from before the reset, unless the reset goes on.
LEMMA ZeroShown ==
    ASSUME TypeInv, ZeroInv, HitsAnswered
    PROVE  ZeroInv'
  <1> SUFFICES ASSUME history.zeroed, ~history.lost
               PROVE  ZeroInv'
    BY DEF ZeroInv, HitsAnswered
  <1>1. /\ 1 \in DOMAIN calls /\ Head(calls) = calls[1] /\ calls[1].res # "none"
        /\ calls[1].then = "hits"
    BY HandlersAnswer, AnswerTaken
  <1>2. Moves(1, {})
    BY Answering
  <1>3. UNCHANGED <<engine, history>> /\ shownHits' = IF Ok THEN Result ELSE shownHits
    BY DEF HitsAnswered, HitsShown
  <1>4. /\ DOMAIN calls \subseteq Nat \ {0} /\ DOMAIN calls' \subseteq Nat
        /\ \A j \in DOMAIN calls :
             j # 1 => j - 1 \in DOMAIN calls' /\ calls'[j - 1] = calls[j]
        /\ \A i \in DOMAIN calls' : i + 1 \in DOMAIN calls /\ calls'[i] = calls[i + 1]
    BY <1>2, LenProperties DEF Moves, Built, TypeInv
  <1>5. ASSUME NEW j \in DOMAIN calls,
               calls[j].then \in {"resetApplied", "resetDone"}
        PROVE  j - 1 \in DOMAIN calls' /\ calls'[j - 1] = calls[j]
    BY <1>1, <1>4, <1>5
  <1>6. ASSUME NEW i \in DOMAIN calls', Configuring(calls'[i]), Effect(calls'[i].arg) # "none"
        PROVE  \E j \in DOMAIN calls' : i < j /\ AppliesOff(calls'[j]) /\ calls'[j].res = "none"
    <2>1. PICK j \in DOMAIN calls : i + 1 < j /\ AppliesOff(calls[j]) /\ calls[j].res = "none"
      BY <1>4, <1>6 DEF ZeroInv
    <2>2. i < j - 1 /\ calls[j].then = "resetApplied"
      BY <1>4, <2>1 DEF AppliesOff
    <2> QED BY <1>5, <2>1, <2>2
  <1>7. ASSUME Effect(engine.faults) # "none"
        PROVE  \E j \in DOMAIN calls' : AppliesOff(calls'[j]) /\ calls'[j].res = "none"
    BY <1>5, <1>7 DEF ZeroInv, AppliesOff
  <1>8. ASSUME engine.hits # 0
        PROVE  \E j \in DOMAIN calls' : \/ AppliesOff(calls'[j])
                                        \/ calls'[j].then = "resetDone" /\ calls'[j].res = "none"
    BY <1>5, <1>8 DEF ZeroInv, AppliesOff
  <1>9. ASSUME NEW i \in DOMAIN calls', calls'[i].then = "hits",
               calls'[i].res = "ok", calls'[i].value # 0
        PROVE  \E j \in DOMAIN calls' : \/ AppliesOff(calls'[j])
                                        \/ i < j /\ calls'[j].then = "resetDone"
    <2>1. PICK j \in DOMAIN calls : \/ AppliesOff(calls[j])
                                    \/ i + 1 < j /\ calls[j].then = "resetDone"
      BY <1>4, <1>9 DEF ZeroInv
    <2>2. i + 1 < j => i < j - 1
      BY <1>4
    <2> QED BY <1>5, <2>1, <2>2 DEF AppliesOff
  <1>10. shownHits' # 0 => ResetUnderWay'
    <2>1. ResetUnderWay => ResetUnderWay'
      BY <1>5 DEF ResetUnderWay
    <2>2. CASE Ok
      <3>1. shownHits' # 0 => calls[1].res = "ok" /\ calls[1].value # 0
        BY <1>1, <1>3, <2>2 DEF Ok, Result
      <3>2. shownHits' # 0 =>
              \E j \in DOMAIN calls : calls[j].then \in {"resetApplied", "resetDone"}
        BY <1>1, <3>1 DEF ZeroInv, AppliesOff
      <3> QED BY <2>1, <3>2 DEF ResetUnderWay
    <2>3. CASE ~Ok
      BY <1>3, <2>1, <2>3 DEF ZeroInv
    <2> QED BY <2>2, <2>3
  <1> QED BY <1>3, <1>6, <1>7, <1>8, <1>9, <1>10 DEF ZeroInv, Effect, Configuring, AppliesOff

LEMMA ZeroStep ==
    ASSUME TypeInv, LossInv, ZeroInv, [Next]_vars
    PROVE  ZeroInv'
  <1>1. Drop \/ Reload \/ Apply => ZeroInv'
    <2>1. Drop \/ Reload \/ Apply => history'.lost \/ ~history'.zeroed
      BY HistoryStep
    <2> QED BY <2>1 DEF ZeroInv
  <1>2. ResetAll => ZeroInv'
    BY ZeroAsked, Asking
  <1>3. ASSUME NEW d, NEW N, Moves(d, N), Plainly \/ Fiddling,
               engine'.faults = engine.faults,
               engine'.hits = engine.hits \/ Effect(engine.faults) # "none",
               shownHits' = shownHits,
               d = 1 => calls[1].then \notin {"resetApplied", "resetDone"},
               \A c \in N : c.cmd = "configure" => Effect(c.arg) = "none"
        PROVE  ZeroInv'
    <2>1. history.zeroed = history'.zeroed /\ history.lost = history'.lost
      BY <1>3, HistoryStep DEF Remembers
    <2> QED BY <1>3, <2>1, ZeroCarried
  <1>4. ASSUME Plainly \/ Fiddling, UNCHANGED <<calls, engine, shownHits>>
        PROVE  ZeroInv'
    BY <1>3, <1>4, Asking
  <1>5. ASSUME Plainly, UNCHANGED <<engine, shownHits>>,
               NEW cmd, NEW then, cmd # "configure", Moves(0, {Plain(cmd, then)})
        PROVE  ZeroInv'
    <2>1. \A c \in {Plain(cmd, then)} : c.cmd # "configure"
      BY <1>5, CallFields
    <2> QED BY <1>3, <1>5, <2>1
  <1>6. ASSUME UNCHANGED vars \/ Fiddling \/ PanelNotices \/ \E k \in Kinds : Slide(k)
        PROVE  ZeroInv'
    <2>1. Plainly \/ Fiddling
      BY <1>6 DEF Plainly
    <2>2. UNCHANGED <<calls, engine, shownHits>>
      BY <1>6 DEF vars, fault, Fiddling, Tick, Preset, PanelNotices, Slide
    <2> QED BY <1>4, <2>1, <2>2
  <1>7. ASSUME WriterSends \/ EngineEnds
        PROVE  ZeroInv'
    <2>1. /\ engine'.faults = engine.faults
          /\ engine'.hits = engine.hits \/ Effect(engine.faults) # "none"
      BY <1>7, TypeParts DEF WriterSends, EngineEnds, Around, Engines
    <2>2. UNCHANGED <<calls, shownHits>> /\ Plainly
      BY <1>7 DEF WriterSends, EngineEnds, fault, Plainly
    <2> QED BY <1>3, <2>1, <2>2, Asking
  <1>8. ResetStats => ZeroInv'
    BY <1>5, Asking DEF ResetStats, fault, Plainly
  <1>9. Start => ZeroInv'
    BY <1>5, Asking DEF Start, fault, Plainly
  <1>10. Stop => ZeroInv'
    BY <1>5, Asking DEF Stop, fault, Plainly
  <1>11. FaultTick => ZeroInv'
    BY <1>5, Asking DEF FaultTick, fault, Plainly
  <1>12. BackTick => ZeroInv'
    BY <1>5, Asking DEF BackTick, fault, Plainly
  <1>13. ASSUME Handlers
         PROVE  ZeroInv'
    <2>1. CASE ResetApplied \/ ResetDone \/ HitsAnswered
      BY <2>1, ZeroGoesOn, ZeroShown
    <2>2. CASE ~(ResetApplied \/ ResetDone \/ HitsAnswered)
      <3>1. calls[1].then \notin {"resetApplied", "resetDone"}
        <4>1. \E then : then \notin {"resetApplied", "resetDone"} /\ Answered(then)
          BY <1>13, <2>2, HandlersAnswer DEF Handlers
        <4> QED BY <4>1, AnswerTaken
      <3>2. ASSUME NEW N, Moves(1, N), \A c \in N : c = OffCall \/ c = NumbersCall,
                   UNCHANGED <<engine, shownHits>>
            PROVE  ZeroInv'
        <4>1. \A c \in N : c.cmd = "configure" => Effect(c.arg) = "none"
          BY <3>2, OffTold
        <4> QED BY <1>3, <1>13, <3>1, <3>2, <4>1 DEF Plainly
      <3>3. PublishingStopped => UNCHANGED shownHits
        BY DEF PublishingStopped
      <3>4. CASE Applied \/ Started \/ NumbersAnswered \/ HelloAnswered \/ Ignored
        <4>1. Moves(1, {})
          BY <3>4, Answering
        <4>2. UNCHANGED <<engine, shownHits>>
          BY <3>4 DEF Applied, Started, NumbersAnswered, HelloAnswered, Ignored, fault
        <4> QED BY <3>2, <4>1, <4>2
      <3>5. CASE Stopped
        <4>1. Moves(1, IF Ok THEN {OffCall} ELSE {})
          BY <3>5, Answering
        <4>2. UNCHANGED <<engine, shownHits>>
          BY <3>3, <3>5 DEF Stopped, fault
        <4> QED BY <3>2, <4>1, <4>2
      <3>6. CASE PollAnswered
        <4>1. Moves(1, (IF SawEnd THEN {OffCall} ELSE {})
                          \cup (IF Ok THEN {NumbersCall} ELSE {}))
          BY <3>6, Answering
        <4>2. UNCHANGED <<engine, shownHits>>
          BY <3>3, <3>6 DEF PollAnswered, fault
        <4> QED BY <3>2, <4>1, <4>2
      <3> QED BY <1>13, <2>2, <3>4, <3>5, <3>6 DEF Handlers
    <2> QED BY <2>1, <2>2
  <1>14. Plainly \/ Fiddling => ZeroInv'
    BY <1>6, <1>7, <1>8, <1>9, <1>10, <1>11, <1>12, <1>13 DEF Plainly
  <1>15. Execute => ZeroInv'
    BY ZeroExecuted
  <1> QED BY <1>1, <1>2, <1>14, <1>15, ActionsSorted

-----------------------------------------------------------------------------
(* The parts of the invariant hold together in every reachable state.      *)
THEOREM InductiveInvariant == Spec => []IInv
  <1>1. Init => IInv
    <2> SUFFICES ASSUME Init
                 PROVE  IInv
      OBVIOUS
    <2>1. calls = <<>> /\ calls \in Seq(Requests) /\ DOMAIN calls = {}
      BY DEF Init
    <2>2. Around
      <3>1. Off \in Configs /\ "none" \in Kinds /\ 0 \in 0 .. MaxCount
        BY FaultPanelAssumption DEF Off, Configs, Kinds
      <3>2. engine \in Engines
        <4> HIDE DEF Configs, Off
        <4> QED BY <3>1 DEF Init, Engines
      <3>3. history \in Histories
        BY DEF Init, Histories
      <3> HIDE DEF Configs, Off
      <3> QED BY <3>1, <3>2, <3>3 DEF Init, Around
    <2>3. TypeInv
      BY <2>1, <2>2, TypeParts
    <2>4. ~AwaitedUnderWay /\ ~ResetUnderWay
      BY <2>1 DEF AwaitedUnderWay, ResetUnderWay
    <2>5. /\ history.zeroed = FALSE /\ stored = Off /\ timer = FALSE /\ Off.on = FALSE
          /\ engine.faults = stored
      BY DEF Init, Off
    <2> QED BY <2>1, <2>3, <2>4, <2>5 DEF IInv, LossInv, StoreInv, PollInv, ZeroInv
  <1>2. IInv /\ [Next]_vars => IInv'
    BY TypeStep, LossStep, StoreStep, PollStep, ZeroStep DEF IInv
  <1> QED BY <1>1, <1>2, PTL DEF Spec

(* Panel, store and injector agree at rest for every set of profiles and   *)
(* however many presses, losses and ends of a run come between: at rest    *)
(* the injector does what the store says, the panel polls exactly while    *)
(* the applied configuration is on, and a reset shows 0.                   *)
THEOREM PanelAgrees == Spec => []PanelAndInjectorAgree
  <1>1. IInv => PanelAndInjectorAgree
    <2> SUFFICES ASSUME IInv
                 PROVE  PanelAndInjectorAgree
      OBVIOUS
    <2>1. StoredIsInForce
      <3> SUFFICES ASSUME calls = <<>>, ~history.lost
                   PROVE  Effect(engine.faults) = Effect(stored)
        BY DEF StoredIsInForce, Quiet
      <3>1. DOMAIN calls = {}
        OBVIOUS
      <3> QED BY <3>1 DEF IInv, StoreInv, StopUnderWay
    <2>2. PollFollowsStore
      BY DEF IInv, PollInv, PollFollowsStore, UnderWay, AwaitedUnderWay
    <2>3. ResetShowsZero
      <3> SUFFICES ASSUME calls = <<>>, history.zeroed, ~history.lost
                   PROVE  shownHits = 0
        BY DEF ResetShowsZero, Quiet
      <3>1. DOMAIN calls = {}
        OBVIOUS
      <3> QED BY <3>1 DEF IInv, ZeroInv, ResetUnderWay
    <2> QED BY <2>1, <2>2, <2>3 DEF PanelAndInjectorAgree, IInv, TypeInv
  <1> QED BY <1>1, InductiveInvariant, PTL

-----------------------------------------------------------------------------
(* The equation editor.                                                    *)
(*                                                                         *)
(* Four things hold between any two handlers: the channels of the store    *)
(* and their mirrors are in order (StoreSays), the session is about a      *)
(* channel that was there once (SessionSays), the screen tells what Apply  *)
(* will change (ScreenSays), and the capture tab what it holds (Captured). *)
-----------------------------------------------------------------------------
(* Equations, and the channels they belong to: no name twice, the base     *)
(* channels always, and only those unless the standard allows others.      *)
Typed == [name : Written \cup {""}, mag : Nat,
          kind : {"const", "sine", "other", "nested", "bad", "empty"}]
Stored == [name : Written \cup {""}, kind : {"const", "sine", "other"}, mag : Nat]
Channel == [id : Names, eq : Stored]
Distinct(chs) == \A i, j \in DOMAIN chs : chs[i].id = chs[j].id => i = j
PoolOK(allowed, chs) ==
  /\ chs \in Seq(Channel) /\ Distinct(chs) /\ Len(chs) <= MaxChannels
  /\ ToSet(Base) \subseteq Ids(chs)
  /\ ~allowed => Ids(chs) = ToSet(Base)

LEMMA EquationsTyped ==
  /\ Empty \in Typed /\ Stored \subseteq Typed
  /\ \A eq \in Typed : /\ FromLatex(eq) \in Typed
                       /\ Valid(FromLatex(eq)) => FromLatex(eq) \in Stored
                       /\ Magnitude(eq) \in Nat \cup {NoMag}
  /\ \A eq \in Stored : \A m \in Nat :
       /\ WithMagnitude(eq, m) \in Typed
       /\ Valid(WithMagnitude(eq, m)) => WithMagnitude(eq, m) \in Stored
<1>1. Empty \in Typed /\ Stored \subseteq Typed
  BY DEF Empty, Equation, Typed, Stored
<1>2. ASSUME NEW eq \in Typed
      PROVE  /\ FromLatex(eq) \in Typed
             /\ Valid(FromLatex(eq)) => FromLatex(eq) \in Stored
             /\ Magnitude(eq) \in Nat \cup {NoMag}
  <2>1. FromLatex(eq) \in Typed /\ FromLatex(eq).kind # "nested"
    BY DEF FromLatex, Typed
  <2>2. \A d \in Typed : d.kind # "nested" /\ Valid(d) => d \in Stored
    BY DEF Typed, Stored, Valid
  <2>3. Magnitude(eq) \in Nat \cup {NoMag}
    BY DEF Magnitude, Typed
  <2> QED
    BY <2>1, <2>2, <2>3
<1>3. ASSUME NEW eq \in Stored, NEW m \in Nat
      PROVE  /\ WithMagnitude(eq, m) \in Typed
             /\ Valid(WithMagnitude(eq, m)) => WithMagnitude(eq, m) \in Stored
  <2> DEFINE bad == [eq EXCEPT !.kind = "bad"]
             sine == Equation("", "sine", m)
  <2>1. bad \in Typed /\ ~Valid(bad) /\ sine \in Stored
    BY DEF Equation, Typed, Stored, Valid
  <2>2. \/ WithMagnitude(eq, m) = bad \/ WithMagnitude(eq, m) = eq
        \/ WithMagnitude(eq, m) = sine
    <3>1. CASE Magnitude(eq) = NoMag
      BY <3>1 DEF WithMagnitude
    <3>2. CASE Magnitude(eq) # NoMag /\ eq.kind = "const" /\ m = 0
      BY <3>2 DEF WithMagnitude
    <3>3. CASE Magnitude(eq) # NoMag /\ ~(eq.kind = "const" /\ m = 0)
      BY <3>3 DEF WithMagnitude
    <3> QED
      BY <3>1, <3>2, <3>3
  <2> HIDE DEF bad, sine
  <2> QED
    BY <1>1, <2>1, <2>2
<1> QED
  BY <1>1, <1>2, <1>3

LEMMA BaseIs ==
  /\ Base \in Seq(Names) /\ ToSet(Base) = {Base[i] : i \in 1..Len(Base)}
  /\ \A i, j \in 1..Len(Base) : Base[i] = Base[j] => i = j
  /\ AutoNames \in Seq(Names)
  /\ \A i, j \in 1..Len(AutoNames) : AutoNames[i] = AutoNames[j] => i = j
<1>1. /\ Base \in Seq(ToSet(Base)) /\ DOMAIN Base = 1..Len(Base)
      /\ AutoNames \in Seq(ToSet(AutoNames)) /\ DOMAIN AutoNames = 1..Len(AutoNames)
  BY NamesAssumption
<1>2. ToSet(Base) \subseteq Names /\ ToSet(AutoNames) \subseteq Names
  BY DEF Names
<1>3. \A S, T : S \subseteq T => Seq(S) \subseteq Seq(T)
  OBVIOUS
<1>4. /\ \A i, j \in 1..Len(Base) : Base[i] = Base[j] => i = j
      /\ \A i, j \in 1..Len(AutoNames) : AutoNames[i] = AutoNames[j] => i = j
  BY <1>1, NamesAssumption DEF IsInjective
<1>5. ToSet(Base) = {Base[i] : i \in 1..Len(Base)}
  BY <1>1 DEF ToSet
<1>6. Base \in Seq(Names) /\ AutoNames \in Seq(Names)
  BY <1>1, <1>2, <1>3
<1> QED
  BY <1>4, <1>5, <1>6

\* The same channels with other equations.
LEMMA MappedPool ==
  ASSUME NEW allowed, NEW chs, PoolOK(allowed, chs), NEW r,
         r = [i \in DOMAIN chs |-> r[i]],
         \A i \in DOMAIN chs : r[i] \in Channel /\ r[i].id = chs[i].id
  PROVE  PoolOK(allowed, r) /\ Ids(r) = Ids(chs)
<1>1. chs \in Seq(Channel) /\ DOMAIN chs = 1..Len(chs) /\ Len(chs) \in Nat
  BY DEF PoolOK
<1>2. r \in Seq(Channel) /\ Len(r) = Len(chs) /\ DOMAIN r = DOMAIN chs
  BY <1>1
<1>3. Ids(r) = Ids(chs)
  BY <1>2 DEF Ids
<1>4. Distinct(r)
  BY <1>2 DEF Distinct, PoolOK
<1> QED
  BY <1>2, <1>3, <1>4 DEF PoolOK

\* A channel more.
Added(chs, ch) == Append(chs, ch)
LEMMA OneMore ==
  ASSUME NEW chs \in Seq(Channel), Distinct(chs), NEW ch \in Channel,
         ch.id \notin Ids(chs), NEW r, r = Added(chs, ch)
  PROVE  /\ r \in Seq(Channel) /\ Distinct(r) /\ Ids(r) = Ids(chs) \cup {ch.id}
         /\ Len(r) = Len(chs) + 1 /\ r[Len(chs) + 1] = ch
         /\ \A i \in DOMAIN chs : i \in DOMAIN r /\ r[i] = chs[i]
<1>1. chs \in Seq(Channel) /\ DOMAIN chs = 1..Len(chs) /\ Len(chs) \in Nat
  BY DEF PoolOK
<1>2. /\ r \in Seq(Channel) /\ Len(r) = Len(chs) + 1 /\ r[Len(chs) + 1] = ch
      /\ \A i \in 1..Len(chs) : r[i] = chs[i]
  BY <1>1 DEF Added
<1>3. DOMAIN r = 1..(Len(chs) + 1)
  BY <1>2
<1>4. Ids(r) = Ids(chs) \cup {ch.id}
  <2>1. \A x \in Ids(r) : x \in Ids(chs) \cup {ch.id}
    <3> TAKE x \in Ids(r)
    <3>1. PICK i \in 1..(Len(chs) + 1) : x = r[i].id
      BY <1>3 DEF Ids
    <3>2. i = Len(chs) + 1 \/ i \in 1..Len(chs)
      BY <1>1
    <3> QED
      BY <1>1, <1>2, <3>1, <3>2 DEF Ids
  <2>2. \A x \in Ids(chs) : x \in Ids(r)
    <3> TAKE x \in Ids(chs)
    <3>1. PICK i \in 1..Len(chs) : x = chs[i].id
      BY <1>1 DEF Ids
    <3>2. i \in DOMAIN r
      BY <1>1, <1>3
    <3> QED
      BY <1>2, <3>1, <3>2 DEF Ids
  <2>3. ch.id \in Ids(r)
    <3>1. Len(chs) + 1 \in DOMAIN r
      BY <1>1, <1>3
    <3> QED
      BY <1>2, <3>1 DEF Ids
  <2> QED
    BY <2>1, <2>2, <2>3
<1>5. Distinct(r)
  <2> SUFFICES ASSUME NEW i \in DOMAIN r, NEW j \in DOMAIN r, r[i].id = r[j].id
               PROVE  i = j
    BY DEF Distinct
  <2>1. \A k \in DOMAIN r : k = Len(chs) + 1 \/ k \in DOMAIN chs
    BY <1>1, <1>3
  <2>2. \A k \in DOMAIN chs : r[k].id \in Ids(chs) /\ r[k].id = chs[k].id
    BY <1>1, <1>2 DEF Ids
  <2> QED
    BY <1>2, <2>1, <2>2 DEF Distinct
<1>7. \A i \in DOMAIN chs : i \in DOMAIN r /\ r[i] = chs[i]
  BY <1>1, <1>2, <1>3
<1> QED
  BY <1>2, <1>4, <1>5, <1>7

HasRoom(chs) == Len(chs) < MaxChannels
LEMMA AddedPool ==
  ASSUME custom, NEW chs, PoolOK(custom, chs), NEW ch \in Channel,
         HasRoom(chs), ch.id \notin Ids(chs), NEW r, r = Added(chs, ch)
  PROVE  /\ PoolOK(custom, r) /\ Ids(r) = Ids(chs) \cup {ch.id}
         /\ \A i \in DOMAIN chs : i \in DOMAIN r /\ r[i] = chs[i]
<1>1. chs \in Seq(Channel) /\ Distinct(chs)
  BY DEF PoolOK
<1>2. /\ r \in Seq(Channel) /\ Distinct(r) /\ Ids(r) = Ids(chs) \cup {ch.id}
      /\ Len(r) = Len(chs) + 1 /\ r[Len(chs) + 1] = ch
      /\ \A i \in DOMAIN chs : i \in DOMAIN r /\ r[i] = chs[i]
  BY <1>1, OneMore
<1>3. Len(chs) \in Nat
  BY <1>1
<1>4. Len(r) <= MaxChannels
  BY <1>2, <1>3, RoomAssumption DEF HasRoom
<1> QED
  BY <1>2, <1>4 DEF PoolOK

\* Only the base channels.
BaseUpTo(f, chs, m) ==
  [n \in 0..m |->
     IF n = 0 THEN <<>>
     ELSE IF chs[n].id \in ToSet(Base) THEN Append(f[n - 1], chs[n]) ELSE f[n - 1]]

LEMMA LeastNat ==
  ASSUME NEW S, S \subseteq Nat, S # {}
  PROVE  \E n \in S : \A m \in S : n <= m
<1> DEFINE R == OpToRel(<, Nat)
<1> HIDE DEF R
<1>1. PICK n \in S : \A m \in S : ~(<<m, n>> \in R)
  BY WFMin, NatLessThanWellFounded DEF R
<1>2. ASSUME NEW m \in S, m < n PROVE <<m, n>> \in R
  <2>1. m \in Nat /\ n \in Nat
    BY <1>1
  <2> QED
    BY <1>2, <2>1 DEF OpToRel, R
<1>3. ASSUME NEW m \in S PROVE n <= m
  <2>1. m \in Nat /\ n \in Nat /\ ~(m < n)
    BY <1>1, <1>2
  <2> QED
    BY <2>1
<1> QED
  BY <1>3

LEMMA NatSteps ==
  ASSUME NEW S, 0 \in S, \A n \in Nat : n \in S => n + 1 \in S
  PROVE  \A n \in Nat : n \in S
<1> SUFFICES ASSUME Nat \ S # {} PROVE FALSE
  OBVIOUS
<1>1. PICK x \in Nat \ S : \A y \in Nat \ S : x <= y
  BY LeastNat
<1>2. x - 1 \in Nat /\ ~(x <= x - 1)
  BY <1>1
<1> QED
  BY <1>1, <1>2

LEMMA BaseExists ==
  ASSUME NEW chs
  PROVE  \A m \in Nat : \E f : f = BaseUpTo(f, chs, m)
<1> DEFINE S == {m \in Nat : \E f : f = BaseUpTo(f, chs, m)}
           In(n) == chs[n].id \in ToSet(Base)
<1>1. 0 \in S
  <2> DEFINE g == [n \in 0..0 |-> <<>>]
  <2>1. g = BaseUpTo(g, chs, 0)
    BY DEF BaseUpTo
  <2> QED
    BY <2>1
<1>2. ASSUME NEW m \in Nat, m \in S PROVE m + 1 \in S
  <2>1. PICK f : f = BaseUpTo(f, chs, m)
    BY <1>2
  <2> DEFINE g == [n \in 0..(m + 1) |->
                     IF n = m + 1
                     THEN IF chs[n].id \in ToSet(Base) THEN Append(f[n - 1], chs[n])
                          ELSE f[n - 1]
                     ELSE f[n]]
  <2>2. \A n \in 0..m : f[n] = IF n = 0 THEN <<>>
                  ELSE IF chs[n].id \in ToSet(Base) THEN Append(f[n - 1], chs[n]) ELSE f[n - 1]
    BY <2>1 DEF BaseUpTo
  <2>3. \A n \in 0..m : g[n] = f[n]
    OBVIOUS
  <2>4. \A n \in 0..(m + 1) : g[n] = BaseUpTo(g, chs, m + 1)[n]
    <3> TAKE n \in 0..(m + 1)
    <3>1. CASE n = m + 1
      BY <3>1, <2>3 DEF BaseUpTo
    <3>2. CASE n \in 0..m
      <4>1. g[n] = f[n] /\ (n # 0 => g[n - 1] = f[n - 1])
        BY <3>2, <2>3
      <4> HIDE DEF g
      <4> QED
        BY <3>2, <2>2, <4>1 DEF BaseUpTo
    <3> QED
      BY <3>1, <3>2
  <2>5. g = BaseUpTo(g, chs, m + 1)
    BY <2>4 DEF BaseUpTo
  <2> QED
    BY <2>5
<1> HIDE DEF S
<1>3. \A m \in Nat : m \in S
  BY <1>1, <1>2, NatSteps
<1> QED
  BY <1>3 DEF S

LEMMA BasePool ==
  ASSUME NEW allowed, NEW chs, PoolOK(allowed, chs)
  PROVE  PoolOK(FALSE, BaseOnly(chs))
<1> DEFINE f == CHOOSE f : f = BaseUpTo(f, chs, Len(chs))
           B == ToSet(Base)
           seen(n) == {chs[i].id : i \in 1..n}
           Good(n) == /\ f[n] \in Seq(Channel) /\ Distinct(f[n]) /\ Len(f[n]) <= n
                      /\ Ids(f[n]) = seen(n) \cap B
           D == {n \in Nat : n <= Len(chs) => Good(n)}
<1>0. /\ chs \in Seq(Channel) /\ Len(chs) \in Nat /\ DOMAIN chs = 1..Len(chs)
      /\ Distinct(chs) /\ Len(chs) <= MaxChannels
  BY DEF PoolOK
<1>1. BaseOnly(chs) = f[Len(chs)]
  BY DEF BaseOnly, BaseUpTo
<1>2. f = BaseUpTo(f, chs, Len(chs))
  BY <1>0, BaseExists
<1> HIDE DEF f
<1>3. \A n \in 0..Len(chs) : f[n] = IF n = 0 THEN <<>>
              ELSE IF chs[n].id \in B THEN Added(f[n - 1], chs[n]) ELSE f[n - 1]
  BY <1>2 DEF BaseUpTo, Added
<1> HIDE DEF B
<1>4. 0 \in D
  <2>1. f[0] = <<>>
    BY <1>0, <1>3
  <2>2. Ids(<<>>) = {} /\ Distinct(<<>>) /\ <<>> \in Seq(Channel) /\ Len(<<>>) = 0
    BY DEF Ids, Distinct
  <2>3. seen(0) = {}
    OBVIOUS
  <2> HIDE DEF seen
  <2>4. f[0] \in Seq(Channel) /\ Distinct(f[0]) /\ Ids(f[0]) = seen(0) \cap B
    BY <2>1, <2>2, <2>3
  <2>5. Len(f[0]) <= 0
    BY <2>1, <2>2
  <2>6. Good(0)
    BY <2>4, <2>5
  <2> HIDE DEF Good
  <2> QED
    BY <2>6
<1>5. ASSUME NEW n \in Nat, n \in D PROVE n + 1 \in D
  <2> DEFINE k == n + 1
             ch == chs[k]
  <2> SUFFICES ASSUME k <= Len(chs) PROVE Good(k)
    OBVIOUS
  <2>1. Good(n) /\ k \in 1..Len(chs) /\ k \in Nat
    BY <1>0, <1>5
  <2>2. ch \in Channel
    BY <1>0, <2>1
  <2>3. f[k] = IF ch.id \in B THEN Added(f[n], ch) ELSE f[n]
    <3>1. k \in 0..Len(chs) /\ k # 0 /\ k - 1 = n
      BY <2>1
    <3> QED
      BY <1>3, <3>1
  <2>4. seen(k) = seen(n) \cup {ch.id}
    <3>1. \A i \in 1..k : i \in 1..n \/ i = k
      OBVIOUS
    <3>2. \A i \in 1..n : i \in 1..k
      OBVIOUS
    <3>3. k \in 1..k
      OBVIOUS
    <3> HIDE DEF k
    <3> QED
      BY <3>1, <3>2, <3>3
  <2>5. ch.id \notin seen(n)
    <3> SUFFICES ASSUME NEW i \in 1..n, chs[i].id = ch.id PROVE FALSE
      OBVIOUS
    <3>1. i \in DOMAIN chs /\ k \in DOMAIN chs /\ i # k
      BY <1>0, <2>1
    <3> QED
      BY <1>0, <3>1 DEF Distinct
  <2> HIDE DEF seen, ch
  <2>6. CASE ch.id \in B
    <3> DEFINE s == f[n]
               r == f[k]
    <3>1. s \in Seq(Channel) /\ Distinct(s) /\ Ids(s) = seen(n) \cap B /\ Len(s) <= n
      BY <2>1
    <3>2. r = Added(s, ch)
      BY <2>3, <2>6
    <3> HIDE DEF s, r
    <3>3. ch.id \notin Ids(s)
      BY <2>5, <3>1
    <3>4. /\ r \in Seq(Channel) /\ Distinct(r) /\ Ids(r) = Ids(s) \cup {ch.id}
          /\ Len(r) = Len(s) + 1
      BY <2>2, <3>1, <3>2, <3>3, OneMore
    <3>5. Len(r) <= k
      BY <3>1, <3>4
    <3>6. Ids(r) = seen(k) \cap B
      BY <2>4, <2>6, <3>1, <3>4
    <3> QED
      BY <3>4, <3>5, <3>6 DEF r
  <2>7. CASE ch.id \notin B
    <3>1. f[k] = f[n]
      BY <2>3, <2>7
    <3>2. Len(f[n]) <= k
      BY <2>1
    <3>3. seen(k) \cap B = seen(n) \cap B
      BY <2>4, <2>7
    <3> HIDE DEF k
    <3> QED
      BY <2>1, <3>1, <3>2, <3>3
  <2> QED
    BY <2>6, <2>7
<1> HIDE DEF D
<1>6. Len(chs) \in D
  BY <1>0, <1>4, <1>5, NatSteps
<1>7. Good(Len(chs))
  BY <1>0, <1>6 DEF D
<1> DEFINE r == BaseOnly(chs)
<1>8. r \in Seq(Channel) /\ Distinct(r) /\ Len(r) <= Len(chs) /\ Ids(r) = seen(Len(chs)) \cap B
  BY <1>1, <1>7
<1>9. seen(Len(chs)) = Ids(chs)
  BY <1>0 DEF Ids
<1>10. Ids(r) = B
  BY <1>8, <1>9 DEF PoolOK, B
<1>11. Len(r) <= MaxChannels
  <2>1. Len(r) \in Nat
    BY <1>8
  <2> QED
    BY <1>0, <1>8, <2>1, RoomAssumption
<1> HIDE DEF r
<1> QED
  BY <1>8, <1>10, <1>11 DEF PoolOK, B, r


-----------------------------------------------------------------------------
(* What the store says of a channel, and what the mirrors say of it.       *)
LEMMA EqOfIs ==
  ASSUME NEW chs, Distinct(chs), NEW i \in DOMAIN chs
  PROVE  EqOf(chs, chs[i].id) = chs[i].eq
<1> DEFINE k == CHOOSE j \in DOMAIN chs : chs[j].id = chs[i].id
<1>1. k \in DOMAIN chs /\ chs[k].id = chs[i].id
  OBVIOUS
<1>2. EqOf(chs, chs[i].id) = chs[k].eq
  BY DEF EqOf
<1> HIDE DEF k
<1>3. k = i
  BY <1>1 DEF Distinct
<1> QED
  BY <1>2, <1>3

LEMMA AnnounceIs ==
  ASSUME NEW chs, Distinct(chs), Announce(chs)
  PROVE  MirrorsFresh' /\ channels' = chs /\ DOMAIN hidden \subseteq DOMAIN hidden'
<1>1. channels' = chs /\ hidden' = HiddenSynced(chs) /\ table' = Drawn(Drawn(table, chs), chs)
  BY DEF Announce
<1>2. table'.rows = channels'
  BY <1>1 DEF Drawn
<1>3. /\ DOMAIN hidden' = DOMAIN hidden \cup Ids(chs)
      /\ \A id \in Ids(chs) : hidden'[id] = EqOf(chs, id)
  BY <1>1 DEF HiddenSynced
<1>4. \A i \in DOMAIN chs : chs[i].id \in DOMAIN hidden' /\ hidden'[chs[i].id] = chs[i].eq
  <2> TAKE i \in DOMAIN chs
  <2>1. chs[i].id \in Ids(chs)
    BY DEF Ids
  <2> QED
    BY <1>3, <2>1, EqOfIs
<1> QED
  BY <1>1, <1>2, <1>3, <1>4 DEF MirrorsFresh

\* As many names as channels.
LEMMA NamesCounted ==
  ASSUME NEW chs \in Seq(Channel), Distinct(chs)
  PROVE  IsFiniteSet(Ids(chs)) /\ Cardinality(Ids(chs)) = Len(chs)
<1> DEFINE name == [i \in 1..Len(chs) |-> chs[i].id]
<1>1. Len(chs) \in Nat /\ DOMAIN chs = 1..Len(chs)
  OBVIOUS
<1>2. name \in Bijection(1..Len(chs), Ids(chs))
  <2>1. name \in [1..Len(chs) -> Ids(chs)]
    BY <1>1 DEF Ids
  <2>2. \A i, j \in 1..Len(chs) : name[i] = name[j] => i = j
    BY <1>1 DEF Distinct
  <2>3. \A x \in Ids(chs) : \E i \in 1..Len(chs) : name[i] = x
    BY <1>1 DEF Ids
  <2> HIDE DEF name
  <2> QED
    BY <2>1, <2>2, <2>3, Fun_IsBij
<1> HIDE DEF name
<1>3. IsFiniteSet(1..Len(chs)) /\ Cardinality(1..Len(chs)) = Len(chs)
  BY <1>1, FS_Interval
<1> QED
  BY <1>2, <1>3, FS_Bijection DEF ExistsBijection

\* The next generated name is free, as long as there is room for the names
\* of the pool after the counter.
LEMMA AutoNameIs ==
  ASSUME PoolOK(custom, channels), NEW n \in 1..(Len(AutoNames) + 1),
         n + Len(channels) <= Len(AutoNames)
  PROVE  AutoName(n) \in 1..Len(AutoNames) /\ AutoNames[AutoName(n)] \in Names
<1> DEFINE free(k) == k \in Nat /\ n <= k /\ k <= Len(AutoNames) /\ AutoNames[k] \notin Ids(channels)
<1>0. /\ Len(AutoNames) \in Nat /\ DOMAIN AutoNames = 1..Len(AutoNames)
      /\ Len(channels) \in Nat /\ channels \in Seq(Channel) /\ Distinct(channels)
  BY BaseIs DEF PoolOK
<1>1. \E k \in Nat : free(k)
  <2> SUFFICES ASSUME \A k \in n..(n + Len(channels)) : AutoNames[k] \in Ids(channels)
               PROVE  FALSE
    BY <1>0
  <2> DEFINE named == [k \in n..(n + Len(channels)) |-> AutoNames[k]]
             S == n..(n + Len(channels))
  <2>1. IsFiniteSet(S) /\ Cardinality(S) = Len(channels) + 1
    BY <1>0, FS_Interval
  <2>2. IsFiniteSet(Ids(channels)) /\ Cardinality(Ids(channels)) = Len(channels)
    BY <1>0, NamesCounted
  <2>3. named \in [S -> Ids(channels)]
    OBVIOUS
  <2>4. \A i, j \in S : i \in 1..Len(AutoNames) /\ j \in 1..Len(AutoNames)
    BY <1>0
  <2>5. \A i, j \in S : named[i] = named[j] => i = j
    BY <2>4, BaseIs
  <2> HIDE DEF named, S
  <2>6. Cardinality(Ids(channels)) < Cardinality(S)
    BY <1>0, <2>1, <2>2
  <2> QED
    BY <2>1, <2>2, <2>3, <2>5, <2>6, FS_PigeonHole
<1> DEFINE S == {k \in Nat : free(k)}
<1>2. PICK k \in S : \A j \in S : k <= j
  BY <1>1, LeastNat
<1>3. /\ k \in DOMAIN AutoNames /\ k >= n /\ AutoNames[k] \notin Ids(channels)
      /\ \A j \in n..(k - 1) : AutoNames[j] \in Ids(channels)
  BY <1>0, <1>2 DEF free
<1>4. AutoName(n) \in DOMAIN AutoNames
  BY <1>3 DEF AutoName
<1> QED
  BY <1>0, <1>4, BaseIs


-----------------------------------------------------------------------------
(* What holds between two handlers.  The session may hold a channel that a *)
(* standard has dropped, but never one that was not in the pool once.      *)
Screens == [label : Names \cup {None, New, "loading"}, field : Typed, mag : Nat \cup {NoMag},
            canApply : BOOLEAN, cancel : BOOLEAN, wired : BOOLEAN]
Sessions == [current : {None} \cup DOMAIN hidden, creating : BOOLEAN,
             counter : 1..(Len(AutoNames) + 1)]
StoreSays == custom \in BOOLEAN /\ PoolOK(custom, channels) /\ MirrorsFresh
SessionSays == session \in Sessions
ScreenSays == screen \in Screens /\ LabelTellsTarget
Captured ==
  /\ pcap = [file |-> pcap.file, panel |-> pcap.panel, tab |-> pcap.tab,
             mode |-> pcap.mode, calls |-> pcap.calls]
  /\ PanelShowsCapture
Editing == StoreSays /\ SessionSays /\ ScreenSays /\ Captured

LEMMA LabelsAreNoNames ==
  ASSUME NEW allowed, NEW chs, PoolOK(allowed, chs)
  PROVE  /\ Ids(chs) \subseteq Names
         /\ {None, New, "loading"} \cap Ids(chs) = {}
         /\ None # New /\ None # "loading" /\ New # "loading"
<1>1. Ids(chs) \subseteq Names
  <2>1. chs \in Seq(Channel) /\ DOMAIN chs = 1..Len(chs)
    BY DEF PoolOK
  <2>2. \A i \in DOMAIN chs : chs[i] \in Channel
    BY <2>1
  <2>3. \A i \in DOMAIN chs : chs[i].id \in Names
    BY <2>2 DEF Channel
  <2> QED
    BY <2>3 DEF Ids
<1> QED
  BY <1>1, NamesAssumption DEF None, New

LEMMA Relabelled ==
  ASSUME NEW s \in Screens, NEW r, r = [s EXCEPT !.label = "loading"]
  PROVE  r \in Screens /\ r.label = "loading" /\ r.canApply = s.canApply
BY DEF Screens

LEMMA BlankIs ==
  /\ Blank \in Screens /\ Blank.label = None /\ ~Blank.canApply
  /\ NoScreen \in Screens /\ NoScreen.label = "loading" /\ ~NoScreen.canApply
  /\ Blank # NoScreen
<1>1. Empty \in Typed
  BY EquationsTyped
<1>2. Blank \in Screens /\ Blank.label = None /\ ~Blank.canApply
  BY <1>1 DEF Blank, Screens
<1>3. NoScreen \in Screens /\ NoScreen.label = "loading" /\ NoScreen.canApply = Blank.canApply
  BY <1>2, Relabelled DEF NoScreen
<1> QED
  BY <1>2, <1>3 DEF None

LEMMA SyncedIs ==
  ASSUME NEW s \in Screens, NEW eq \in Typed, NEW r, r = MagnitudeSynced(s, eq)
  PROVE  /\ r \in Screens /\ r.label = s.label /\ r.field = s.field
         /\ r.canApply = s.canApply /\ r.cancel = s.cancel
<1> DEFINE m == IF eq = Empty THEN NoMag ELSE Magnitude(eq)
<1>1. m \in Nat \cup {NoMag}
  BY EquationsTyped
<1>2. r = [s EXCEPT !.mag = m]
  BY DEF MagnitudeSynced
<1> HIDE DEF m
<1> QED
  BY <1>1, <1>2 DEF Screens

\* Whoever changes the channels, the editor asks for nothing afterwards.
LEMMA QuietIs ==
  ASSUME PoolOK(custom', channels'), screen' \in Screens, ~screen'.canApply,
         screen'.label \in {None, "loading"}
  PROVE  ScreenSays'
BY LabelsAreNoNames DEF ScreenSays, LabelTellsTarget

LEMMA SessionRedrawnIs ==
  ASSUME Editing, DOMAIN hidden \subseteq DOMAIN hidden', session' = SessionRedrawn
  PROVE  SessionSays'
<1>1. session \in Sessions
  BY DEF Editing, SessionSays
<1>2. session' = session \/ session' = [session EXCEPT !.creating = FALSE]
  BY DEF SessionRedrawn
<1>3. /\ session'.current = session.current /\ session'.counter = session.counter
      /\ session'.creating \in BOOLEAN
      /\ session' = [current |-> session'.current, creating |-> session'.creating,
                     counter |-> session'.counter]
  BY <1>1, <1>2 DEF Sessions
<1>4. session.current \in {None} \cup DOMAIN hidden' /\ session.counter \in 1..(Len(AutoNames) + 1)
  BY <1>1 DEF Sessions
<1> QED
  BY <1>3, <1>4 DEF Sessions, SessionSays

LEMMA InitEditing == EditorInit => Editing
<1> SUFFICES ASSUME EditorInit PROVE Editing
  OBVIOUS
<1> DEFINE sine == Equation("", "sine", 1)
<1>1. sine \in Stored
  BY DEF Equation, Stored
<1>2. /\ custom = FALSE /\ channels = [i \in DOMAIN Base |-> [id |-> Base[i], eq |-> sine]]
      /\ hidden = [id \in ToSet(Base) |-> sine]
      /\ session = [current |-> None, creating |-> FALSE, counter |-> 1]
      /\ screen = NoScreen /\ table = [rows |-> channels, flash |-> {}]
  BY DEF EditorInit
<1> HIDE DEF sine
<1>3. Len(Base) \in Nat /\ DOMAIN Base = 1..Len(Base)
  BY BaseIs
<1>4. channels \in Seq(Channel) /\ Len(channels) = Len(Base) /\ DOMAIN channels = DOMAIN Base
  <2>1. \A i \in 1..Len(Base) : [id |-> Base[i], eq |-> sine] \in Channel
    BY <1>1, BaseIs DEF Channel
  <2> HIDE DEF Channel
  <2> QED
    BY <1>2, <1>3, <2>1
<1>5. \A i \in DOMAIN channels : channels[i].id = Base[i] /\ channels[i].eq = sine
  BY <1>2
<1>6. Ids(channels) = ToSet(Base)
  BY <1>3, <1>4, <1>5, BaseIs DEF Ids
<1>7. Distinct(channels)
  BY <1>3, <1>4, <1>5, BaseIs DEF Distinct
<1>8. PoolOK(custom, channels)
  BY <1>4, <1>6, <1>7, RoomAssumption DEF PoolOK
<1>9. MirrorsFresh
  <2>1. \A i \in DOMAIN channels : channels[i].id \in ToSet(Base)
    BY <1>6 DEF Ids
  <2> QED
    BY <1>2, <1>5, <2>1 DEF MirrorsFresh
<1>10. session \in Sessions
  <2>1. Len(AutoNames) \in Nat
    BY BaseIs
  <2>2. 1 \in 1..(Len(AutoNames) + 1)
    BY <2>1
  <2> QED
    BY <1>2, <2>2 DEF Sessions
<1>11. LabelTellsTarget
  BY <1>2, <1>8, BlankIs, LabelsAreNoNames DEF LabelTellsTarget
<1>12. Captured
  BY DEF EditorInit, Captured, PanelShowsCapture
<1>13. custom \in BOOLEAN
  BY <1>2
<1> QED
  BY <1>2, <1>8, <1>9, <1>10, <1>11, <1>12, <1>13, BlankIs
  DEF Editing, StoreSays, SessionSays, ScreenSays


-----------------------------------------------------------------------------
(* Handlers that leave the channels alone.                                 *)
LEMMA StoreUntouched ==
  ASSUME Editing, StoreStays
  PROVE  /\ StoreSays' /\ Captured' /\ Ids(channels') = Ids(channels)
         /\ DOMAIN hidden' = DOMAIN hidden /\ Sessions' = Sessions
<1>1. custom' = custom /\ channels' = channels /\ hidden' = hidden /\ table' = table /\ pcap' = pcap
  BY DEF StoreStays
<1>2. MirrorsFresh'
  BY <1>1 DEF Editing, StoreSays, MirrorsFresh
<1>3. PoolOK(custom', channels') /\ custom' \in BOOLEAN
  BY <1>1 DEF Editing, StoreSays
<1>4. Captured'
  BY <1>1 DEF Editing, Captured, PanelShowsCapture
<1>5. DOMAIN hidden' = DOMAIN hidden /\ Sessions' = Sessions
  BY <1>1 DEF Sessions
<1> QED
  BY <1>1, <1>2, <1>3, <1>4, <1>5 DEF StoreSays

\* The session with another channel.
LEMMA SessionIs ==
  ASSUME Editing, StoreStays, NEW id, id \in {None} \cup DOMAIN hidden, NEW creating \in BOOLEAN,
         Session(id, creating)
  PROVE  SessionSays' /\ session'.current = id /\ session'.creating = creating
<1>1. session \in Sessions /\ session' = [session EXCEPT !.current = id, !.creating = creating]
  BY DEF Editing, SessionSays, Session
<1>2. session' \in Sessions /\ session'.current = id /\ session'.creating = creating
  BY <1>1 DEF Sessions
<1> QED
  BY <1>2, StoreUntouched DEF SessionSays

\* The screen with a channel's equation, with none to create one, and with
\* none at all.
Chosen(s, id, eq) ==
  [s EXCEPT !.label = id, !.field = eq, !.canApply = TRUE, !.cancel = FALSE]
Asked(s) ==
  [s EXCEPT !.label = New, !.field = Empty, !.canApply = TRUE, !.cancel = TRUE]
LEMMA ScreenIs ==
  ASSUME NEW s \in Screens
  PROVE  /\ \A id \in Names, eq \in Typed : \A r : r = Chosen(s, id, eq) =>
               r \in Screens /\ r.label = id
         /\ \A r : r = Asked(s) => r \in Screens /\ r.label = New /\ r.cancel
         /\ \A r : r = Exited(s) => r \in Screens /\ r.label = None /\ ~r.canApply
<1>0. Empty \in Typed
  BY EquationsTyped
<1>1. ASSUME NEW id \in Names, NEW eq \in Typed, NEW r, r = Chosen(s, id, eq)
      PROVE  r \in Screens /\ r.label = id
  BY <1>1 DEF Screens, Chosen
<1>2. ASSUME NEW r, r = Asked(s) PROVE r \in Screens /\ r.label = New /\ r.cancel
  BY <1>0, <1>2 DEF Screens, Asked
<1>3. ASSUME NEW r, r = Exited(s) PROVE r \in Screens /\ r.label = None /\ ~r.canApply
  BY <1>0, <1>3 DEF Screens, Exited
<1> QED
  BY <1>1, <1>2, <1>3

\* The channel a name stands for.
LEMMA ChannelOf ==
  ASSUME NEW allowed, NEW chs, PoolOK(allowed, chs), NEW id \in Ids(chs)
  PROVE  /\ \E i \in DOMAIN chs : chs[i].id = id /\ EqOf(chs, id) = chs[i].eq
         /\ EqOf(chs, id) \in Stored
<1>1. Distinct(chs) /\ chs \in Seq(Channel)
  BY DEF PoolOK
<1>2. PICK i \in DOMAIN chs : chs[i].id = id
  BY DEF Ids
<1>3. EqOf(chs, id) = chs[i].eq
  BY <1>1, <1>2, EqOfIs
<1>4. chs[i] \in Channel
  BY <1>1
<1> QED
  BY <1>2, <1>3, <1>4 DEF Channel

LEMMA MathLiveLoadsKeeps == Editing /\ MathLiveLoads => Editing'
<1> SUFFICES ASSUME Editing, MathLiveLoads PROVE Editing'
  OBVIOUS
<1>1. StoreStays /\ screen' = [Blank EXCEPT !.wired = TRUE] /\ session' = session
  BY DEF MathLiveLoads
<1>2. screen' \in Screens /\ screen'.label = None /\ ~screen'.canApply
  <2>1. \A s \in Screens : /\ [s EXCEPT !.wired = TRUE] \in Screens
                           /\ [s EXCEPT !.wired = TRUE].label = s.label
                           /\ [s EXCEPT !.wired = TRUE].canApply = s.canApply
    BY DEF Screens
  <2> QED
    BY <1>1, <2>1, BlankIs
<1>3. StoreSays' /\ Captured' /\ SessionSays'
  BY <1>1, StoreUntouched DEF Editing, SessionSays
<1>4. LabelTellsTarget'
  BY <1>2, <1>3, LabelsAreNoNames DEF LabelTellsTarget, StoreSays
<1> QED
  BY <1>2, <1>3, <1>4 DEF Editing, ScreenSays

LEMMA ClickChannelKeeps ==
  ASSUME NEW id PROVE Editing /\ ClickChannel(id) => Editing'
<1> SUFFICES ASSUME Editing, ClickChannel(id) PROVE Editing'
  OBVIOUS
<1> DEFINE eq == hidden[id]
           s == Chosen(screen, id, eq)
<1>1. /\ id \in Ids(channels) /\ StoreStays /\ Session(id, FALSE)
      /\ screen' = MagnitudeSynced(s, eq)
  BY DEF ClickChannel, Chosen
<1>2. PoolOK(custom, channels) /\ MirrorsFresh /\ screen \in Screens
  BY DEF Editing, StoreSays, ScreenSays
<1>3. eq \in Typed /\ id \in DOMAIN hidden
  <2>1. PICK i \in DOMAIN channels : channels[i].id = id /\ EqOf(channels, id) = channels[i].eq
    BY <1>1, <1>2, ChannelOf
  <2>2. id \in DOMAIN hidden /\ eq = EqOf(channels, id)
    BY <1>2, <2>1 DEF MirrorsFresh
  <2>3. EqOf(channels, id) \in Stored
    BY <1>1, <1>2, ChannelOf
  <2> QED
    BY <2>2, <2>3, EquationsTyped
<1> HIDE DEF eq
<1>4. s \in Screens /\ s.label = id
  BY <1>1, <1>2, <1>3, LabelsAreNoNames, ScreenIs
<1> HIDE DEF s
<1>5. screen' \in Screens /\ screen'.label = id
  BY <1>1, <1>3, <1>4, SyncedIs
<1>6. SessionSays' /\ session'.current = id /\ session'.creating = FALSE
  BY <1>1, <1>3, SessionIs
<1>7. StoreSays' /\ Captured' /\ Ids(channels') = Ids(channels)
  BY <1>1, StoreUntouched
<1>8. LabelTellsTarget'
  BY <1>1, <1>2, <1>5, <1>6, <1>7, LabelsAreNoNames DEF LabelTellsTarget
<1> QED
  BY <1>5, <1>6, <1>7, <1>8 DEF Editing, ScreenSays

LEMMA ClickNewKeeps == Editing /\ ClickNew => Editing'
<1> SUFFICES ASSUME Editing, ClickNew PROVE Editing'
  OBVIOUS
<1>1. /\ custom /\ StoreStays /\ Session(None, TRUE)
      /\ screen' = Asked(screen)
  BY DEF ClickNew, Asked
<1>2. PoolOK(custom, channels) /\ screen \in Screens
  BY DEF Editing, StoreSays, ScreenSays
<1>3. screen' \in Screens /\ screen'.label = New /\ screen'.cancel
  BY <1>1, <1>2, ScreenIs
<1>4. SessionSays' /\ session'.creating
  BY <1>1, SessionIs
<1>5. StoreSays' /\ Captured' /\ Ids(channels') = Ids(channels) /\ custom' = custom
  BY <1>1, StoreUntouched DEF StoreStays
<1>6. LabelTellsTarget'
  BY <1>1, <1>2, <1>3, <1>4, <1>5, LabelsAreNoNames DEF LabelTellsTarget
<1> QED
  BY <1>3, <1>4, <1>5, <1>6 DEF Editing, ScreenSays

LEMMA CancelNewKeeps == Editing /\ CancelNew => Editing'
<1> SUFFICES ASSUME Editing, CancelNew PROVE Editing'
  OBVIOUS
<1>1. StoreStays /\ Session(None, FALSE) /\ screen' = Exited(screen)
  BY DEF CancelNew
<1>2. PoolOK(custom, channels) /\ screen \in Screens
  BY DEF Editing, StoreSays, ScreenSays
<1>3. screen' \in Screens /\ screen'.label = None /\ ~screen'.canApply
  BY <1>1, <1>2, ScreenIs
<1>4. SessionSays'
  BY <1>1, SessionIs
<1>5. StoreSays' /\ Captured' /\ Ids(channels') = Ids(channels)
  BY <1>1, StoreUntouched
<1>6. LabelTellsTarget'
  BY <1>2, <1>3, <1>5, LabelsAreNoNames DEF LabelTellsTarget
<1> QED
  BY <1>3, <1>4, <1>5, <1>6 DEF Editing, ScreenSays

\* What the label depends on.
LEMMA LabelStays ==
  ASSUME Editing, StoreStays, session'.current = session.current,
         session'.creating = session.creating, SessionSays', screen' \in Screens,
         screen'.label = screen.label, screen'.canApply = screen.canApply,
         screen'.cancel = screen.cancel
  PROVE  Editing'
<1>1. StoreSays' /\ Captured' /\ Ids(channels') = Ids(channels) /\ custom' = custom
  BY StoreUntouched DEF StoreStays
<1>2. LabelTellsTarget
  BY DEF Editing, ScreenSays
<1>3. LabelTellsTarget'
  BY <1>1, <1>2 DEF LabelTellsTarget
<1> QED
  BY <1>1, <1>3 DEF Editing, ScreenSays

LEMMA TypeKeeps ==
  ASSUME NEW d \in Drafts PROVE Editing /\ Type(d) => Editing'
<1> SUFFICES ASSUME Editing, Type(d) PROVE Editing'
  OBVIOUS
<1> DEFINE s == [screen EXCEPT !.field = d]
           eq == FromLatex(d)
<1>1. StoreStays /\ session' = session /\ screen' = MagnitudeSynced(s, eq)
  BY DEF Type
<1>2. screen \in Screens /\ SessionSays
  BY DEF Editing, ScreenSays
<1>3. d \in Typed /\ eq \in Typed
  <2>1. d \in Typed
    BY DraftsAssumption DEF Typed
  <2> QED
    BY <2>1, EquationsTyped
<1> HIDE DEF eq
<1>4. s \in Screens /\ s.label = screen.label /\ s.canApply = screen.canApply /\ s.cancel = screen.cancel
  BY <1>2, <1>3 DEF Screens
<1> HIDE DEF s
<1>5. /\ screen' \in Screens /\ screen'.label = screen.label
      /\ screen'.canApply = screen.canApply /\ screen'.cancel = screen.cancel
  BY <1>1, <1>3, <1>4, SyncedIs
<1>6. SessionSays'
  BY <1>1, <1>2, StoreUntouched DEF SessionSays
<1> QED
  BY <1>1, <1>5, <1>6, LabelStays

LEMMA ClearKeeps == Editing /\ Clear => Editing'
<1> SUFFICES ASSUME Editing, Clear PROVE Editing'
  OBVIOUS
<1>1. StoreStays /\ session' = session /\ screen' = [screen EXCEPT !.field = Empty]
  BY DEF Clear
<1>2. screen \in Screens /\ SessionSays /\ Empty \in Typed
  BY EquationsTyped DEF Editing, ScreenSays
<1>3. /\ screen' \in Screens /\ screen'.label = screen.label
      /\ screen'.canApply = screen.canApply /\ screen'.cancel = screen.cancel
  BY <1>1, <1>2 DEF Screens
<1>4. SessionSays'
  BY <1>1, <1>2, StoreUntouched DEF SessionSays
<1> QED
  BY <1>1, <1>3, <1>4, LabelStays


-----------------------------------------------------------------------------
(* Handlers that change the channels.                                      *)
LEMMA PoolAnnounced ==
  ASSUME Editing, NEW chs, Announce(chs), custom' \in BOOLEAN, PoolOK(custom', chs), pcap' = pcap
  PROVE  /\ StoreSays' /\ Captured' /\ channels' = chs /\ PoolOK(custom', channels')
         /\ DOMAIN hidden \subseteq DOMAIN hidden'
<1>1. Distinct(chs)
  BY DEF PoolOK
<1>2. MirrorsFresh' /\ channels' = chs /\ DOMAIN hidden \subseteq DOMAIN hidden'
  BY <1>1, AnnounceIs
<1>3. Captured'
  BY DEF Editing, Captured, PanelShowsCapture
<1> QED
  BY <1>2, <1>3 DEF StoreSays

LEMMA ElsewhereKeeps ==
  ASSUME Editing, NEW chs, AnnounceElsewhere(chs), custom' \in BOOLEAN, PoolOK(custom', chs),
         pcap' = pcap
  PROVE  Editing'
<1>1. Announce(chs) /\ screen' = Redrawn /\ session' = SessionRedrawn
  BY DEF AnnounceElsewhere
<1>2. /\ StoreSays' /\ Captured' /\ PoolOK(custom', channels')
      /\ DOMAIN hidden \subseteq DOMAIN hidden'
  BY <1>1, PoolAnnounced
<1>3. screen' \in Screens /\ ~screen'.canApply /\ screen'.label \in {None, "loading"}
  BY <1>1, BlankIs DEF Redrawn
<1> QED
  BY <1>1, <1>2, <1>3, QuietIs, SessionRedrawnIs DEF Editing

\* One equation of the pool.
LEMMA RewrittenIs ==
  ASSUME NEW allowed, PoolOK(allowed, channels), NEW id, NEW eq \in Stored,
         NEW r, r = Rewritten(id, eq)
  PROVE  /\ PoolOK(allowed, r) /\ Ids(r) = Ids(channels) /\ DOMAIN r = DOMAIN channels
         /\ \A i \in DOMAIN channels :
              r[i].id = channels[i].id /\ r[i].eq = IF channels[i].id = id THEN eq ELSE channels[i].eq
<1>1. channels \in Seq(Channel)
  BY DEF PoolOK
<1>2. \A i \in DOMAIN channels : channels[i] \in Channel
  BY <1>1
<1>3. r = [i \in DOMAIN channels |-> IF channels[i].id = id THEN [channels[i] EXCEPT !.eq = eq]
                                                              ELSE channels[i]]
  BY DEF Rewritten
<1>4. ASSUME NEW i \in DOMAIN channels
      PROVE  /\ r[i] \in Channel /\ r[i].id = channels[i].id
             /\ r[i].eq = IF channels[i].id = id THEN eq ELSE channels[i].eq
  <2>1. \A ch \in Channel : [ch EXCEPT !.eq = eq] \in Channel /\ [ch EXCEPT !.eq = eq].id = ch.id
                            /\ [ch EXCEPT !.eq = eq].eq = eq
    BY DEF Channel
  <2> QED
    BY <1>2, <1>3, <2>1
<1>5. r = [i \in DOMAIN channels |-> r[i]] /\ DOMAIN r = DOMAIN channels
  BY <1>3
<1>6. PoolOK(allowed, r) /\ Ids(r) = Ids(channels)
  BY <1>4, <1>5, MappedPool
<1> QED
  BY <1>4, <1>5, <1>6

LEMMA FieldIs == Editing => FromLatex(screen.field) \in Typed
<1>1. Editing => screen.field \in Typed
  BY DEF Editing, ScreenSays, Screens
<1> QED
  BY <1>1, EquationsTyped

RoomFor(d) == d.name = "" => session.counter + Len(channels) <= Len(AutoNames)
LEMMA NamedIs ==
  ASSUME Editing, NEW d \in Typed, RoomFor(d)
  PROVE  NameOf(d) \in Names /\ Counted(d) \in 1..(Len(AutoNames) + 1)
<1>0. session \in Sessions /\ PoolOK(custom, channels)
  BY DEF Editing, SessionSays, StoreSays
<1>1. session.counter \in 1..(Len(AutoNames) + 1)
  BY <1>0 DEF Sessions
<1>2. Len(AutoNames) \in Nat
  BY BaseIs
<1>3. CASE d.name # ""
  BY <1>1, <1>3 DEF NameOf, Counted, Names, Typed
<1>4. CASE d.name = ""
  <2> DEFINE k == AutoName(session.counter)
  <2>0. session.counter + Len(channels) <= Len(AutoNames)
    BY <1>4 DEF RoomFor
  <2>1. k \in 1..Len(AutoNames) /\ AutoNames[k] \in Names
    BY <1>0, <1>1, <2>0, AutoNameIs
  <2>2. NameOf(d) = AutoNames[k] /\ Counted(d) = k + 1
    BY <1>4 DEF NameOf, Counted
  <2> HIDE DEF k
  <2>3. k + 1 \in 1..(Len(AutoNames) + 1)
    BY <1>2, <2>1
  <2> QED
    BY <2>1, <2>2, <2>3
<1> QED
  BY <1>3, <1>4

LEMMA ChannelAdded ==
  ASSUME Editing, NEW id \in Names, NEW d \in Stored, CanAdd(id),
         NEW r, r = Append(channels, [id |-> id, eq |-> [d EXCEPT !.name = ""]])
  PROVE  /\ PoolOK(custom, r) /\ Ids(channels) \subseteq Ids(r)
         /\ \A i \in DOMAIN channels : i \in DOMAIN r /\ r[i] = channels[i]
<1> DEFINE ch == [id |-> id, eq |-> [d EXCEPT !.name = ""]]
<1>1. ch \in Channel /\ ch.id = id
  BY DEF Channel, Stored
<1>2. r = Added(channels, ch)
  BY DEF Added
<1> HIDE DEF ch
<1>3. /\ custom /\ PoolOK(custom, channels)
      /\ HasRoom(channels) /\ ch.id \notin Ids(channels)
  BY <1>1 DEF HasRoom, CanAdd, Editing, StoreSays
<1>4. /\ PoolOK(custom, r) /\ Ids(r) = Ids(channels) \cup {ch.id}
      /\ \A i \in DOMAIN channels : i \in DOMAIN r /\ r[i] = channels[i]
  BY <1>1, <1>2, <1>3, AddedPool
<1> QED
  BY <1>4

LEMMA CreateChannelKeeps == Editing /\ CreateChannel => Editing'
<1> SUFFICES ASSUME Editing, CreateChannel PROVE Editing'
  OBVIOUS
<1> DEFINE d == FromLatex(screen.field)
           id == NameOf(d)
           r == Append(channels, [id |-> id, eq |-> [d EXCEPT !.name = ""]])
<1>1. RoomFor(d)
  BY DEF CreateChannel, RoomFor
<1>2. d \in Typed
  BY FieldIs
<1>3. id \in Names /\ Counted(d) \in 1..(Len(AutoNames) + 1)
  BY <1>1, <1>2, NamedIs
<1>4. CASE Valid(d) /\ CanAdd(id)
  <2>1. /\ Announce(r) /\ screen' = Exited(Redrawn)
        /\ session' = [current |-> None, creating |-> FALSE, counter |-> Counted(d)]
        /\ custom' = custom /\ pcap' = pcap
    BY <1>4 DEF CreateChannel
  <2>2. d \in Stored
    <3>1. screen.field \in Typed
      BY DEF Editing, ScreenSays, Screens
    <3> QED
      BY <1>4, <3>1, EquationsTyped
  <2>3. custom \in BOOLEAN /\ PoolOK(custom, r)
    BY <1>3, <1>4, <2>2, ChannelAdded DEF Editing, StoreSays
  <2> HIDE DEF r, d
  <2>4. custom' \in BOOLEAN /\ PoolOK(custom', r)
    BY <2>1, <2>3
  <2>5. /\ StoreSays' /\ Captured' /\ PoolOK(custom', channels')
    BY <2>1, <2>4, PoolAnnounced
  <2>6. screen' \in Screens /\ ~screen'.canApply /\ screen'.label = None
    <3>1. Redrawn \in Screens
      BY BlankIs DEF Redrawn
    <3> QED
      BY <2>1, <3>1, ScreenIs
  <2>7. SessionSays'
    BY <1>3, <2>1 DEF SessionSays, Sessions
  <2> QED
    BY <2>5, <2>6, <2>7, QuietIs DEF Editing
<1>5. CASE ~(Valid(d) /\ CanAdd(id))
  <2>1. session' = [session EXCEPT !.counter = Counted(d)] /\ StoreStays /\ screen' = screen
    BY <1>5 DEF CreateChannel
  <2> HIDE DEF d
  <2>2. session \in Sessions /\ screen \in Screens
    BY DEF Editing, SessionSays, ScreenSays
  <2>3. /\ session' \in Sessions /\ session'.current = session.current
        /\ session'.creating = session.creating
    BY <1>3, <2>1, <2>2 DEF Sessions
  <2>4. SessionSays'
    BY <2>1, <2>3, StoreUntouched DEF SessionSays
  <2> QED
    BY <2>1, <2>2, <2>3, <2>4, LabelStays
<1> QED
  BY <1>4, <1>5

LEMMA ApplyToChannelKeeps == Editing /\ ApplyToChannel => Editing'
<1> SUFFICES ASSUME Editing, ApplyToChannel PROVE Editing'
  OBVIOUS
<1> DEFINE d == FromLatex(screen.field)
           r == Rewritten(session.current, d)
<1>1. Valid(d) /\ AnnounceElsewhere(r) /\ custom' = custom /\ pcap' = pcap
  BY DEF ApplyToChannel
<1>2. screen.field \in Typed /\ custom \in BOOLEAN /\ PoolOK(custom, channels)
  BY DEF Editing, ScreenSays, Screens, StoreSays
<1>3. d \in Stored
  BY <1>1, <1>2, EquationsTyped
<1> HIDE DEF d
<1>4. PoolOK(custom, r)
  BY <1>2, <1>3, RewrittenIs
<1> HIDE DEF r
<1>5. custom' \in BOOLEAN /\ PoolOK(custom', r)
  BY <1>1, <1>2, <1>4
<1> QED
  BY <1>1, <1>5, ElsewhereKeeps

LEMMA MagnitudeChangeKeeps ==
  ASSUME NEW m \in Magnitudes \cup {NoMag} PROVE Editing /\ MagnitudeChange(m) => Editing'
<1> SUFFICES ASSUME Editing, MagnitudeChange(m) PROVE Editing'
  OBVIOUS
<1> DEFINE id == session.current
           eq == EqOf(channels, id)
           new == WithMagnitude(eq, m)
           r == Rewritten(id, new)
           known == screen.wired /\ id \in Ids(channels) /\ ~session.creating
           taken == m # NoMag /\ Valid(new) /\ new # eq
<1>0. m \in Nat \cup {NoMag} /\ (m # NoMag => m \in Nat)
  BY DraftsAssumption
<1>1. screen \in Screens /\ SessionSays /\ custom \in BOOLEAN /\ PoolOK(custom, channels)
  BY DEF Editing, ScreenSays, StoreSays
<1>2. EditorUp /\ custom' = custom /\ pcap' = pcap
  BY DEF MagnitudeChange
<1>3. known => eq \in Stored /\ eq \in Typed
  BY <1>1, ChannelOf, EquationsTyped
<1>4. CASE known /\ taken
  <2>1. /\ Announce(r) /\ screen' = [Redrawn EXCEPT !.field = new]
        /\ session' = SessionRedrawn
    BY <1>4 DEF MagnitudeChange
  <2>2. new \in Stored /\ new \in Typed
    BY <1>0, <1>3, <1>4, EquationsTyped
  <2> HIDE DEF new
  <2>3. PoolOK(custom, r)
    BY <1>1, <2>2, RewrittenIs
  <2> HIDE DEF r
  <2>4. custom' \in BOOLEAN /\ PoolOK(custom', r)
    BY <1>1, <1>2, <2>3
  <2>5. /\ StoreSays' /\ Captured' /\ PoolOK(custom', channels')
        /\ DOMAIN hidden \subseteq DOMAIN hidden'
    BY <1>2, <2>1, <2>4, PoolAnnounced
  <2>6. screen' \in Screens /\ ~screen'.canApply /\ screen'.label \in {None, "loading"}
    <3>1. Redrawn \in Screens /\ ~Redrawn.canApply /\ Redrawn.label \in {None, "loading"}
      BY BlankIs DEF Redrawn
    <3>2. \A s \in Screens : /\ [s EXCEPT !.field = new] \in Screens
                             /\ [s EXCEPT !.field = new].label = s.label
                             /\ [s EXCEPT !.field = new].canApply = s.canApply
      BY <2>2 DEF Screens
    <3> QED
      BY <2>1, <3>1, <3>2
  <2> QED
    BY <2>1, <2>5, <2>6, QuietIs, SessionRedrawnIs DEF Editing
<1>5. CASE ~(known /\ taken)
  <2>1. session' = session /\ UNCHANGED <<channels, hidden, table>>
    BY <1>5 DEF MagnitudeChange
  <2>2. StoreStays
    BY <1>2, <2>1 DEF StoreStays
  <2>3. \/ m # NoMag /\ screen' = [screen EXCEPT !.mag = m]
        \/ known /\ screen' = MagnitudeSynced(screen, eq)
    BY <1>5 DEF MagnitudeChange
  <2> HIDE DEF known, eq, taken
  <2>4. /\ screen' \in Screens /\ screen'.label = screen.label
        /\ screen'.canApply = screen.canApply /\ screen'.cancel = screen.cancel
    <3>1. ASSUME m # NoMag, screen' = [screen EXCEPT !.mag = m]
          PROVE  /\ screen' \in Screens /\ screen'.label = screen.label
                 /\ screen'.canApply = screen.canApply /\ screen'.cancel = screen.cancel
      BY <1>0, <1>1, <3>1 DEF Screens
    <3>2. ASSUME known, screen' = MagnitudeSynced(screen, eq)
          PROVE  /\ screen' \in Screens /\ screen'.label = screen.label
                 /\ screen'.canApply = screen.canApply /\ screen'.cancel = screen.cancel
      BY <1>1, <1>3, <3>2, SyncedIs
    <3> QED
      BY <2>3, <3>1, <3>2
  <2>5. SessionSays'
    BY <1>1, <2>1, <2>2, StoreUntouched DEF SessionSays
  <2> QED
    BY <2>1, <2>2, <2>4, <2>5, LabelStays
<1> QED
  BY <1>4, <1>5

LEMMA FaultTemplateKeeps == Editing /\ FaultTemplate => Editing'
<1> SUFFICES ASSUME Editing, FaultTemplate PROVE Editing'
  OBVIOUS
<1> DEFINE repaired(i) == IF channels[i].id \in Neutral THEN Equation("", "const", 0)
                                                      ELSE Equation("", "sine", 2)
           r == [i \in DOMAIN channels |->
                   IF channels[i].id \in ToSet(Base) THEN [channels[i] EXCEPT !.eq = repaired(i)]
                   ELSE channels[i]]
<1>1. AnnounceElsewhere(r) /\ custom' = custom /\ pcap' = pcap
  BY DEF FaultTemplate
<1>2. custom \in BOOLEAN /\ PoolOK(custom, channels) /\ channels \in Seq(Channel)
  BY DEF Editing, StoreSays, PoolOK
<1>3. \A i \in DOMAIN channels : channels[i] \in Channel
  BY <1>2
<1>4. \A i \in DOMAIN channels : repaired(i) \in Stored
  BY DEF Equation, Stored
<1> HIDE DEF repaired
<1>5. \A i \in DOMAIN channels : r[i] \in Channel /\ r[i].id = channels[i].id
  <2>1. \A ch \in Channel, eq \in Stored :
          [ch EXCEPT !.eq = eq] \in Channel /\ [ch EXCEPT !.eq = eq].id = ch.id
    BY DEF Channel
  <2> QED
    BY <1>3, <1>4, <2>1
<1>6. r = [i \in DOMAIN channels |-> r[i]]
  OBVIOUS
<1> HIDE DEF r
<1>7. PoolOK(custom, r)
  BY <1>2, <1>5, <1>6, MappedPool
<1>8. custom' \in BOOLEAN /\ PoolOK(custom', r)
  BY <1>1, <1>2, <1>7
<1> QED
  BY <1>1, <1>8, ElsewhereKeeps

LEMMA StandardChangeKeeps == Editing /\ StandardChange => Editing'
<1> SUFFICES ASSUME Editing, StandardChange PROVE Editing'
  OBVIOUS
<1>1. custom' = ~custom /\ pcap' = pcap /\ custom \in BOOLEAN /\ PoolOK(custom, channels)
  BY DEF StandardChange, Editing, StoreSays
<1>2. CASE custom
  <2>1. AnnounceElsewhere(BaseOnly(channels))
    BY <1>2 DEF StandardChange
  <2>2. custom' = FALSE /\ PoolOK(FALSE, BaseOnly(channels))
    BY <1>1, <1>2, BasePool
  <2>3. custom' \in BOOLEAN /\ PoolOK(custom', BaseOnly(channels))
    BY <2>2
  <2> QED
    BY <1>1, <2>1, <2>3, ElsewhereKeeps
<1>3. CASE ~custom
  <2>1. AnnounceElsewhere(channels)
    BY <1>3 DEF StandardChange
  <2>2. custom' = TRUE /\ custom' \in BOOLEAN
    BY <1>1, <1>3
  <2>3. PoolOK(custom', channels)
    BY <1>1, <2>2 DEF PoolOK
  <2> QED
    BY <1>1, <2>1, <2>2, <2>3, ElsewhereKeeps
<1> QED
  BY <1>2, <1>3


-----------------------------------------------------------------------------
(* The capture tab, and stuttering.                                        *)
LEMMA OthersUntouched ==
  ASSUME Editing, UNCHANGED <<custom, channels, hidden, session, screen, table>>, Captured'
  PROVE  Editing'
<1>1. /\ custom' = custom /\ channels' = channels /\ hidden' = hidden /\ session' = session
      /\ screen' = screen /\ table' = table
  OBVIOUS
<1>2. StoreSays'
  BY <1>1 DEF Editing, StoreSays, MirrorsFresh
<1>3. SessionSays'
  BY <1>1 DEF Editing, SessionSays, Sessions
<1>4. ScreenSays'
  BY <1>1 DEF Editing, ScreenSays, LabelTellsTarget
<1> QED
  BY <1>2, <1>3, <1>4 DEF Editing

LEMMA CaptureKeeps ==
  Editing /\ (\/ \E t \in {"pcap", "equation"} : ShowTab(t)
              \/ \E f \in Files : Upload(f)
              \/ RemovePcap
              \/ \E i \in DOMAIN pcap.calls, ok \in BOOLEAN : Answer(i, ok)) => Editing'
<1>0. Editing => /\ pcap = [file |-> pcap.file, panel |-> pcap.panel, tab |-> pcap.tab,
                            mode |-> pcap.mode, calls |-> pcap.calls]
                 /\ pcap.panel = pcap.file
  BY DEF Editing, Captured, PanelShowsCapture
<1>1. ASSUME Editing, NEW t, ShowTab(t) PROVE Editing'
  <2>1. /\ pcap' = [pcap EXCEPT !.tab = t, !.mode = t]
        /\ UNCHANGED <<custom, channels, hidden, session, screen, table>>
    BY <1>1 DEF ShowTab
  <2>2. Captured'
    BY <1>0, <1>1, <2>1 DEF Captured, PanelShowsCapture
  <2> QED
    BY <1>1, <2>1, <2>2, OthersUntouched
<1>2. ASSUME Editing, NEW c, Call(c) PROVE Editing'
  <2> DEFINE q == Append(pcap.calls, c)
  <2>1. /\ pcap' = [pcap EXCEPT !.calls = q]
        /\ UNCHANGED <<custom, channels, hidden, session, screen, table>>
    BY <1>2 DEF Call
  <2> HIDE DEF q
  <2>2. Captured'
    BY <1>0, <1>2, <2>1 DEF Captured, PanelShowsCapture
  <2> QED
    BY <1>2, <2>1, <2>2, OthersUntouched
<1>3. ASSUME Editing, NEW i \in DOMAIN pcap.calls, NEW ok \in BOOLEAN, Answer(i, ok)
      PROVE  Editing'
  <2> DEFINE c == pcap.calls[i]
             after == IF c = None THEN [pcap EXCEPT !.file = None, !.panel = None]
                      ELSE Loaded(c, ok)
             q == RemoveAt(after.calls, i)
  <2>1. /\ pcap' = [after EXCEPT !.calls = q]
        /\ UNCHANGED <<custom, channels, hidden, session, screen, table>>
    BY <1>3 DEF Answer
  <2>2. \/ after = pcap \/ after = [pcap EXCEPT !.file = c, !.panel = c]
    <3> HIDE DEF c
    <3>1. CASE c = None
      BY <3>1
    <3>2. CASE c # None
      BY <3>2 DEF Loaded
    <3> QED
      BY <3>1, <3>2
  <2> HIDE DEF c, after, q
  <2>3. /\ after = [file |-> after.file, panel |-> after.panel, tab |-> after.tab,
                    mode |-> after.mode, calls |-> after.calls]
        /\ after.panel = after.file
    BY <1>0, <1>3, <2>2
  <2>4. Captured'
    BY <2>1, <2>3 DEF Captured, PanelShowsCapture
  <2> QED
    BY <1>3, <2>1, <2>4, OthersUntouched
<1> QED
  BY <1>1, <1>2, <1>3 DEF Upload, RemovePcap

LEMMA EditingKept == Editing /\ [EditorNext]_editorVars => Editing'
<1> SUFFICES ASSUME Editing, [EditorNext]_editorVars PROVE Editing'
  OBVIOUS
<1>1. MathLiveLoads => Editing'
  BY MathLiveLoadsKeeps
<1>2. (\E id \in Names : ClickChannel(id)) => Editing'
  BY ClickChannelKeeps
<1>3. ClickNew \/ CancelNew \/ Clear \/ CreateChannel \/ ApplyToChannel => Editing'
  BY ClickNewKeeps, CancelNewKeeps, ClearKeeps, CreateChannelKeeps, ApplyToChannelKeeps
<1>4. (\E d \in Drafts : Type(d)) => Editing'
  BY TypeKeeps
<1>5. (\E m \in Magnitudes \cup {NoMag} : MagnitudeChange(m)) => Editing'
  BY MagnitudeChangeKeeps
<1>6. FaultTemplate \/ StandardChange => Editing'
  BY FaultTemplateKeeps, StandardChangeKeeps
<1>7. UNCHANGED editorVars => Editing'
  <2> SUFFICES ASSUME UNCHANGED editorVars PROVE Editing'
    OBVIOUS
  <2>1. UNCHANGED <<custom, channels, hidden, session, screen, table>> /\ pcap' = pcap
    BY DEF editorVars
  <2>2. Captured'
    BY <2>1 DEF Editing, Captured, PanelShowsCapture
  <2> QED
    BY <2>1, <2>2, OthersUntouched
<1> QED
  BY <1>1, <1>2, <1>3, <1>4, <1>5, <1>6, <1>7, CaptureKeeps DEF EditorNext

LEMMA EditingConsistent == Editing => EditorConsistent
<1> SUFFICES ASSUME Editing PROVE EditorConsistent
  OBVIOUS
<1>1. /\ custom \in BOOLEAN /\ PoolOK(custom, channels) /\ MirrorsFresh /\ LabelTellsTarget
      /\ PanelShowsCapture /\ session \in Sessions /\ screen \in Screens
  BY DEF Editing, StoreSays, SessionSays, ScreenSays, Captured
<1>2. channels \in Seq(Channel) /\ Distinct(channels)
  BY <1>1 DEF PoolOK
<1>3. NamesUnique
  BY <1>1, <1>2, NamesCounted DEF NamesUnique, PoolOK
<1>4. EditorTypeOK
  <2>1. \A i \in DOMAIN channels : channels[i] \in Channel
    BY <1>2
  <2>2. \A i \in DOMAIN channels : channels[i].eq \in
          [name : Written \cup {""}, kind : {"const", "sine", "other"}, mag : Nat]
    BY <2>1 DEF Channel, Stored
  <2>3. /\ session.current \in Ids(channels) \cup {None} \cup DOMAIN hidden
        /\ session.creating \in BOOLEAN
    BY <1>1 DEF Sessions
  <2>4. session.counter \in 1..(Len(AutoNames) + 1)
    BY <1>1 DEF Sessions
  <2>5. screen.mag \in Nat \cup {NoMag}
    BY <1>1 DEF Screens
  <2> QED
    BY <1>1, <2>2, <2>3, <2>4, <2>5 DEF EditorTypeOK
<1> QED
  BY <1>1, <1>3, <1>4 DEF EditorConsistent

\* The editor, its mirrors, the pool and the capture tab tell the same story
\* after any order of edits, notifications and answers.
THEOREM EditorStaysConsistent == EditorSpec => []EditorConsistent
<1>1. EditorSpec => []Editing
  BY InitEditing, EditingKept, PTL DEF EditorSpec
<1> QED
  BY <1>1, EditingConsistent, PTL

-----------------------------------------------------------------------------
(* What Apply changes.                                                     *)
LEMMA AppliedIs ==
  ASSUME Editing, ApplyToChannel
  PROVE  /\ \A id \in Ids(channels) :
              id \in Ids(channels') /\ (id # screen.label => EqOf(channels', id) = EqOf(channels, id))
         /\ screen.label \in Ids(channels) =>
              EqOf(channels', screen.label) = FromLatex(screen.field)
         /\ screen.label # New
<1> DEFINE d == FromLatex(screen.field)
<1>1. /\ Valid(d) /\ screen.canApply /\ ~session.creating
      /\ channels' = Rewritten(session.current, d)
  BY DEF ApplyToChannel, AnnounceElsewhere, Announce
<1>2. screen.field \in Typed /\ PoolOK(custom, channels) /\ LabelTellsTarget
  BY DEF Editing, ScreenSays, Screens, StoreSays
<1>3. d \in Stored
  BY <1>1, <1>2, EquationsTyped
<1> HIDE DEF d
<1>4. screen.label \in Ids(channels) /\ session.current = screen.label /\ screen.label # New
  BY <1>1, <1>2 DEF LabelTellsTarget
<1>5. /\ PoolOK(custom, channels') /\ Ids(channels') = Ids(channels)
      /\ DOMAIN channels' = DOMAIN channels
      /\ \A i \in DOMAIN channels :
           channels'[i].id = channels[i].id /\ channels'[i].eq = IF channels[i].id = screen.label THEN d
                                                                 ELSE channels[i].eq
  BY <1>1, <1>2, <1>3, <1>4, RewrittenIs
<1>6. ASSUME NEW id \in Ids(channels)
      PROVE  EqOf(channels', id) = IF id = screen.label THEN d ELSE EqOf(channels, id)
  <2>1. PICK i \in DOMAIN channels : channels[i].id = id
    BY DEF Ids
  <2>2. Distinct(channels) /\ Distinct(channels')
    BY <1>2, <1>5 DEF PoolOK
  <2>3. EqOf(channels, id) = channels[i].eq /\ EqOf(channels', id) = channels'[i].eq
    BY <1>5, <2>1, <2>2, EqOfIs
  <2> QED
    BY <1>5, <2>1, <2>3
<1> QED
  BY <1>4, <1>5, <1>6 DEF d

LEMMA CreatedIs ==
  ASSUME Editing, CreateChannel, Editing'
  PROVE  /\ \A id \in Ids(channels) :
              id \in Ids(channels') /\ EqOf(channels', id) = EqOf(channels, id)
         /\ screen.label \notin Ids(channels)
         /\ Cardinality(Ids(channels')) = Len(channels')
<1> DEFINE d == FromLatex(screen.field)
           id == NameOf(d)
           r == Append(channels, [id |-> id, eq |-> [d EXCEPT !.name = ""]])
<1>1. session.creating /\ RoomFor(d)
  BY DEF CreateChannel, RoomFor
<1>2. screen.field \in Typed /\ PoolOK(custom, channels) /\ PoolOK(custom', channels') /\ LabelTellsTarget
  BY DEF Editing, ScreenSays, Screens, StoreSays
<1>3. channels' \in Seq(Channel) /\ Distinct(channels') /\ Distinct(channels)
  BY <1>2 DEF PoolOK
<1>4. Cardinality(Ids(channels')) = Len(channels')
  BY <1>3, NamesCounted
<1>5. screen.label \notin Ids(channels)
  BY <1>1, <1>2 DEF LabelTellsTarget
<1>6. \A i \in DOMAIN channels : i \in DOMAIN channels' /\ channels'[i] = channels[i]
  <2>1. CASE Valid(d) /\ CanAdd(id)
    <3>1. channels' = r
      BY <2>1 DEF CreateChannel, Announce
    <3>2. d \in Stored /\ d \in Typed
      BY <1>2, <2>1, EquationsTyped
    <3>3. id \in Names
      BY <1>1, <3>2, NamedIs
    <3> HIDE DEF d
    <3> QED
      BY <2>1, <3>1, <3>2, <3>3, ChannelAdded
  <2>2. CASE ~(Valid(d) /\ CanAdd(id))
    BY <2>2 DEF CreateChannel, StoreStays
  <2> QED
    BY <2>1, <2>2
<1>7. ASSUME NEW x \in Ids(channels)
      PROVE  x \in Ids(channels') /\ EqOf(channels', x) = EqOf(channels, x)
  <2>1. PICK i \in DOMAIN channels : channels[i].id = x
    BY DEF Ids
  <2>2. i \in DOMAIN channels' /\ channels'[i] = channels[i]
    BY <1>6
  <2>3. EqOf(channels, x) = channels[i].eq /\ EqOf(channels', x) = channels'[i].eq
    BY <1>3, <2>1, <2>2, EqOfIs
  <2>4. x \in Ids(channels')
    BY <2>1, <2>2 DEF Ids
  <2> QED
    BY <2>2, <2>3, <2>4
<1> QED
  BY <1>4, <1>5, <1>7

\* Apply changes the labelled channel and no other, to what the field holds;
\* creating a channel leaves every other as it was.
THEOREM ApplyDoesAsShown == EditorSpec => ApplyHitsShown
<1> DEFINE shown ==
      /\ \A id \in Ids(channels) :
           id \in Ids(channels') /\ (id # screen.label => EqOf(channels', id) = EqOf(channels, id))
      /\ screen.label \in Ids(channels) =>
           EqOf(channels', screen.label) = FromLatex(screen.field)
      /\ screen.label = New => Cardinality(Ids(channels')) = Len(channels')
<1>1. Editing /\ Editing' /\ (ApplyToChannel \/ CreateChannel) => shown
  BY AppliedIs, CreatedIs
<1>2. EditorSpec => []Editing
  BY InitEditing, EditingKept, PTL DEF EditorSpec
<1> QED
  BY <1>1, <1>2, PTL DEF ApplyHitsShown

-----------------------------------------------------------------------------
(* The frame viewer.                                                       *)
(*                                                                         *)
(* The tree and the dump are the ones that would be drawn now, apart from  *)
(* what is patched in them, whichever handler ran last; and what a list    *)
(* of channels is changed by keeps every channel in it once.               *)
-----------------------------------------------------------------------------
(* Lists.                                                                  *)

\* Every place of r has a place of list of its own, with the same element.
DrawnFrom(r, list) ==
  \E e : /\ \A k \in DOMAIN r : e[k] \in DOMAIN list /\ r[k] = list[e[k]]
         /\ \A j, k \in DOMAIN r : e[j] = e[k] => j = k

LEMMA DrawnKeeps ==
  ASSUME NEW r, NEW list, DrawnFrom(r, list)
  PROVE  IsInjective(list) => IsInjective(r)
BY DEF DrawnFrom, IsInjective

LEMMA PrefixIs ==
  ASSUME NEW V, NEW list \in Seq(V), NEW n \in Int, n <= Len(list)
  PROVE  /\ SubSeq(list, 1, n) \in Seq(V)
         /\ Len(SubSeq(list, 1, n)) = IF 1 <= n THEN n ELSE 0
         /\ \A i \in 1..n : SubSeq(list, 1, n)[i] = list[i]
         /\ DrawnFrom(SubSeq(list, 1, n), list)
<1> DEFINE r == SubSeq(list, 1, n)
<1>1. \A i \in 1..n : i \in 1..Len(list) /\ list[i] \in V
  OBVIOUS
<1>2. /\ r \in Seq(V) /\ Len(r) = IF 1 <= n THEN n - 1 + 1 ELSE 0
      /\ \A i \in 1..(n - 1 + 1) : r[i] = list[1 + i - 1]
  BY <1>1, SubSeqProperties, SMTT(30)
<1> HIDE DEF r
<1>3. n - 1 + 1 = n /\ \A i \in 1..n : 1 + i - 1 = i
  OBVIOUS
<1>4. DOMAIN r = 1..n
  <2>1. DOMAIN r = 1..Len(r)
    BY <1>2
  <2> QED
    BY <2>1, <1>2
<1>5. \A i \in 1..n : r[i] = list[i]
  BY <1>2, <1>3
<1>6. DrawnFrom(r, list)
  <2> DEFINE e == [k \in 1..n |-> k]
  <2>1. \A k \in DOMAIN r : e[k] = k /\ k \in DOMAIN list
    BY <1>4, <1>1
  <2> HIDE DEF e
  <2> QED
    BY <2>1, <1>4, <1>5 DEF DrawnFrom
<1>7. Len(r) = IF 1 <= n THEN n ELSE 0
  BY <1>2, <1>3
<1> QED
  BY <1>2, <1>5, <1>6, <1>7 DEF r

LEMMA RemoveAtIs ==
  ASSUME NEW V, NEW list \in Seq(V), NEW i \in DOMAIN list
  PROVE  /\ RemoveAt(list, i) \in Seq(V)
         /\ Len(RemoveAt(list, i)) = Len(list) - 1
         /\ \A k \in 1..(Len(list) - 1) :
              RemoveAt(list, i)[k] = list[IF k < i THEN k ELSE k + 1]
<1> DEFINE a == SubSeq(list, 1, i - 1)
           b == SubSeq(list, i + 1, Len(list))
<1>1. i \in 1..Len(list) /\ Len(list) \in Nat
  OBVIOUS
<1>2. /\ a \in Seq(V) /\ Len(a) = i - 1
      /\ \A k \in 1..(i - 1) : a[k] = list[k]
  <2>1. i - 1 \in Int /\ i - 1 <= Len(list) /\ (IF 1 <= i - 1 THEN i - 1 ELSE 0) = i - 1
    BY <1>1
  <2> QED
    BY <2>1, PrefixIs
<1>3. /\ b \in Seq(V) /\ Len(b) = Len(list) - i
      /\ \A k \in 1..(Len(list) - i) : b[k] = list[i + k]
  <2>1. /\ i + 1 \in Int /\ Len(list) \in Int
        /\ \A k \in (i + 1)..Len(list) : list[k] \in V
    BY <1>1
  <2>2. /\ b \in Seq(V)
        /\ Len(b) = IF i + 1 <= Len(list) THEN Len(list) - (i + 1) + 1 ELSE 0
        /\ \A k \in 1..(Len(list) - (i + 1) + 1) : b[k] = list[(i + 1) + k - 1]
    BY <2>1, SubSeqProperties, SMTT(30)
  <2> HIDE DEF b
  <2>3. Len(list) - (i + 1) + 1 = Len(list) - i
    BY <1>1
  <2>4. ASSUME NEW k \in 1..(Len(list) - i) PROVE b[k] = list[i + k]
    <3>1. b[k] = list[(i + 1) + k - 1]
      BY <2>2, <2>3
    <3>2. (i + 1) + k - 1 = i + k
      BY <1>1
    <3> QED
      BY <3>1, <3>2
  <2>5. Len(b) = Len(list) - i
    <3>1. (IF i + 1 <= Len(list) THEN Len(list) - (i + 1) + 1 ELSE 0) = Len(list) - i
      BY <1>1
    <3> QED
      BY <2>2, <3>1
  <2> QED
    BY <2>2, <2>4, <2>5
<1>4. RemoveAt(list, i) = a \o b
  BY DEF RemoveAt
<1> HIDE DEF a, b
<1>5. /\ a \o b \in Seq(V)
      /\ Len(a \o b) = Len(a) + Len(b)
      /\ \A k \in 1..(Len(a) + Len(b)) :
           (a \o b)[k] = IF k <= Len(a) THEN a[k] ELSE b[k - Len(a)]
  BY <1>2, <1>3, ConcatProperties, ZenonT(30)
<1>6. Len(a) + Len(b) = Len(list) - 1
  BY <1>1, <1>2, <1>3
<1>7. \A k \in 1..(Len(list) - 1) : (a \o b)[k] = list[IF k < i THEN k ELSE k + 1]
  <2> SUFFICES ASSUME NEW k \in 1..(Len(list) - 1)
               PROVE  (a \o b)[k] = list[IF k < i THEN k ELSE k + 1]
    OBVIOUS
  <2>1. (a \o b)[k] = IF k <= Len(a) THEN a[k] ELSE b[k - Len(a)]
    BY <1>5, <1>6
  <2>2. CASE k < i
    <3>1. k <= Len(a) /\ k \in 1..(i - 1)
      BY <2>2, <1>1, <1>2
    <3> QED
      BY <2>1, <2>2, <3>1, <1>2
  <2>3. CASE ~(k < i)
    <3> DEFINE j == k - Len(a)
    <3>1. ~(k <= Len(a)) /\ j \in 1..(Len(list) - i) /\ i + j = k + 1
      BY <2>3, <1>1, <1>2
    <3>2. (a \o b)[k] = b[j]
      BY <2>1, <3>1
    <3> HIDE DEF j
    <3> QED
      BY <2>3, <3>1, <3>2, <1>3
  <2> QED
    BY <2>2, <2>3
<1> QED
  BY <1>4, <1>5, <1>6, <1>7

LEMMA RemoveAtDrawn ==
  ASSUME NEW V, NEW list \in Seq(V), NEW i \in DOMAIN list
  PROVE  DrawnFrom(RemoveAt(list, i), list)
<1> DEFINE r == RemoveAt(list, i)
           n == Len(list) - 1
           e == [k \in 1..n |-> IF k < i THEN k ELSE k + 1]
<1>1. i \in 1..Len(list) /\ Len(list) \in Nat /\ DOMAIN list = 1..Len(list)
  OBVIOUS
<1>2. r \in Seq(V) /\ Len(r) = n /\ \A k \in 1..n : r[k] = list[IF k < i THEN k ELSE k + 1]
  BY RemoveAtIs
<1> HIDE DEF r
<1>3. DOMAIN r = 1..n
  BY <1>2
<1>4. \A k \in 1..n : e[k] = IF k < i THEN k ELSE k + 1
  OBVIOUS
<1> HIDE DEF e
<1>5. \A k \in 1..n : e[k] \in DOMAIN list
  BY <1>1, <1>4
<1>6. \A j, k \in 1..n : e[j] = e[k] => j = k
  BY <1>1, <1>4
<1>7. \A k \in 1..n : r[k] = list[e[k]]
  BY <1>2, <1>4
<1>8. DrawnFrom(r, list)
  BY <1>3, <1>5, <1>6, <1>7 DEF DrawnFrom
<1> QED
  BY <1>8 DEF r

LEMMA ConcatIs ==
  ASSUME NEW V, NEW a \in Seq(V), NEW b \in Seq(V)
  PROVE  /\ a \o b \in Seq(V)
         /\ Len(a \o b) = Len(a) + Len(b)
         /\ \A k \in 1..Len(a) : (a \o b)[k] = a[k]
         /\ \A k \in 1..Len(b) : (a \o b)[Len(a) + k] = b[k]
         /\ \A k \in 1..Len(a \o b) : k \in 1..Len(a) \/ k - Len(a) \in 1..Len(b)
<1> DEFINE r == a \o b
<1>1. /\ r \in Seq(V)
      /\ Len(r) = Len(a) + Len(b)
      /\ \A k \in 1..(Len(a) + Len(b)) :
           r[k] = IF k <= Len(a) THEN a[k] ELSE b[k - Len(a)]
  BY ConcatProperties, ZenonT(30)
<1> HIDE DEF r
<1>2. Len(a) \in Nat /\ Len(b) \in Nat
  OBVIOUS
<1>3. \A k \in 1..Len(a) : r[k] = a[k]
  BY <1>1, <1>2
<1>4. ASSUME NEW k \in 1..Len(b) PROVE r[Len(a) + k] = b[k]
  <2> DEFINE j == Len(a) + k
  <2>1. j \in 1..(Len(a) + Len(b)) /\ ~(j <= Len(a)) /\ j - Len(a) = k
    BY <1>2
  <2> HIDE DEF j
  <2>2. r[j] = b[k]
    BY <2>1, <1>1
  <2> QED
    BY <2>2 DEF j
<1>5. \A k \in 1..Len(r) : k \in 1..Len(a) \/ k - Len(a) \in 1..Len(b)
  BY <1>1, <1>2
<1>6. /\ r \in Seq(V) /\ Len(r) = Len(a) + Len(b)
      /\ \A k \in 1..Len(a) : r[k] = a[k]
      /\ \A k \in 1..Len(b) : r[Len(a) + k] = b[k]
      /\ \A k \in 1..Len(r) : k \in 1..Len(a) \/ k - Len(a) \in 1..Len(b)
  BY <1>1, <1>3, <1>4, <1>5
<1> QED
  BY <1>6 DEF r

Joined(a, b) == a \o b

LEMMA JoinedIs ==
  ASSUME NEW V, NEW a \in Seq(V), NEW b \in Seq(V)
  PROVE  /\ Joined(a, b) \in Seq(V)
         /\ Len(Joined(a, b)) = Len(a) + Len(b)
         /\ \A k \in 1..Len(a) : Joined(a, b)[k] = a[k]
         /\ \A k \in 1..Len(b) : Joined(a, b)[Len(a) + k] = b[k]
         /\ \A k \in 1..Len(Joined(a, b)) : k \in 1..Len(a) \/ k - Len(a) \in 1..Len(b)
  BY ConcatIs DEF Joined

LEMMA InsertAtIs ==
  ASSUME NEW V, NEW list \in Seq(V), NEW i \in 1..(Len(list) + 1), NEW x \in V
  PROVE  /\ InsertAt(list, i, x) \in Seq(V)
         /\ Len(InsertAt(list, i, x)) = Len(list) + 1
         /\ \A k \in 1..(i - 1) : InsertAt(list, i, x)[k] = list[k]
         /\ InsertAt(list, i, x)[i] = x
         /\ \A k \in i..Len(list) : InsertAt(list, i, x)[k + 1] = list[k]
<1> DEFINE a == SubSeq(list, 1, i - 1)
           b == SubSeq(list, i, Len(list))
           c == a \o <<x>>
           r == Joined(c, b)
<1>1. Len(list) \in Nat /\ i - 1 \in Nat /\ i \in Int /\ i - 1 <= Len(list)
  OBVIOUS
<1>2. a \in Seq(V) /\ Len(a) = i - 1 /\ \A k \in 1..(i - 1) : a[k] = list[k]
  <2>1. i - 1 \in Int /\ (IF 1 <= i - 1 THEN i - 1 ELSE 0) = i - 1
    BY <1>1
  <2> QED
    BY <2>1, <1>1, PrefixIs
<1>3. b \in Seq(V) /\ Len(b) = Len(list) - i + 1 /\ \A k \in i..Len(list) : b[k - i + 1] = list[k]
  <2>1. /\ i \in Int /\ Len(list) \in Int
        /\ \A k \in i..Len(list) : list[k] \in V
    BY <1>1
  <2>2. /\ b \in Seq(V)
        /\ Len(b) = IF i <= Len(list) THEN Len(list) - i + 1 ELSE 0
        /\ \A k \in 1..(Len(list) - i + 1) : b[k] = list[i + k - 1]
    BY <2>1, SubSeqProperties, SMTT(30)
  <2> HIDE DEF b
  <2>3. (IF i <= Len(list) THEN Len(list) - i + 1 ELSE 0) = Len(list) - i + 1
    BY <1>1
  <2>4. ASSUME NEW k \in i..Len(list) PROVE b[k - i + 1] = list[k]
    <3> DEFINE j == k - i + 1
    <3>1. j \in 1..(Len(list) - i + 1) /\ i + j - 1 = k
      BY <1>1
    <3> HIDE DEF j
    <3>2. b[j] = list[k]
      BY <3>1, <2>2
    <3> QED
      BY <3>2 DEF j
  <2> QED
    BY <2>2, <2>3, <2>4
<1>4. InsertAt(list, i, x) = r
  BY DEF InsertAt, Joined
<1>5. <<x>> \in Seq(V) /\ Len(<<x>>) = 1 /\ <<x>>[1] = x
  OBVIOUS
<1> HIDE DEF a, b
<1>6. /\ c \in Seq(V) /\ Len(c) = i
      /\ \A k \in 1..(i - 1) : c[k] = list[k]
      /\ c[i] = x
  <2> DEFINE d == <<x>>
  <2>0. d \in Seq(V) /\ Len(d) = 1 /\ d[1] = x
    BY <1>5
  <2> HIDE DEF d
  <2>6. a \in Seq(V) /\ d \in Seq(V)
    BY <1>2, <2>0
  <2> DEFINE q == Joined(a, d)
  <2>1. /\ q \in Seq(V) /\ Len(q) = Len(a) + Len(d)
        /\ \A k \in 1..Len(a) : q[k] = a[k]
        /\ \A k \in 1..Len(d) : q[Len(a) + k] = d[k]
    BY <2>6, JoinedIs
  <2>3. /\ q \in Seq(V) /\ Len(q) = Len(a) + Len(d)
        /\ \A k \in 1..Len(a) : q[k] = a[k]
        /\ q[Len(a) + 1] = d[1]
    BY <2>1, <2>0
  <2> HIDE DEF q
  <2>4. Len(a) + Len(d) = i /\ Len(a) + 1 = i
    BY <1>1, <1>2, <2>0
  <2>5. q \in Seq(V) /\ Len(q) = i /\ (\A k \in 1..(i - 1) : q[k] = list[k]) /\ q[i] = x
    BY <2>0, <2>3, <2>4, <1>2
  <2> QED
    BY <2>5 DEF q, d, Joined
<1> HIDE DEF c
<1>12. b \in Seq(V) /\ c \in Seq(V)
  BY <1>3, <1>6
<1>7. /\ r \in Seq(V) /\ Len(r) = Len(c) + Len(b)
      /\ \A k \in 1..Len(c) : r[k] = c[k]
      /\ \A k \in 1..Len(b) : r[Len(c) + k] = b[k]
  BY <1>12, JoinedIs
<1> HIDE DEF r
<1>8. Len(r) = Len(list) + 1
  BY <1>1, <1>3, <1>6, <1>7
<1>9. /\ \A k \in 1..(i - 1) : r[k] = list[k]
      /\ r[i] = x
  BY <1>1, <1>6, <1>7
<1>10. ASSUME NEW k \in i..Len(list) PROVE r[k + 1] = list[k]
  <2>1. k - i + 1 \in 1..Len(b) /\ i + (k - i + 1) = k + 1
    BY <1>1, <1>3
  <2> QED
    BY <2>1, <1>3, <1>6, <1>7
<1>11. r \in Seq(V)
  BY <1>7
<1> QED
  BY <1>4, <1>11, <1>8, <1>9, <1>10 DEF r

LEMMA MovedIs ==
  ASSUME NEW V, NEW list \in Seq(V), NEW i \in DOMAIN list, NEW j \in DOMAIN list
  PROVE  /\ Moved(list, i, j) \in Seq(V)
         /\ Len(Moved(list, i, j)) = Len(list)
         /\ DrawnFrom(Moved(list, i, j), list)
<1> DEFINE a == RemoveAt(list, i)
           n == Len(list)
           r == InsertAt(a, j, list[i])
           e == [k \in 1..n |-> IF k = j THEN i
                                ELSE LET m == IF k < j THEN k ELSE k - 1
                                     IN  IF m < i THEN m ELSE m + 1]
<1>1. i \in 1..n /\ j \in 1..n /\ n \in Nat /\ DOMAIN list = 1..n /\ list[i] \in V
  OBVIOUS
<1>2. /\ a \in Seq(V) /\ Len(a) = n - 1
      /\ \A k \in 1..(n - 1) : a[k] = list[IF k < i THEN k ELSE k + 1]
  BY RemoveAtIs
<1>3. j \in 1..(Len(a) + 1) /\ Len(a) + 1 = n
  BY <1>1, <1>2
<1> HIDE DEF a, n
<1>11. a \in Seq(V) /\ j \in 1..(Len(a) + 1) /\ list[i] \in V
  BY <1>1, <1>2, <1>3
<1>4. /\ r \in Seq(V) /\ Len(r) = Len(a) + 1
      /\ \A k \in 1..(j - 1) : r[k] = a[k]
      /\ r[j] = list[i]
      /\ \A k \in j..Len(a) : r[k + 1] = a[k]
  BY SMTT(30), <1>11, InsertAtIs
<1> HIDE DEF r
<1>5. \A k \in 1..n : e[k] = IF k = j THEN i
                             ELSE IF k < j THEN IF k < i THEN k ELSE k + 1
                                           ELSE IF k - 1 < i THEN k - 1 ELSE k - 1 + 1
  OBVIOUS
<1> HIDE DEF e
<1>6. ASSUME NEW k \in 1..n PROVE r[k] = list[e[k]] /\ e[k] \in 1..n
  <2>1. CASE k = j
    BY <2>1, <1>1, <1>4, <1>5
  <2>2. CASE k < j
    <3>1. k \in 1..(j - 1) /\ k \in 1..(n - 1)
      BY <2>2, <1>1
    <3>2. e[k] = IF k < i THEN k ELSE k + 1
      BY <2>2, <1>1, <1>5
    <3>3. r[k] = list[IF k < i THEN k ELSE k + 1]
      BY <3>1, <1>2, <1>4
    <3>4. (IF k < i THEN k ELSE k + 1) \in 1..n
      BY <3>1, <1>1
    <3> QED
      BY <3>2, <3>3, <3>4
  <2>3. CASE j < k
    <3> DEFINE m == k - 1
    <3>1. m \in j..Len(a) /\ m \in 1..(n - 1) /\ m + 1 = k
      BY <2>3, <1>1, <1>3
    <3>2. e[k] = IF m < i THEN m ELSE m + 1
      BY <2>3, <1>1, <1>5
    <3> HIDE DEF m
    <3>3. r[k] = list[IF m < i THEN m ELSE m + 1]
      BY <3>1, <1>2, <1>4
    <3>4. (IF m < i THEN m ELSE m + 1) \in 1..n
      BY <3>1, <1>1
    <3> QED
      BY <3>2, <3>3, <3>4
  <2> QED
    BY <2>1, <2>2, <2>3, <1>1
<1>7. ASSUME NEW k \in 1..n, NEW l \in 1..n, e[k] = e[l] PROVE k = l
  <2> DEFINE Goes(m, q) == \/ m = j /\ q = i
                           \/ m < j /\ m < i /\ q = m
                           \/ m < j /\ m >= i /\ q = m + 1
                           \/ m > j /\ m - 1 < i /\ q = m - 1
                           \/ m > j /\ m - 1 >= i /\ q = m
  <2>1. ASSUME NEW m \in 1..n PROVE Goes(m, e[m])
    BY <1>1, <1>5
  <2>2. Goes(k, e[k]) /\ Goes(l, e[k])
    BY <1>7, <2>1
  <2>3. e[k] \in Int
    BY <1>1, <1>6
  <2> QED
    BY <1>1, <2>2, <2>3
<1>8. DOMAIN r = 1..n
  BY <1>3, <1>4
<1>9. DrawnFrom(r, list)
  BY SMTT(30), <1>1, <1>6, <1>7, <1>8 DEF DrawnFrom
<1>10. Moved(list, i, j) = r /\ Len(r) = n
  BY <1>3, <1>4 DEF Moved, r, a
<1> QED
  BY <1>4, <1>9, <1>10 DEF n

LEMMA LenIsCard ==
  ASSUME NEW V, NEW list \in Seq(V), IsInjective(list)
  PROVE  IsFiniteSet(ToSet(list)) /\ Cardinality(ToSet(list)) = Len(list)
<1> DEFINE n == Len(list)
           f == [i \in 1..n |-> list[i]]
<1>1. n \in Nat /\ DOMAIN list = 1..n
  OBVIOUS
<1> HIDE DEF n
<1>2. f \in Bijection(1..n, ToSet(list))
  <2>1. f \in [1..n -> ToSet(list)]
    BY <1>1 DEF ToSet
  <2>2. \A j, k \in 1..n : f[j] = f[k] => j = k
    BY <1>1 DEF IsInjective
  <2>3. \A x \in ToSet(list) : \E k \in 1..n : f[k] = x
    BY <1>1 DEF ToSet
  <2> HIDE DEF f
  <2> QED
    BY <2>1, <2>2, <2>3 DEF Bijection, Injection, Surjection, IsInjective
<1>3. IsFiniteSet(1..n) /\ Cardinality(1..n) = n
  BY <1>1, FS_Interval
<1>4. ExistsBijection(1..n, ToSet(list))
  BY <1>2 DEF ExistsBijection
<1> QED
  BY <1>3, <1>4, FS_Bijection DEF n


\* A list of channels, each once.
Listing(list) == list \in Seq(ToSet(Pool)) /\ IsInjective(list)

LEMMA PoolCard == IsFiniteSet(ToSet(Pool)) /\ Cardinality(ToSet(Pool)) <= Len(Pool)
                  /\ Cardinality(ToSet(Pool)) \in Nat /\ Len(Pool) \in Nat
<1> DEFINE n == Len(Pool)
           f == [i \in 1..n |-> Pool[i]]
<1>1. n \in Nat /\ DOMAIN Pool = 1..n
  BY PoolAssumption
<1> HIDE DEF n
<1>2. f \in Surjection(1..n, ToSet(Pool))
  <2>1. f \in [1..n -> ToSet(Pool)]
    BY <1>1 DEF ToSet
  <2>2. \A x \in ToSet(Pool) : \E k \in 1..n : f[k] = x
    BY <1>1 DEF ToSet
  <2> HIDE DEF f
  <2> QED
    BY <2>1, <2>2 DEF Surjection
<1>3. IsFiniteSet(1..n) /\ Cardinality(1..n) = n
  BY <1>1, FS_Interval
<1>4. IsFiniteSet(ToSet(Pool)) /\ Cardinality(ToSet(Pool)) <= n
  BY <1>2, <1>3, FS_Surjection
<1>5. Cardinality(ToSet(Pool)) \in Nat
  BY <1>4, FS_CardinalityType
<1> QED
  BY <1>1, <1>4, <1>5 DEF n

LEMMA ListingIs ==
  ASSUME NEW list, Listing(list)
  PROVE  /\ list \in Lists /\ Len(list) \in Nat /\ Len(list) <= Len(Pool)
         /\ DOMAIN list = 1..Len(list)
<1>1. list \in Seq(ToSet(Pool)) /\ IsInjective(list) /\ Len(list) \in Nat
  BY DEF Listing
<1>2. ToSet(list) \in SUBSET ToSet(Pool)
  BY <1>1 DEF ToSet
<1>3. Cardinality(ToSet(list)) <= Cardinality(ToSet(Pool))
  BY <1>2, PoolCard, FS_Subset
<1>4. Len(list) <= Cardinality(ToSet(Pool))
  BY <1>1, <1>3, LenIsCard
<1>5. Len(list) \in 0..(Len(Pool) + 1) /\ Len(list) <= Len(Pool)
  BY <1>1, <1>4, PoolCard
<1>6. list \in [1..Len(list) -> ToSet(Pool)] /\ DOMAIN list = 1..Len(list)
  BY <1>1
<1> QED
  BY <1>1, <1>5, <1>6 DEF Lists

LEMMA AppendListing ==
  ASSUME NEW list, Listing(list), NEW ch \in ToSet(Pool), ch \notin ToSet(list)
  PROVE  Listing(Append(list, ch))
<1> DEFINE r == Append(list, ch)
           n == Len(list)
           V == ToSet(Pool)
<1>1. list \in Seq(V) /\ IsInjective(list) /\ n \in Nat /\ DOMAIN list = 1..n
  BY DEF Listing
<1>2. /\ r \in Seq(V) /\ DOMAIN r = 1..(n + 1)
      /\ r[n + 1] = ch /\ \A k \in 1..n : r[k] = list[k]
  BY <1>1
<1> HIDE DEF r, n
<1>3. \A k \in 1..(n + 1) : k \in 1..n \/ k = n + 1
  BY <1>1
<1>4. \A k \in 1..n : list[k] # ch
  BY <1>1 DEF ToSet
<1>5. IsInjective(r)
  BY <1>1, <1>2, <1>3, <1>4 DEF IsInjective
<1> QED
  BY <1>2, <1>5 DEF Listing, r

LEMMA ChangedListing ==
  ASSUME NEW list, Listing(list), NEW i \in DOMAIN list, NEW ch \in ToSet(Pool)
  PROVE  Listing(Changed(list, i, ch))
<1> DEFINE r == Changed(list, i, ch)
           V == ToSet(Pool)
<1>1. list \in Seq(V) /\ IsInjective(list) /\ DOMAIN list = 1..Len(list) /\ Len(list) \in Nat
  BY DEF Listing
<1>2. /\ DOMAIN r = DOMAIN list
      /\ \A k \in DOMAIN list : /\ k = i => r[k] = ch
                                /\ k # i /\ list[k] = ch => r[k] = list[i]
                                /\ k # i /\ list[k] # ch => r[k] = list[k]
  BY DEF Changed
<1>3. r = [k \in 1..Len(list) |-> r[k]]
  BY <1>1 DEF Changed
<1> HIDE DEF r
<1>4. \A k \in DOMAIN list : r[k] \in V
  BY <1>1, <1>2
<1>5. r \in Seq(V)
  BY <1>1, <1>3, <1>4
<1>6. IsInjective(r)
  BY <1>1, <1>2 DEF IsInjective
<1> QED
  BY <1>5, <1>6 DEF Listing, r

LEMMA ShorterListing ==
  ASSUME NEW list, Listing(list), NEW i \in DOMAIN list
  PROVE  Listing(RemoveAt(list, i))
<1> DEFINE V == ToSet(Pool)
           r == RemoveAt(list, i)
<1>1. list \in Seq(V) /\ IsInjective(list)
  BY DEF Listing
<1> HIDE DEF V
<1>2. r \in Seq(V) /\ DrawnFrom(r, list)
  BY <1>1, RemoveAtIs, RemoveAtDrawn
<1> QED
  BY <1>1, <1>2, DrawnKeeps DEF Listing, V

LEMMA MovedListing ==
  ASSUME NEW list, Listing(list), NEW i \in DOMAIN list, NEW j \in DOMAIN list
  PROVE  Listing(Moved(list, i, j))
<1> DEFINE V == ToSet(Pool)
           r == Moved(list, i, j)
<1>1. list \in Seq(V) /\ IsInjective(list)
  BY DEF Listing
<1> HIDE DEF V
<1>2. r \in Seq(V) /\ DrawnFrom(r, list)
  BY <1>1, MovedIs
<1> QED
  BY <1>1, <1>2, DrawnKeeps DEF Listing, V

-----------------------------------------------------------------------------
(* What holds between two handlers.                                        *)
Prios == Priorities \cup {4}
Record(mu) == mu = [id |-> mu.id, svId |-> mu.svId, list |-> mu.list]

\* The streams, the copy of one of them that is inspected, what is entered.
StreamsAre(ps) ==
  /\ DOMAIN ps \subseteq Mus /\ ps = [m \in DOMAIN ps |-> ps[m]]
  /\ \A m \in DOMAIN ps : /\ ps[m] = [svId |-> ps[m].svId, list |-> ps[m].list]
                          /\ ps[m].svId \in Seq(Nat) /\ Listing(ps[m].list)
Shows(mu, ps) ==
  \/ mu = NoMu
  \/ Record(mu) /\ mu.id \in DOMAIN ps /\ mu.list = ps[mu.id].list /\ mu.svId \in Seq(Nat)
ConfigIs(cfg) ==
  /\ cfg = [vlan |-> cfg.vlan, prio |-> cfg.prio, svId |-> cfg.svId, asdu |-> cfg.asdu,
            list |-> cfg.list]
  /\ cfg.vlan \in Vlans /\ cfg.prio \in Prios /\ cfg.asdu \in AsduCounts /\ Listing(cfg.list)

\* The line over the tree tells of the frame kept.
ViewIs(v) ==
  /\ v = [expanded |-> v.expanded, real |-> v.real, editing |-> v.editing,
          source |-> v.source, buttons |-> v.buttons]
  /\ v.editing \in BOOLEAN /\ v.buttons \in BOOLEAN
  /\ v.source \in {"calculated", "fetching", "real", "unavailable"}
  /\ v.source = "real" => v.real # NoFrame
  /\ v.source \in {"calculated", "unavailable"} => v.real = NoFrame

\* The tree is the one that would be drawn, apart from what is patched in it.
InputsAre(inputs, editing) ==
  /\ DOMAIN inputs \subseteq Fields
  /\ "vlanPriority" \in DOMAIN inputs => inputs.vlanPriority \in Prios
  /\ DOMAIN inputs # {} => editing
Parts(t) == t = [svId |-> t.svId, list |-> t.list, prio |-> t.prio, asdu |-> t.asdu,
                 open |-> t.open, inputs |-> t.inputs, cells |-> t.cells]
Drew(t, mu, cfg) ==
  /\ t.list = mu.list
  /\ t.asdu = IF mu = NoMu THEN 0 ELSE cfg.asdu
  /\ t.prio = IF mu = NoMu THEN 0 ELSE Effective(cfg.prio)
TreeIs(t, mu, cfg, expanded, editing) ==
  /\ Parts(t) /\ Drew(t, mu, cfg)
  /\ t.open = expanded \cap Expandable(t)
  /\ DOMAIN t.cells = DOMAIN t.list
  /\ InputsAre(t.inputs, editing)

PanelIs == StreamsAre(pubs) /\ Shows(active, pubs) /\ ConfigIs(config)
DrawnIs ==
  /\ TreeIs(tree, active, config, view.expanded, view.editing)
  /\ hex.kind \in {"none", "calc", "real"}
  /\ active # NoMu => hex = HexOf(active, config, view.real)
DragIs(d) ==
  /\ d = [data |-> d.data, over |-> d.over, ghosts |-> d.ghosts, zone |-> d.zone]
  /\ d.data \in ToSet(Pool) \cup {"none"}
  /\ d.data = "none" => d = NoDrag
  /\ d.data # "none" => d.ghosts = 1
  /\ d.over \in BOOLEAN /\ d.zone \in BOOLEAN /\ (d.zone => d.over)
PointerIs ==
  /\ own = [row |-> own.row, stale |-> own.stale] /\ own.row \in 0..Len(Pool)
  /\ DragIs(drag)
CountsAre == fetches \in 0..MaxFetches /\ acts \in 0..MaxActs
Viewing == PanelIs /\ ViewIs(view) /\ DrawnIs /\ PointerIs /\ CountsAre

-----------------------------------------------------------------------------
(* Drawing.                                                                *)
LEMMA ExpandableIs ==
  ASSUME NEW t, NEW u, t.list = u.list, t.asdu = u.asdu
  PROVE  Expandable(t) = Expandable(u) /\ Drawable(t) = Drawable(u)
BY DEF Expandable, Drawable, Rows

\* The tree of a stream, nothing open.
Filled(svId, list, prio, asdu, cells) ==
  [NoTree EXCEPT !.svId = svId, !.list = list, !.prio = prio, !.asdu = asdu, !.cells = cells]

LEMMA FilledIs ==
  ASSUME NEW svId, NEW list, NEW prio, NEW asdu, NEW cells, NEW w,
         w = Filled(svId, list, prio, asdu, cells)
  PROVE  /\ Parts(w) /\ w.list = list /\ w.prio = prio /\ w.asdu = asdu
         /\ w.inputs = <<>> /\ w.cells = cells
<1>1. PICK t : t = NoTree
  OBVIOUS
<1>2. t = [svId |-> <<>>, list |-> <<>>, prio |-> 0, asdu |-> 0, open |-> {},
           inputs |-> <<>>, cells |-> <<>>]
  BY <1>1 DEF NoTree
<1>3. w = [t EXCEPT !.svId = svId, !.list = list, !.prio = prio, !.asdu = asdu, !.cells = cells]
  BY <1>1 DEF Filled
<1>4. w = [svId |-> svId, list |-> list, prio |-> prio, asdu |-> asdu, open |-> {},
           inputs |-> <<>>, cells |-> cells]
  BY <1>2, <1>3
<1> QED
  BY <1>4 DEF Parts

LEMMA OpenedIs ==
  ASSUME NEW t, Parts(t), NEW open, NEW r, r = [t EXCEPT !.open = open]
  PROVE  /\ Parts(r) /\ r.list = t.list /\ r.prio = t.prio /\ r.asdu = t.asdu
         /\ r.inputs = t.inputs /\ r.cells = t.cells /\ r.open = open
BY DEF Parts

LEMMA TreeOfIs ==
  ASSUME NEW mu, NEW cfg, NEW expanded, NEW editing, NEW t, t = TreeOf(mu, cfg, expanded)
  PROVE  TreeIs(t, mu, cfg, expanded, editing)
<1>1. CASE mu = NoMu
  <2>1. t = NoTree /\ Expandable(t) = {}
    BY <1>1 DEF TreeOf, Expandable, Drawable, NoTree
  <2> QED
    BY <1>1, <2>1 DEF TreeIs, Parts, Drew, NoTree, NoMu, InputsAre
<1>2. CASE mu # NoMu
  <2> DEFINE cells == [i \in DOMAIN mu.list |-> Computed]
             w == Filled(mu.svId, mu.list, Effective(cfg.prio), cfg.asdu, cells)
             open == expanded \cap Expandable(w)
  <2>1. t = [w EXCEPT !.open = open]
    BY <1>2 DEF TreeOf, Filled
  <2>2. DOMAIN cells = DOMAIN mu.list
    OBVIOUS
  <2> HIDE DEF cells
  <2>3. /\ Parts(w) /\ w.list = mu.list /\ w.prio = Effective(cfg.prio) /\ w.asdu = cfg.asdu
        /\ w.inputs = <<>> /\ w.cells = cells
    BY FilledIs
  <2> HIDE DEF w, open
  <2>4. /\ Parts(t) /\ t.list = mu.list /\ t.prio = Effective(cfg.prio) /\ t.asdu = cfg.asdu
        /\ t.inputs = <<>> /\ t.cells = cells /\ t.open = open
    BY <2>1, <2>3, OpenedIs
  <2>5. Expandable(t) = Expandable(w)
    BY <2>3, <2>4, ExpandableIs
  <2>6. Parts(t) /\ Drew(t, mu, cfg) /\ DOMAIN t.cells = DOMAIN t.list
    BY <1>2, <2>2, <2>4 DEF Drew
  <2>7. InputsAre(t.inputs, editing)
    BY <2>4 DEF InputsAre
  <2>8. t.open = expanded \cap Expandable(t)
    BY <2>4, <2>5 DEF open
  <2> QED
    BY <2>6, <2>7, <2>8 DEF TreeIs
<1> QED
  BY <1>1, <1>2

LEMMA DrawDraws ==
  ASSUME NEW mu, NEW cfg, NEW v, Draw(mu, cfg, v), active' = mu, config' = cfg,
         view'.expanded = v.expanded, view'.real = v.real, PointerIs, DragIs(drag')
  PROVE  DrawnIs' /\ PointerIs'
<1>1. /\ tree' = TreeOf(mu, cfg, v.expanded) /\ hex' = HexOf(mu, cfg, v.real)
      /\ own' = [own EXCEPT !.stale = own.row # 0]
  BY DEF Draw
<1>2. TreeIs(tree', mu, cfg, v.expanded, view'.editing)
  BY <1>1, TreeOfIs
<1>3. hex'.kind \in {"none", "calc", "real"}
  BY <1>1 DEF HexOf, NoHex
<1>4. DrawnIs'
  BY <1>1, <1>2, <1>3 DEF DrawnIs
<1>5. own' = [row |-> own'.row, stale |-> own'.stale] /\ own'.row \in 0..Len(Pool)
  BY <1>1 DEF PointerIs
<1>6. PointerIs'
  BY <1>5 DEF PointerIs
<1> QED
  BY <1>4, <1>6


-----------------------------------------------------------------------------
(* What handlers have in common.                                           *)
LEMMA PanelKept ==
  ASSUME PanelIs, PanelStays
  PROVE  PanelIs' /\ pubs' = pubs /\ active' = active /\ config' = config
<1>1. pubs' = pubs /\ active' = active /\ config' = config
  BY DEF PanelStays
<1> QED
  BY <1>1 DEF PanelIs, Shows, Record, ConfigIs

LEMMA CountsKept ==
  ASSUME CountsAre, Acts \/ acts' = acts, fetches' = fetches
  PROVE  CountsAre'
<1>1. acts \in 0..MaxActs /\ fetches \in 0..MaxFetches /\ MaxActs \in Nat
  BY ChoicesAssumption DEF CountsAre
<1>2. acts' \in 0..MaxActs
  BY <1>1 DEF Acts
<1> QED
  BY <1>1, <1>2 DEF CountsAre

LEMMA PointerKept ==
  ASSUME PointerIs, own' = own, drag' = drag
  PROVE  PointerIs'
BY DEF PointerIs

LEMMA SameDrag ==
  ASSUME Viewing, drag' = drag
  PROVE  DragIs(drag')
BY DEF Viewing, PointerIs

LEMMA DrawingKept ==
  ASSUME DrawnIs, tree' = tree, hex' = hex, active' = active, config' = config,
         view'.expanded = view.expanded, view'.editing = view.editing, view'.real = view.real
  PROVE  DrawnIs'
BY DEF DrawnIs

\* The whole is drawn anew for what the viewer remembers.
LEMMA RedrawnIs ==
  ASSUME Viewing, NEW v, Redraw(v), ViewIs(v), PanelStays, DragIs(drag'),
         CountsAre'
  PROVE  Viewing'
<1>1. view' = v /\ Draw(active, config, v)
  BY DEF Redraw
<1>2. PanelIs' /\ active' = active /\ config' = config
  BY PanelKept DEF Viewing
<1>3. DrawnIs' /\ PointerIs'
  BY <1>1, <1>2, DrawDraws DEF Viewing
<1> QED
  BY <1>1, <1>2, <1>3 DEF Viewing

LEMMA InspectIs ==
  ASSUME Viewing, NEW mu, Inspect(mu), StreamsAre(pubs'), Shows(mu, pubs'), DragIs(drag'),
         CountsAre'
  PROVE  Viewing'
<1>1. active' = mu /\ Draw(mu, config, view) /\ config' = config /\ view' = view
  BY DEF Inspect
<1>2. DrawnIs' /\ PointerIs'
  BY <1>1, DrawDraws DEF Viewing
<1>3. PanelIs'
  BY <1>1 DEF Viewing, PanelIs
<1> QED
  BY <1>1, <1>2, <1>3 DEF Viewing

LEMMA ConfigureIs ==
  ASSUME Viewing, NEW cfg, Configure(cfg), ConfigIs(cfg), pubs' = pubs, DragIs(drag'),
         CountsAre'
  PROVE  Viewing'
<1>1. /\ active' = active /\ config' = cfg /\ view' = view
      /\ (tree' = tree /\ hex' = hex /\ own' = own /\ config' = config) \/ Draw(active, cfg, view)
  BY DEF Configure
<1>2. PanelIs'
  BY <1>1 DEF Viewing, PanelIs
<1>3. DrawnIs' /\ PointerIs'
  <2>1. CASE Draw(active, cfg, view)
    BY <1>1, <2>1, DrawDraws DEF Viewing
  <2>2. CASE tree' = tree /\ hex' = hex /\ own' = own /\ config' = config
    BY <1>1, <2>2, DrawingKept DEF Viewing, PointerIs
  <2> QED
    BY <1>1, <2>1, <2>2
<1> QED
  BY <1>1, <1>2, <1>3 DEF Viewing

\* One stream with another list, or another name.
LEMMA StreamWith ==
  ASSUME StreamsAre(pubs), NEW m \in DOMAIN pubs, NEW list, Listing(list), NEW ps,
         ps = [pubs EXCEPT ![m].list = list]
  PROVE  StreamsAre(ps) /\ ps[m].list = list /\ m \in DOMAIN ps
<1>1. /\ DOMAIN ps = DOMAIN pubs /\ ps = [k \in DOMAIN ps |-> ps[k]]
      /\ \A k \in DOMAIN pubs : k # m => ps[k] = pubs[k]
      /\ ps[m] = [pubs[m] EXCEPT !.list = list]
  BY DEF StreamsAre
<1>2. pubs[m] = [svId |-> pubs[m].svId, list |-> pubs[m].list]
  BY DEF StreamsAre
<1>3. ps[m] = [svId |-> ps[m].svId, list |-> ps[m].list] /\ ps[m].list = list
      /\ ps[m].svId = pubs[m].svId
  BY <1>1, <1>2
<1> QED
  BY <1>1, <1>3 DEF StreamsAre

LEMMA EffectiveIs ==
  ASSUME Viewing
  PROVE  /\ Listing(EffectiveList)
         /\ Drawable(tree) <=> active # NoMu
         /\ DOMAIN tree.list # {} => active # NoMu /\ tree.list = EffectiveList
<1>1. Drew(tree, active, config) /\ Shows(active, pubs) /\ ConfigIs(config) /\ StreamsAre(pubs)
  BY DEF Viewing, PanelIs, DrawnIs, TreeIs
<1>2. config.asdu \in Nat /\ config.asdu > 0
  BY <1>1, ChoicesAssumption DEF ConfigIs
<1>3. Drawable(tree) <=> active # NoMu
  BY <1>1, <1>2 DEF Drew, Drawable
<1>4. Listing(EffectiveList)
  BY <1>1 DEF EffectiveList, Shows, StreamsAre, ConfigIs
<1>5. DOMAIN tree.list # {} => active # NoMu /\ tree.list = EffectiveList
  BY <1>1 DEF Drew, EffectiveList, NoMu
<1> QED
  BY <1>3, <1>4, <1>5

LEMMA ListBecomesIs ==
  ASSUME Viewing, NEW list, Listing(list), ListBecomes(list), DragIs(drag'), CountsAre'
  PROVE  Viewing'
<1>0. Shows(active, pubs) /\ ConfigIs(config) /\ StreamsAre(pubs)
  BY DEF Viewing, PanelIs
<1>1. CASE active = NoMu
  <2> DEFINE cfg == [config EXCEPT !.list = list]
  <2>1. Configure(cfg) /\ pubs' = pubs
    BY <1>1 DEF ListBecomes
  <2>2. ConfigIs(cfg)
    BY <1>0 DEF ConfigIs
  <2> HIDE DEF cfg
  <2> QED
    BY <2>1, <2>2, ConfigureIs
<1>2. CASE active # NoMu
  <2> DEFINE m == active.id
             mu == Copy(m, pubs'[m])
  <2>1. pubs' = [pubs EXCEPT ![m].list = list] /\ Inspect(mu)
    BY <1>2 DEF ListBecomes
  <2>2. m \in DOMAIN pubs
    BY <1>0, <1>2 DEF Shows
  <2>3. StreamsAre(pubs') /\ m \in DOMAIN pubs'
    BY <1>0, <2>1, <2>2, StreamWith, ZenonT(60)
  <2>4. Shows(mu, pubs')
    BY <2>3 DEF Copy, Shows, Record, StreamsAre
  <2> HIDE DEF mu
  <2> QED
    BY <2>1, <2>3, <2>4, InspectIs
<1> QED
  BY <1>1, <1>2


-----------------------------------------------------------------------------
(* The nodes of the tree and the edit mode.                                *)
LEMMA NoDragIs == ASSUME NEW d, d = NoDrag PROVE DragIs(d)
<1>1. d = [data |-> "none", over |-> FALSE, ghosts |-> 0, zone |-> FALSE]
  BY DEF NoDrag
<1>2. d.data = "none" /\ d.over = FALSE /\ d.zone = FALSE
  BY <1>1
<1>3. d = [data |-> d.data, over |-> d.over, ghosts |-> d.ghosts, zone |-> d.zone]
  BY <1>1
<1> QED
  BY <1>2, <1>3 DEF DragIs

LEMMA InitViewing == ViewInit => Viewing
<1> SUFFICES ASSUME ViewInit PROVE Viewing
  OBVIOUS
<1>1. Listing(InitialList)
  BY PoolAssumption DEF Listing
<1>2. PanelIs
  <2>1. pubs = [m \in Mus |-> [svId |-> Name[m], list |-> InitialList]] /\ active = NoMu
    BY DEF ViewInit
  <2>2. StreamsAre(pubs)
    BY <1>1, <2>1, SvIdsAssumption DEF StreamsAre
  <2>3. config \in [vlan : Vlans, prio : {4}, svId : {Name[1]}, asdu : {1}, list : {InitialList}]
    BY DEF ViewInit
  <2>4. ConfigIs(config)
    BY <1>1, <2>3, ChoicesAssumption DEF ConfigIs, Prios
  <2> QED
    BY <2>1, <2>2, <2>4 DEF PanelIs, Shows
<1>3. ViewIs(view)
  <2> DEFINE e == view.expanded
             f == NoFrame
  <2>1. view = [expanded |-> e, real |-> f, editing |-> FALSE, source |-> "calculated",
                buttons |-> TRUE]
    BY DEF ViewInit
  <2> HIDE DEF e, f
  <2>2. /\ view.editing = FALSE /\ view.buttons = TRUE /\ view.source = "calculated"
        /\ view.real = f
        /\ view = [expanded |-> view.expanded, real |-> view.real, editing |-> view.editing,
                   source |-> view.source, buttons |-> view.buttons]
    BY <2>1
  <2> QED
    BY <2>2 DEF ViewIs, f
<1>4. DrawnIs
  <2>1. tree = NoTree /\ active = NoMu /\ hex = NoHex
    BY DEF ViewInit
  <2>2. tree = TreeOf(active, config, view.expanded)
    BY <2>1 DEF TreeOf
  <2>3. TreeIs(tree, active, config, view.expanded, view.editing)
    BY <2>2, TreeOfIs
  <2>4. hex.kind = "none"
    <3> DEFINE f == NoFrame
    <3>1. hex = [kind |-> "none", frame |-> f]
      BY <2>1 DEF NoHex
    <3> HIDE DEF f
    <3> QED
      BY <3>1
  <2> QED
    BY <2>1, <2>3, <2>4 DEF DrawnIs
<1>5. PointerIs
  <2>1. own = [row |-> 0, stale |-> FALSE] /\ drag = NoDrag
    BY DEF ViewInit, Free
  <2>2. own = [row |-> own.row, stale |-> own.stale] /\ own.row = 0
    BY <2>1
  <2>3. 0 \in 0..Len(Pool)
    BY PoolCard
  <2>4. DragIs(drag)
    BY <2>1, NoDragIs
  <2> QED
    BY <2>2, <2>3, <2>4 DEF PointerIs
<1>6. CountsAre
  <2>1. fetches = 0 /\ acts = 0
    BY DEF ViewInit
  <2> QED
    BY <2>1, ChoicesAssumption DEF CountsAre
<1> QED
  BY <1>2, <1>3, <1>4, <1>5, <1>6 DEF Viewing

\* The tree with another set of open nodes, other inputs, other values.
LEMMA TreeReopened ==
  ASSUME NEW t, NEW mu, NEW cfg, NEW e, NEW editing, TreeIs(t, mu, cfg, e, editing),
         NEW f, NEW open, open = f \cap Expandable(t), NEW r, r = [t EXCEPT !.open = open]
  PROVE  TreeIs(r, mu, cfg, f, editing)
<1>1. /\ Parts(r) /\ r.list = t.list /\ r.prio = t.prio /\ r.asdu = t.asdu
      /\ r.inputs = t.inputs /\ r.cells = t.cells /\ r.open = open
  BY OpenedIs DEF TreeIs
<1>2. Expandable(r) = Expandable(t)
  BY <1>1, ExpandableIs
<1> QED
  BY <1>1, <1>2 DEF TreeIs, Drew

LEMMA TreeEntered ==
  ASSUME NEW t, NEW mu, NEW cfg, NEW e, NEW b, NEW editing, TreeIs(t, mu, cfg, e, b),
         NEW inputs, InputsAre(inputs, editing), NEW r, r = [t EXCEPT !.inputs = inputs]
  PROVE  TreeIs(r, mu, cfg, e, editing)
<1>1. /\ Parts(r) /\ r.list = t.list /\ r.prio = t.prio /\ r.asdu = t.asdu
      /\ r.inputs = inputs /\ r.cells = t.cells /\ r.open = t.open
  BY DEF TreeIs, Parts
<1>2. Expandable(r) = Expandable(t)
  BY <1>1, ExpandableIs
<1> QED
  BY <1>1, <1>2 DEF TreeIs, Drew

LEMMA TreeValued ==
  ASSUME NEW t, NEW mu, NEW cfg, NEW e, NEW editing, TreeIs(t, mu, cfg, e, editing),
         NEW cells, DOMAIN cells = DOMAIN t.cells, NEW r, r = [t EXCEPT !.cells = cells]
  PROVE  TreeIs(r, mu, cfg, e, editing)
<1>1. /\ Parts(r) /\ r.list = t.list /\ r.prio = t.prio /\ r.asdu = t.asdu
      /\ r.inputs = t.inputs /\ r.cells = cells /\ r.open = t.open
  BY DEF TreeIs, Parts
<1>2. Expandable(r) = Expandable(t)
  BY <1>1, ExpandableIs
<1> QED
  BY <1>1, <1>2 DEF TreeIs, Drew

\* What the viewer remembers, with one part of it changed.
LEMMA ViewOpened ==
  ASSUME NEW v, ViewIs(v), NEW e, NEW r, r = [v EXCEPT !.expanded = e]
  PROVE  ViewIs(r) /\ r.expanded = e /\ r.real = v.real /\ r.editing = v.editing
BY DEF ViewIs

LEMMA ViewEdited ==
  ASSUME NEW v, ViewIs(v), NEW b \in BOOLEAN, NEW r, r = [v EXCEPT !.editing = b]
  PROVE  ViewIs(r) /\ r.expanded = v.expanded /\ r.real = v.real /\ r.editing = b
BY DEF ViewIs

LEMMA ViewFetching ==
  ASSUME NEW v, ViewIs(v), NEW r, r = [v EXCEPT !.source = "fetching", !.buttons = FALSE]
  PROVE  ViewIs(r) /\ r.expanded = v.expanded /\ r.real = v.real /\ r.editing = v.editing
BY DEF ViewIs

With(v, f) == [v EXCEPT !.real = f, !.source = "real"]
LEMMA ViewAnswered ==
  ASSUME NEW v, ViewIs(v), NEW f, f # NoFrame, NEW r, r = With(v, f)
  PROVE  ViewIs(r) /\ r.expanded = v.expanded /\ r.real = f /\ r.editing = v.editing
BY DEF ViewIs, With

LEMMA ViewRefused ==
  ASSUME NEW v, ViewIs(v), NEW r, r = [v EXCEPT !.real = NoFrame, !.source = "unavailable"]
  PROVE  ViewIs(r)
<1>1. PICK f : f = NoFrame
  OBVIOUS
<1> QED
  BY <1>1 DEF ViewIs

-----------------------------------------------------------------------------
(* Every handler keeps what holds between two of them.                     *)
LEMMA ClickNodeKeeps ==
  ASSUME Viewing, NEW n, ClickNode(n)
  PROVE  Viewing'
<1> DEFINE e == IF n \in view.expanded THEN view.expanded \ {n} ELSE view.expanded \cup {n}
           open == IF n \in e THEN tree.open \cup {n} ELSE tree.open \ {n}
<1>1. /\ view' = [view EXCEPT !.expanded = e] /\ tree' = [tree EXCEPT !.open = open]
      /\ n \in Expandable(tree) /\ PanelStays /\ Acts
      /\ hex' = hex /\ fetches' = fetches /\ own' = own /\ drag' = drag
  BY DEF ClickNode, Toggle
<1>2. tree.open = view.expanded \cap Expandable(tree)
  BY DEF Viewing, DrawnIs, TreeIs
<1>3. open = e \cap Expandable(tree)
  BY <1>1, <1>2
<1> HIDE DEF e, open
<1>4. PanelIs' /\ active' = active /\ config' = config /\ CountsAre' /\ PointerIs'
  BY <1>1, PanelKept, CountsKept, PointerKept DEF Viewing
<1>5. ViewIs(view') /\ view'.expanded = e /\ view'.real = view.real
      /\ view'.editing = view.editing
  <2>1. ViewIs(view) /\ view' = [view EXCEPT !.expanded = e]
    BY <1>1 DEF Viewing
  <2> QED
    BY <2>1, ViewOpened
<1>6. TreeIs(tree', active, config, e, view.editing)
  BY <1>1, <1>3, TreeReopened DEF Viewing, DrawnIs
<1>7. DrawnIs'
  BY <1>1, <1>4, <1>5, <1>6 DEF Viewing, DrawnIs
<1> QED
  BY <1>4, <1>5, <1>7 DEF Viewing

LEMMA ExpandAllKeeps == Viewing /\ ExpandAll => Viewing'
<1> SUFFICES ASSUME Viewing, ExpandAll PROVE Viewing'
  OBVIOUS
<1> DEFINE v == [view EXCEPT !.expanded = @ \cup Expandable(tree)]
<1>1. Redraw(v) /\ PanelStays /\ Acts /\ fetches' = fetches /\ drag' = drag
  BY DEF ExpandAll
<1>2. ViewIs(v)
  BY ViewOpened DEF Viewing
<1> HIDE DEF v
<1>3. CountsAre'
  BY <1>1, CountsKept DEF Viewing
<1> QED
  BY <1>1, <1>2, <1>3, RedrawnIs, SameDrag

LEMMA CollapseAllKeeps == Viewing /\ CollapseAll => Viewing'
<1> SUFFICES ASSUME Viewing, CollapseAll PROVE Viewing'
  OBVIOUS
<1> DEFINE v == [view EXCEPT !.expanded = {}]
<1>1. Redraw(v) /\ PanelStays /\ Acts /\ fetches' = fetches /\ drag' = drag
  BY DEF CollapseAll
<1>2. ViewIs(v)
  BY ViewOpened DEF Viewing
<1> HIDE DEF v
<1>3. CountsAre'
  BY <1>1, CountsKept DEF Viewing
<1> QED
  BY <1>1, <1>2, <1>3, RedrawnIs, SameDrag

LEMMA ChooseAsduKeeps ==
  ASSUME Viewing, NEW n \in AsduCounts, ChooseAsdu(n)
  PROVE  Viewing'
<1>1. /\ config' = [config EXCEPT !.asdu = n] /\ Draw(active, config', view) /\ Acts
      /\ pubs' = pubs /\ active' = active /\ view' = view /\ fetches' = fetches /\ drag' = drag
  BY DEF ChooseAsdu
<1>2. ConfigIs(config')
  BY <1>1 DEF Viewing, PanelIs, ConfigIs
<1>3. DrawnIs' /\ PointerIs'
  BY <1>1, DrawDraws, SameDrag DEF Viewing
<1>4. PanelIs' /\ CountsAre'
  BY <1>1, <1>2, CountsKept DEF Viewing, PanelIs
<1> QED
  BY <1>1, <1>3, <1>4 DEF Viewing

LEMMA EnterEditKeeps == Viewing /\ EnterEdit => Viewing'
<1> SUFFICES ASSUME Viewing, EnterEdit PROVE Viewing'
  OBVIOUS
<1> DEFINE inputs == [vlanPriority |-> config.prio, svID |-> config.svId]
<1>1. /\ view' = [view EXCEPT !.editing = TRUE] /\ PanelStays /\ Acts
      /\ tree' = IF Drawable(tree) THEN [tree EXCEPT !.inputs = inputs] ELSE tree
      /\ hex' = hex /\ fetches' = fetches /\ own' = own /\ drag' = drag
  BY DEF EnterEdit
<1>2. PanelIs' /\ active' = active /\ config' = config /\ CountsAre' /\ PointerIs'
  BY <1>1, PanelKept, CountsKept, PointerKept DEF Viewing
<1>3. ViewIs(view') /\ view'.expanded = view.expanded /\ view'.real = view.real /\ view'.editing
  BY <1>1, ViewEdited DEF Viewing
<1>4. TreeIs(tree, active, config, view.expanded, view.editing)
  BY DEF Viewing, DrawnIs
<1>5. InputsAre(inputs, view'.editing) /\ InputsAre(tree.inputs, view'.editing)
  BY <1>3, <1>4 DEF InputsAre, Fields, Viewing, PanelIs, ConfigIs, TreeIs
<1> HIDE DEF inputs
<1>6. TreeIs(tree', active, config, view.expanded, view'.editing)
  <2>1. CASE Drawable(tree)
    BY <1>1, <1>4, <1>5, <2>1, TreeEntered
  <2>2. CASE ~Drawable(tree)
    BY <1>1, <1>4, <1>5, <2>2 DEF TreeIs
  <2> QED
    BY <2>1, <2>2
<1>7. DrawnIs'
  BY <1>1, <1>2, <1>3, <1>6 DEF Viewing, DrawnIs
<1> QED
  BY <1>2, <1>3, <1>7 DEF Viewing

\* A value is typed into an input that is there.
LEMMA TypingKeeps ==
  ASSUME Viewing, NEW inputs, tree' = [tree EXCEPT !.inputs = inputs],
         InputsAre(inputs, view.editing), Acts, PanelStays, view' = view, hex' = hex,
         fetches' = fetches, own' = own, drag' = drag
  PROVE  Viewing'
<1>1. PanelIs' /\ active' = active /\ config' = config /\ CountsAre' /\ PointerIs'
  BY PanelKept, CountsKept, PointerKept DEF Viewing
<1>2. TreeIs(tree', active, config, view.expanded, view.editing)
  BY TreeEntered DEF Viewing, DrawnIs
<1>3. DrawnIs'
  BY <1>1, <1>2 DEF Viewing, DrawnIs
<1> QED
  BY <1>1, <1>3 DEF Viewing

LEMMA TypePriorityKeeps ==
  ASSUME Viewing, NEW p \in Priorities, TypePriority(p)
  PROVE  Viewing'
<1> DEFINE inputs == [tree.inputs EXCEPT !.vlanPriority = p]
<1>1. /\ "vlanPriority" \in DOMAIN tree.inputs /\ Acts /\ PanelStays /\ view' = view
      /\ hex' = hex /\ fetches' = fetches /\ own' = own /\ drag' = drag
      /\ tree' = [tree EXCEPT !.inputs = inputs]
  BY DEF TypePriority
<1>2. InputsAre(tree.inputs, view.editing)
  BY DEF Viewing, DrawnIs, TreeIs
<1>3. DOMAIN inputs = DOMAIN tree.inputs /\ inputs.vlanPriority = p
  BY <1>1
<1> HIDE DEF inputs
<1>4. InputsAre(inputs, view.editing)
  BY <1>1, <1>2, <1>3 DEF InputsAre, Prios
<1> QED
  BY <1>1, <1>4, TypingKeeps

LEMMA TypeNameKeeps ==
  ASSUME Viewing, NEW svId, TypeName(svId)
  PROVE  Viewing'
<1> DEFINE inputs == [tree.inputs EXCEPT !.svID = svId]
<1>1. /\ Acts /\ PanelStays /\ view' = view
      /\ hex' = hex /\ fetches' = fetches /\ own' = own /\ drag' = drag
      /\ tree' = [tree EXCEPT !.inputs = inputs]
  BY DEF TypeName
<1>2. InputsAre(tree.inputs, view.editing)
  BY DEF Viewing, DrawnIs, TreeIs
<1>3. /\ DOMAIN inputs = DOMAIN tree.inputs
      /\ "vlanPriority" \in DOMAIN tree.inputs => inputs.vlanPriority = tree.inputs.vlanPriority
  OBVIOUS
<1> HIDE DEF inputs
<1>4. InputsAre(inputs, view.editing)
  BY <1>2, <1>3 DEF InputsAre
<1> QED
  BY <1>1, <1>4, TypingKeeps

LEMMA SaveEditsKeeps == Viewing /\ SaveEdits => Viewing'
<1> SUFFICES ASSUME Viewing, SaveEdits PROVE Viewing'
  OBVIOUS
<1>1. /\ config' = Entered /\ view' = [view EXCEPT !.editing = FALSE]
      /\ Draw(active, Entered, view) /\ Acts
      /\ pubs' = pubs /\ active' = active /\ fetches' = fetches /\ drag' = drag
  BY DEF SaveEdits
<1>2. ConfigIs(Entered)
  <2> DEFINE prio == IF "vlanPriority" \in DOMAIN tree.inputs THEN tree.inputs.vlanPriority
                                                            ELSE config.prio
             svId == IF "svID" \in DOMAIN tree.inputs THEN tree.inputs.svID ELSE config.svId
  <2>1. ConfigIs(config) /\ InputsAre(tree.inputs, view.editing)
    BY DEF Viewing, PanelIs, DrawnIs, TreeIs
  <2>2. Entered = [config EXCEPT !.prio = prio, !.svId = svId]
    BY DEF Entered
  <2>3. prio \in Prios
    BY <2>1 DEF ConfigIs, InputsAre
  <2> HIDE DEF prio, svId
  <2> QED
    BY <2>1, <2>2, <2>3 DEF ConfigIs
<1>3. ViewIs(view') /\ view'.expanded = view.expanded /\ view'.real = view.real
  <2>1. ViewIs(view)
    BY DEF Viewing
  <2> QED
    BY <1>1, <2>1, ViewEdited
<1>4. DrawnIs' /\ PointerIs'
  BY <1>1, <1>3, DrawDraws, SameDrag DEF Viewing
<1>5. PanelIs' /\ CountsAre'
  BY <1>1, <1>2, CountsKept DEF Viewing, PanelIs
<1> QED
  BY <1>3, <1>4, <1>5 DEF Viewing

-----------------------------------------------------------------------------
(* The real frame and the live values.                                     *)
LEMMA RefreshKeeps == Viewing /\ Refresh => Viewing'
<1> SUFFICES ASSUME Viewing, Refresh PROVE Viewing'
  OBVIOUS
<1>1. /\ view' = [view EXCEPT !.source = "fetching", !.buttons = FALSE] /\ PanelStays /\ Acts
      /\ tree' = tree /\ hex' = hex /\ own' = own /\ drag' = drag
      /\ fetches < MaxFetches /\ fetches' = fetches + 1
  BY DEF Refresh
<1>2. ViewIs(view') /\ view'.expanded = view.expanded /\ view'.real = view.real
      /\ view'.editing = view.editing
  <2>1. ViewIs(view)
    BY DEF Viewing
  <2> QED
    BY <1>1, <2>1, ViewFetching
<1>3. PanelIs' /\ active' = active /\ config' = config
  BY <1>1, PanelKept DEF Viewing
<1>4. PointerIs' /\ DrawnIs'
  BY <1>1, <1>2, <1>3, PointerKept, DrawingKept DEF Viewing
<1>5. CountsAre'
  <2>1. fetches \in 0..MaxFetches /\ acts \in 0..MaxActs /\ MaxFetches \in Nat /\ MaxActs \in Nat
    BY ChoicesAssumption DEF Viewing, CountsAre
  <2>2. acts' \in 0..MaxActs
    BY <1>1, <2>1 DEF Acts
  <2>3. fetches' \in 0..MaxFetches
    BY <1>1, <2>1
  <2> QED
    BY <2>2, <2>3 DEF CountsAre
<1> QED
  BY <1>2, <1>3, <1>4, <1>5 DEF Viewing

LEMMA AnswerCounts ==
  ASSUME CountsAre, fetches > 0, fetches' = fetches - 1, acts' = acts
  PROVE  CountsAre'
<1>1. fetches \in 0..MaxFetches /\ acts \in 0..MaxActs /\ MaxFetches \in Nat
  BY ChoicesAssumption DEF CountsAre
<1>2. fetches' \in 0..MaxFetches
  BY <1>1
<1> QED
  BY <1>1, <1>2 DEF CountsAre

LEMMA OverlaidIs ==
  ASSUME NEW t, NEW mu, NEW cfg, NEW e, NEW editing, TreeIs(t, mu, cfg, e, editing),
         NEW frame, NEW r, r = Overlaid(t, frame)
  PROVE  TreeIs(r, mu, cfg, e, editing)
<1>1. CASE ~Drawable(t)
  BY <1>1 DEF Overlaid
<1>2. CASE Drawable(t)
  <2> DEFINE asdu == Parsed(Encoded(Stream(frame))).asdu
             Place(ch) == SelectInSeq(Pool, LAMBDA c : c = ch)
             svId == asdu.svId
             cells == [k \in DOMAIN t.cells |->
                         IF Place(t.list[k]) \in DOMAIN asdu.samples
                         THEN Place(t.list[k]) ELSE t.cells[k]]
             inputs == IF "vlanPriority" \in DOMAIN t.inputs
                       THEN [vlanPriority |-> t.inputs.vlanPriority] ELSE t.inputs
  <2>1. r = [t EXCEPT !.svId = svId, !.inputs = inputs, !.cells = cells]
    BY <1>2 DEF Overlaid
  <2>2. DOMAIN cells = DOMAIN t.cells
    OBVIOUS
  <2>3. InputsAre(t.inputs, editing)
    BY DEF TreeIs
  <2>4. InputsAre(inputs, editing)
    BY <2>3 DEF InputsAre, Fields
  <2> HIDE DEF svId, cells, inputs
  <2>5. /\ Parts(r) /\ r.list = t.list /\ r.prio = t.prio /\ r.asdu = t.asdu
        /\ r.inputs = inputs /\ r.cells = cells /\ r.open = t.open
    BY <2>1 DEF TreeIs, Parts
  <2>6. Expandable(r) = Expandable(t)
    BY <2>5, ExpandableIs
  <2> QED
    BY <2>2, <2>4, <2>5, <2>6 DEF TreeIs, Drew
<1> QED
  BY <1>1, <1>2

LEMMA FrameAnsweredKeeps == Viewing /\ FrameAnswered => Viewing'
<1> SUFFICES ASSUME Viewing, FrameAnswered PROVE Viewing'
  OBVIOUS
<1>1. /\ view' = [view EXCEPT !.real = backend, !.source = "real"] /\ PanelStays
      /\ tree' = Overlaid(tree, backend) /\ hex' = [kind |-> "real", frame |-> backend]
      /\ own' = own /\ drag' = drag /\ backend # NoFrame
      /\ fetches > 0 /\ fetches' = fetches - 1 /\ acts' = acts
  BY DEF FrameAnswered
<1>2. ViewIs(view') /\ view'.expanded = view.expanded /\ view'.real = backend
      /\ view'.editing = view.editing
  <2>1. ViewIs(view) /\ backend # NoFrame
        /\ view' = With(view, backend)
    BY <1>1 DEF Viewing, With
  <2> QED
    BY <2>1, ViewAnswered
<1>3. PanelIs' /\ active' = active /\ config' = config /\ PointerIs' /\ CountsAre'
  BY <1>1, PanelKept, PointerKept, AnswerCounts DEF Viewing
<1>4. TreeIs(tree', active, config, view.expanded, view.editing)
  BY <1>1, OverlaidIs DEF Viewing, DrawnIs
<1>5. hex' = HexOf(active, config, backend) \/ active = NoMu
  BY <1>1 DEF HexOf
<1>6. hex'.kind = "real"
  BY <1>1
<1>7. DrawnIs'
  BY <1>2, <1>3, <1>4, <1>5, <1>6 DEF DrawnIs
<1> QED
  BY <1>2, <1>3, <1>7 DEF Viewing

LEMMA FrameRefusedKeeps == Viewing /\ FrameRefused => Viewing'
<1> SUFFICES ASSUME Viewing, FrameRefused PROVE Viewing'
  OBVIOUS
<1> DEFINE v == [view EXCEPT !.real = NoFrame, !.source = "unavailable"]
<1>1. Redraw(v) /\ PanelStays /\ drag' = drag
      /\ fetches > 0 /\ fetches' = fetches - 1 /\ acts' = acts
  BY DEF FrameRefused
<1>2. ViewIs(v)
  BY ViewRefused DEF Viewing
<1> HIDE DEF v
<1>3. CountsAre'
  BY <1>1, AnswerCounts DEF Viewing
<1> QED
  BY <1>1, <1>2, <1>3, RedrawnIs, SameDrag

LEMMA LiveValuesKeeps == Viewing /\ LiveValues => Viewing'
<1> SUFFICES ASSUME Viewing, LiveValues PROVE Viewing'
  OBVIOUS
<1> DEFINE cells == [k \in DOMAIN tree.cells |-> Live]
<1>1. /\ tree' = [tree EXCEPT !.cells = cells] /\ PanelStays /\ Acts
      /\ view' = view /\ hex' = hex /\ fetches' = fetches /\ own' = own /\ drag' = drag
  BY DEF LiveValues
<1>2. DOMAIN cells = DOMAIN tree.cells
  OBVIOUS
<1> HIDE DEF cells
<1>3. PanelIs' /\ active' = active /\ config' = config /\ CountsAre' /\ PointerIs'
  BY <1>1, PanelKept, CountsKept, PointerKept DEF Viewing
<1>4. TreeIs(tree', active, config, view.expanded, view.editing)
  BY <1>1, <1>2, TreeValued DEF Viewing, DrawnIs
<1>5. DrawnIs'
  BY <1>1, <1>3, <1>4 DEF Viewing, DrawnIs
<1> QED
  BY <1>1, <1>3, <1>5 DEF Viewing

-----------------------------------------------------------------------------
(* The panel and the lists.                                                *)
LEMMA PickKeeps ==
  ASSUME Viewing, NEW m, Pick(m)
  PROVE  Viewing'
<1> DEFINE mu == Copy(m, pubs[m])
<1>1. Inspect(mu) /\ m \in DOMAIN pubs /\ pubs' = pubs /\ Acts
      /\ fetches' = fetches /\ drag' = drag
  BY DEF Pick
<1>2. StreamsAre(pubs') /\ CountsAre'
  BY <1>1, CountsKept DEF Viewing, PanelIs
<1>3. Shows(mu, pubs')
  BY <1>1, <1>2 DEF Copy, Shows, Record, StreamsAre
<1> HIDE DEF mu
<1> QED
  BY <1>1, <1>2, <1>3, InspectIs, SameDrag

LEMMA RenameKeeps ==
  ASSUME Viewing, NEW m, Rename(m)
  PROVE  Viewing'
<1>1. /\ m \in DOMAIN pubs /\ pubs' = [pubs EXCEPT ![m].svId = NewName] /\ Acts
      /\ active' = active /\ config' = config /\ view' = view /\ tree' = tree /\ hex' = hex
      /\ fetches' = fetches /\ own' = own /\ drag' = drag
  BY DEF Rename
<1>2. PanelIs
  BY DEF Viewing
<1>3. /\ DOMAIN pubs' = DOMAIN pubs /\ pubs' = [k \in DOMAIN pubs' |-> pubs'[k]]
      /\ \A k \in DOMAIN pubs : k # m => pubs'[k] = pubs[k]
      /\ pubs'[m] = [pubs[m] EXCEPT !.svId = NewName]
  BY <1>1, <1>2 DEF PanelIs, StreamsAre
<1>4. pubs[m] = [svId |-> pubs[m].svId, list |-> pubs[m].list]
  BY <1>1, <1>2 DEF PanelIs, StreamsAre
<1>5. /\ pubs'[m] = [svId |-> pubs'[m].svId, list |-> pubs'[m].list]
      /\ pubs'[m].list = pubs[m].list /\ pubs'[m].svId = NewName
  BY <1>3, <1>4
<1>6. StreamsAre(pubs') /\ \A k \in DOMAIN pubs : pubs'[k].list = pubs[k].list
  BY <1>1, <1>2, <1>3, <1>5, SvIdsAssumption DEF PanelIs, StreamsAre
<1>7. PanelIs'
  BY <1>1, <1>2, <1>3, <1>6 DEF PanelIs, Shows
<1>8. DrawnIs' /\ PointerIs' /\ CountsAre'
  BY <1>1, DrawingKept, PointerKept, CountsKept DEF Viewing
<1> QED
  BY <1>1, <1>7, <1>8 DEF Viewing

LEMMA RemoveStreamKeeps ==
  ASSUME Viewing, NEW m \in Mus, RemoveStream(m)
  PROVE  Viewing'
<1>1. /\ m \in DOMAIN pubs /\ pubs' = [k \in DOMAIN pubs \ {m} |-> pubs[k]] /\ Acts
      /\ fetches' = fetches /\ drag' = drag
      /\ IF m = active.id THEN Inspect(NoMu)
         ELSE UNCHANGED <<active, config, view, tree, hex, own>>
  BY DEF RemoveStream
<1>2. PanelIs
  BY DEF Viewing
<1>3. DOMAIN pubs' = DOMAIN pubs \ {m} /\ \A k \in DOMAIN pubs' : pubs'[k] = pubs[k]
  BY <1>1
<1>4. StreamsAre(pubs')
  BY <1>1, <1>2, <1>3 DEF PanelIs, StreamsAre
<1>5. CountsAre'
  BY <1>1, CountsKept DEF Viewing
<1>6. CASE m = active.id
  <2>1. Inspect(NoMu)
    BY <1>1, <1>6
  <2>2. Shows(NoMu, pubs')
    BY DEF Shows
  <2> QED
    BY <1>1, <1>4, <1>5, <2>1, <2>2, InspectIs, SameDrag
<1>7. CASE m # active.id
  <2>1. active' = active /\ config' = config /\ view' = view /\ tree' = tree /\ hex' = hex
        /\ own' = own
    BY <1>1, <1>7
  <2>2. PanelIs'
    BY <1>2, <1>3, <1>4, <1>7, <2>1 DEF PanelIs, Shows
  <2>3. DrawnIs' /\ PointerIs'
    BY <1>1, <2>1, DrawingKept, PointerKept DEF Viewing
  <2> QED
    BY <1>5, <2>1, <2>2, <2>3 DEF Viewing
<1> QED
  BY <1>6, <1>7

LEMMA StartStreamsKeeps == Viewing /\ StartStreams => Viewing'
<1> SUFFICES ASSUME Viewing, StartStreams PROVE Viewing'
  OBVIOUS
<1>1. /\ PanelStays /\ Acts /\ view' = view /\ tree' = tree /\ hex' = hex
      /\ fetches' = fetches /\ own' = own /\ drag' = drag
  BY DEF StartStreams
<1>2. PanelIs' /\ active' = active /\ config' = config
  BY <1>1, PanelKept DEF Viewing
<1>3. DrawnIs' /\ PointerIs' /\ CountsAre'
  BY <1>1, <1>2, DrawingKept, PointerKept, CountsKept DEF Viewing
<1> QED
  BY <1>1, <1>2, <1>3 DEF Viewing

LEMMA AddChannelKeeps == Viewing /\ AddChannel => Viewing'
<1> SUFFICES ASSUME Viewing, AddChannel PROVE Viewing'
  OBVIOUS
<1> DEFINE least == CHOOSE k \in Unlisted : \A j \in Unlisted : k <= j
           list == Append(EffectiveList, Pool[least])
<1>1. /\ Unlisted # {} /\ ListBecomes(list) /\ Acts /\ fetches' = fetches /\ drag' = drag
  BY DEF AddChannel
<1>2. least \in Unlisted
  <2>1. Unlisted \subseteq Nat /\ Unlisted # {}
    BY <1>1, PoolAssumption DEF Unlisted
  <2>2. \E k \in Unlisted : \A j \in Unlisted : k <= j
    BY <2>1, LeastNat
  <2> QED
    BY <2>2
<1> HIDE DEF least
<1>3. Pool[least] \in ToSet(Pool) /\ Pool[least] \notin ToSet(EffectiveList)
  BY <1>2 DEF Unlisted, ToSet
<1>4. Listing(list)
  BY <1>3, EffectiveIs, AppendListing
<1>5. CountsAre'
  BY <1>1, CountsKept DEF Viewing
<1> HIDE DEF list
<1> QED
  BY <1>1, <1>4, <1>5, ListBecomesIs, SameDrag

LEMMA RemoveChannelKeeps ==
  ASSUME Viewing, NEW i, RemoveChannel(i)
  PROVE  Viewing'
<1> DEFINE list == RemoveAt(EffectiveList, i)
<1>1. i \in DOMAIN tree.list /\ ListBecomes(list) /\ Acts /\ fetches' = fetches /\ drag' = drag
  BY DEF RemoveChannel
<1>2. Listing(EffectiveList) /\ i \in DOMAIN EffectiveList
  BY <1>1, EffectiveIs
<1>3. Listing(list)
  BY <1>2, ShorterListing
<1>4. CountsAre'
  BY <1>1, CountsKept DEF Viewing
<1> HIDE DEF list
<1> QED
  BY <1>1, <1>3, <1>4, ListBecomesIs, SameDrag

LEMMA ChangeChannelKeeps ==
  ASSUME Viewing, NEW i, NEW ch \in ToSet(Pool), ChangeChannel(i, ch)
  PROVE  Viewing'
<1> DEFINE list == Changed(EffectiveList, i, ch)
<1>1. i \in DOMAIN tree.list /\ ListBecomes(list) /\ Acts /\ fetches' = fetches /\ drag' = drag
  BY DEF ChangeChannel
<1>2. Listing(EffectiveList) /\ i \in DOMAIN EffectiveList
  BY <1>1, EffectiveIs
<1>3. Listing(list)
  BY <1>2, ChangedListing
<1>4. CountsAre'
  BY <1>1, CountsKept DEF Viewing
<1> HIDE DEF list
<1> QED
  BY <1>1, <1>3, <1>4, ListBecomesIs, SameDrag

-----------------------------------------------------------------------------
(* The two drags.                                                          *)
LEMMA OwnDragStartsKeeps ==
  ASSUME Viewing, NEW i \in 1..Len(Pool), OwnDragStarts(i)
  PROVE  Viewing'
<1>1. /\ own' = [row |-> i, stale |-> FALSE] /\ PanelStays /\ Acts
      /\ view' = view /\ tree' = tree /\ hex' = hex /\ fetches' = fetches /\ drag' = drag
  BY DEF OwnDragStarts
<1>2. PanelIs' /\ active' = active /\ config' = config
  BY <1>1, PanelKept DEF Viewing
<1>3. DrawnIs' /\ CountsAre'
  BY <1>1, <1>2, DrawingKept, CountsKept DEF Viewing
<1>4. own' = [row |-> own'.row, stale |-> own'.stale] /\ own'.row = i
  BY <1>1
<1>5. i \in 0..Len(Pool)
  BY PoolCard
<1>6. PointerIs'
  BY <1>1, <1>4, <1>5 DEF Viewing, PointerIs
<1> QED
  BY <1>1, <1>2, <1>3, <1>6 DEF Viewing

LEMMA OwnDragEndsKeeps ==
  ASSUME Viewing, NEW i, OwnDragEnds(i)
  PROVE  Viewing'
<1>1. /\ own.row # 0 /\ own' = Free /\ config' = config /\ view' = view
      /\ i \in DOMAIN tree.list \cup {0}
      /\ fetches' = fetches /\ drag' = drag /\ acts' = acts
  BY DEF OwnDragEnds
<1>2. PanelIs /\ DrawnIs /\ Drew(tree, active, config)
  BY DEF Viewing, DrawnIs, TreeIs
<1>3. PointerIs'
  <2>1. own' = [row |-> 0, stale |-> FALSE]
    BY <1>1 DEF Free
  <2>2. own' = [row |-> own'.row, stale |-> own'.stale] /\ own'.row = 0
    BY <2>1
  <2>3. 0 \in 0..Len(Pool)
    BY PoolCard
  <2> QED
    BY <1>1, <2>2, <2>3 DEF Viewing, PointerIs
<1>4. CountsAre'
  BY <1>1, CountsKept DEF Viewing
<1>5. CASE i # 0 /\ (i # own.row \/ own.stale) /\ own.row \in DOMAIN EffectiveList
  <2> DEFINE m == active.id
             from == own.row
             list == Moved(pubs[m].list, from, i)
  <2>1. /\ pubs' = [pubs EXCEPT ![m].list = list]
        /\ active' = Copy(m, pubs'[m])
        /\ tree' = TreeOf(active', config, view.expanded)
        /\ hex' = HexOf(active', config, view.real)
    BY <1>5 DEF OwnDragEnds
  <2>2. active # NoMu /\ tree.list = EffectiveList /\ i \in DOMAIN EffectiveList
    BY <1>1, <1>5, EffectiveIs
  <2>3. m \in DOMAIN pubs /\ pubs[m].list = EffectiveList /\ Listing(EffectiveList)
    BY <1>2, <2>2, EffectiveIs DEF PanelIs, Shows, EffectiveList
  <2>4. Listing(list)
    BY <1>5, <2>2, <2>3, MovedListing
  <2>5. StreamsAre(pubs') /\ m \in DOMAIN pubs'
    <3> HIDE DEF list
    <3> QED
      BY <1>2, <2>1, <2>3, <2>4, StreamWith, ZenonT(60) DEF PanelIs
  <2>6. Shows(active', pubs')
    BY <2>1, <2>5 DEF Copy, Shows, Record, StreamsAre
  <2>7. PanelIs'
    BY <1>1, <1>2, <2>5, <2>6 DEF PanelIs
  <2>8. TreeIs(tree', active', config, view.expanded, view.editing)
    BY <2>1, TreeOfIs
  <2>9. hex'.kind \in {"none", "calc", "real"}
    BY <2>1 DEF HexOf, NoHex
  <2>10. DrawnIs'
    BY <1>1, <2>1, <2>8, <2>9 DEF DrawnIs
  <2> QED
    BY <1>1, <1>3, <1>4, <2>7, <2>10 DEF Viewing
<1>6. CASE ~(i # 0 /\ (i # own.row \/ own.stale) /\ own.row \in DOMAIN EffectiveList)
  <2>1. pubs' = pubs /\ active' = active /\ tree' = tree /\ hex' = hex
    BY <1>6 DEF OwnDragEnds
  <2>2. PanelIs' /\ DrawnIs'
    BY <1>1, <1>2, <2>1, DrawingKept DEF PanelIs
  <2> QED
    BY <1>1, <1>3, <1>4, <2>2 DEF Viewing
<1> QED
  BY <1>5, <1>6

\* A drag of the drag manager moves only its own feedback.
LEMMA FeedbackKeeps ==
  ASSUME Viewing, ListStays, DragIs(drag'), CountsAre'
  PROVE  Viewing'
<1>1. PanelStays /\ view' = view /\ tree' = tree /\ hex' = hex /\ own' = own
  BY DEF ListStays
<1>2. PanelIs' /\ active' = active /\ config' = config
  BY <1>1, PanelKept DEF Viewing
<1>3. DrawnIs'
  BY <1>1, <1>2, DrawingKept DEF Viewing
<1>4. PointerIs'
  BY <1>1 DEF Viewing, PointerIs
<1> QED
  BY <1>1, <1>2, <1>3, <1>4 DEF Viewing

LEMMA StartDragKeeps ==
  ASSUME Viewing, NEW ch \in ToSet(Pool), StartDrag(ch)
  PROVE  Viewing'
<1>1. /\ drag' = [data |-> ch, over |-> FALSE, ghosts |-> 1, zone |-> FALSE] /\ ListStays
      /\ Acts /\ fetches' = fetches
  BY DEF StartDrag
<1>2. drag'.data = ch /\ drag'.ghosts = 1 /\ drag'.over = FALSE /\ drag'.zone = FALSE
  BY <1>1
<1>3. drag' = [data |-> drag'.data, over |-> drag'.over, ghosts |-> drag'.ghosts,
               zone |-> drag'.zone]
  BY <1>1
<1>4. DragIs(drag')
  BY <1>2, <1>3, PoolAssumption DEF DragIs
<1>5. CountsAre'
  BY <1>1, CountsKept DEF Viewing
<1> QED
  BY <1>1, <1>4, <1>5, FeedbackKeeps

LEMMA DragMovesKeeps ==
  ASSUME Viewing, NEW over \in BOOLEAN, DragMoves(over)
  PROVE  Viewing'
<1>1. /\ drag # NoDrag /\ drag' = [drag EXCEPT !.over = over, !.zone = over] /\ ListStays
      /\ acts' = acts /\ fetches' = fetches
  BY DEF DragMoves
<1>2. DragIs(drag) /\ drag.data # "none"
  BY <1>1 DEF Viewing, PointerIs, DragIs
<1>3. /\ drag'.data = drag.data /\ drag'.ghosts = drag.ghosts
      /\ drag'.over = over /\ drag'.zone = over
      /\ drag' = [data |-> drag'.data, over |-> drag'.over, ghosts |-> drag'.ghosts,
                  zone |-> drag'.zone]
  BY <1>1, <1>2 DEF DragIs
<1>4. DragIs(drag')
  BY <1>2, <1>3 DEF DragIs
<1>5. CountsAre'
  BY <1>1, CountsKept DEF Viewing
<1> QED
  BY <1>1, <1>4, <1>5, FeedbackKeeps

LEMMA EndedIs ==
  ASSUME NEW d, DragIs(d), d # NoDrag, NEW r, r = Ended(d)
  PROVE  r = NoDrag /\ d.data \in ToSet(Pool)
<1>1. /\ d = [data |-> d.data, over |-> d.over, ghosts |-> d.ghosts, zone |-> d.zone]
      /\ d.data # "none" /\ d.data \in ToSet(Pool) \cup {"none"} /\ d.ghosts = 1
      /\ d.over \in BOOLEAN /\ d.zone \in BOOLEAN /\ (d.zone => d.over)
  BY DEF DragIs
<1> DEFINE zone == IF d.over THEN FALSE ELSE d.zone
           ghosts == d.ghosts - 1
<1>2. zone = FALSE
  BY <1>1, Zenon
<1>3. ghosts = 0
  BY <1>1
<1>4. r = [d EXCEPT !.data = "none", !.over = FALSE, !.zone = zone, !.ghosts = ghosts]
  BY DEF Ended
<1> HIDE DEF zone, ghosts
<1>5. r = [data |-> "none", over |-> FALSE, ghosts |-> 0, zone |-> FALSE]
  BY <1>1, <1>2, <1>3, <1>4
<1> QED
  BY <1>1, <1>5 DEF NoDrag

LEMMA DragDropsKeeps ==
  ASSUME Viewing, NEW over, DragDrops(over)
  PROVE  Viewing'
<1> DEFINE list == Append(EffectiveList, drag.data)
<1>1. /\ drag # NoDrag /\ drag' = Ended(drag) /\ acts' = acts /\ fetches' = fetches
      /\ IF over /\ ~Refuses(drag.data) THEN ListBecomes(list) ELSE ListStays
  BY DEF DragDrops
<1>2. drag' = NoDrag /\ drag.data \in ToSet(Pool)
  BY <1>1, EndedIs DEF Viewing, PointerIs
<1>3. CountsAre'
  BY <1>1, CountsKept DEF Viewing
<1>4. CASE over /\ ~Refuses(drag.data)
  <2>1. Listing(list)
    BY <1>2, <1>4, EffectiveIs, AppendListing DEF Refuses
  <2>2. ListBecomes(list)
    BY <1>1, <1>4
  <2> HIDE DEF list
  <2> QED
    BY <1>2, <1>3, <2>1, <2>2, ListBecomesIs, NoDragIs
<1>5. CASE ~(over /\ ~Refuses(drag.data))
  BY <1>1, <1>2, <1>3, <1>5, FeedbackKeeps, NoDragIs
<1> QED
  BY <1>4, <1>5

LEMMA DragLeavesWindowKeeps == Viewing /\ DragLeavesWindow => Viewing'
<1> SUFFICES ASSUME Viewing, DragLeavesWindow PROVE Viewing'
  OBVIOUS
<1>1. /\ drag # NoDrag /\ drag' = Ended(drag) /\ acts' = acts /\ fetches' = fetches /\ ListStays
  BY DEF DragLeavesWindow
<1>2. drag' = NoDrag
  BY <1>1, EndedIs DEF Viewing, PointerIs
<1>3. CountsAre'
  BY <1>1, CountsKept DEF Viewing
<1> QED
  BY <1>1, <1>2, <1>3, FeedbackKeeps, NoDragIs

-----------------------------------------------------------------------------
(* All of it.                                                              *)
LEMMA NothingHappens == Viewing /\ UNCHANGED viewVars => Viewing'
<1> SUFFICES ASSUME Viewing, UNCHANGED viewVars PROVE Viewing'
  OBVIOUS
<1>1. /\ pubs' = pubs /\ active' = active /\ config' = config /\ view' = view /\ tree' = tree
      /\ hex' = hex /\ fetches' = fetches /\ own' = own /\ drag' = drag /\ acts' = acts
  BY DEF viewVars
<1>2. PanelIs'
  BY <1>1, PanelKept DEF Viewing, PanelStays
<1>3. DrawnIs' /\ PointerIs' /\ CountsAre'
  BY <1>1, DrawingKept, PointerKept, CountsKept DEF Viewing
<1> QED
  BY <1>1, <1>2, <1>3 DEF Viewing

LEMMA TreeHandlersKeep ==
  ASSUME Viewing,
         \/ \E n \in Toggled : ClickNode(n)
         \/ ExpandAll \/ CollapseAll
         \/ \E n \in AsduCounts : ChooseAsdu(n)
         \/ EnterEdit \/ SaveEdits
         \/ \E p \in Priorities : TypePriority(p)
         \/ TypeName(NewName)
  PROVE  Viewing'
<1>1. (\E n \in Toggled : ClickNode(n)) => Viewing'
  BY ClickNodeKeeps
<1>2. ExpandAll \/ CollapseAll => Viewing'
  BY ExpandAllKeeps, CollapseAllKeeps
<1>3. (\E n \in AsduCounts : ChooseAsdu(n)) => Viewing'
  BY ChooseAsduKeeps
<1>4. EnterEdit \/ SaveEdits => Viewing'
  BY EnterEditKeeps, SaveEditsKeeps
<1>5. (\E p \in Priorities : TypePriority(p)) => Viewing'
  BY TypePriorityKeeps
<1>6. TypeName(NewName) => Viewing'
  BY TypeNameKeeps
<1> QED
  BY <1>1, <1>2, <1>3, <1>4, <1>5, <1>6

LEMMA PanelHandlersKeep ==
  ASSUME Viewing,
         \/ Refresh \/ FrameAnswered \/ FrameRefused \/ LiveValues
         \/ \E m \in Mus : Pick(m) \/ Rename(m) \/ RemoveStream(m)
         \/ StartStreams
         \/ AddChannel
  PROVE  Viewing'
<1>1. Refresh \/ FrameAnswered \/ FrameRefused \/ LiveValues => Viewing'
  BY RefreshKeeps, FrameAnsweredKeeps, FrameRefusedKeeps, LiveValuesKeeps
<1>2. (\E m \in Mus : Pick(m) \/ Rename(m) \/ RemoveStream(m)) => Viewing'
  BY PickKeeps, RenameKeeps, RemoveStreamKeeps
<1>3. StartStreams \/ AddChannel => Viewing'
  BY StartStreamsKeeps, AddChannelKeeps
<1> QED
  BY <1>1, <1>2, <1>3

LEMMA ChannelHandlersKeep ==
  ASSUME Viewing,
         \/ \E i \in 1..Len(Pool) : RemoveChannel(i) \/ OwnDragStarts(i)
         \/ \E i \in 1..Len(Pool), ch \in ToSet(Pool) : ChangeChannel(i, ch)
         \/ \E i \in 0..Len(Pool) : OwnDragEnds(i)
         \/ \E ch \in ToSet(Pool) : StartDrag(ch)
         \/ \E over \in BOOLEAN : DragMoves(over) \/ DragDrops(over)
         \/ DragLeavesWindow
  PROVE  Viewing'
<1>1. (\E i \in 1..Len(Pool) : RemoveChannel(i) \/ OwnDragStarts(i)) => Viewing'
  BY RemoveChannelKeeps, OwnDragStartsKeeps
<1>2. (\E i \in 1..Len(Pool), ch \in ToSet(Pool) : ChangeChannel(i, ch)) => Viewing'
  BY ChangeChannelKeeps
<1>3. (\E i \in 0..Len(Pool) : OwnDragEnds(i)) => Viewing'
  BY OwnDragEndsKeeps
<1>4. (\E ch \in ToSet(Pool) : StartDrag(ch)) => Viewing'
  BY StartDragKeeps
<1>5. (\E over \in BOOLEAN : DragMoves(over) \/ DragDrops(over)) => Viewing'
  BY DragMovesKeeps, DragDropsKeeps
<1>6. DragLeavesWindow => Viewing'
  BY DragLeavesWindowKeeps
<1> QED
  BY <1>1, <1>2, <1>3, <1>4, <1>5, <1>6

LEMMA ViewingKept == Viewing /\ [ViewNext]_viewVars => Viewing'
BY NothingHappens, TreeHandlersKeep, PanelHandlersKeep, ChannelHandlersKeep DEF ViewNext

\* The invariant, from which both properties follow: what is drawn is drawn of
\* the stream inspected, the configuration and what the viewer remembers.
THEOREM AlwaysViewing == ViewSpec => []Viewing
<1>1. ViewInit => Viewing
  BY InitViewing
<1> QED
  BY <1>1, ViewingKept, PTL DEF ViewSpec

LEMMA ViewingIsCurrent == Viewing => TreeIsCurrent
<1> SUFFICES ASSUME Viewing PROVE TreeIsCurrent
  OBVIOUS
<1>1. /\ Drew(tree, active, config) /\ tree.open = view.expanded \cap Expandable(tree)
      /\ Shows(active, pubs)
  BY DEF Viewing, DrawnIs, TreeIs, PanelIs
<1>2. Drawable(tree) <=> active # NoMu
  BY EffectiveIs
<1>3. Drawable(tree) => tree.list = pubs[active.id].list /\ tree.asdu = config.asdu
                        /\ tree.prio = Effective(config.prio)
  BY <1>1, <1>2 DEF Drew, Shows
<1> QED
  BY <1>1, <1>2, <1>3 DEF TreeIsCurrent

\* The tree shown is the one that would be drawn now of the stream inspected,
\* whether it was drawn or patched last, for any channels, any streams and any
\* number of handlers (createTreeNode(), toggleNode(), updateTreeWithRealData()).
THEOREM TreeStaysCurrent == ViewSpec => []TreeIsCurrent
BY AlwaysViewing, ViewingIsCurrent, PTL

LEMMA NoListing == <<>> \in Lists
<1>1. 0 \in 0..(Len(Pool) + 1)
  BY PoolCard
<1>2. <<>> \in [1..0 -> ToSet(Pool)]
  OBVIOUS
<1> QED
  BY <1>1, <1>2 DEF Lists

LEMMA NoDragData == ASSUME NEW d, DragIs(d) PROVE d.ghosts \in 0..1
<1>1. CASE d = NoDrag
  <2>1. d.ghosts = 0
    BY <1>1 DEF NoDrag
  <2> QED
    BY <2>1
<1>2. CASE d # NoDrag
  BY <1>2 DEF DragIs
<1> QED
  BY <1>1, <1>2

LEMMA ViewingIsTyped == Viewing => ViewTypeOK
<1> SUFFICES ASSUME Viewing PROVE ViewTypeOK
  OBVIOUS
<1>1. StreamsAre(pubs) /\ Shows(active, pubs) /\ ConfigIs(config)
  BY DEF Viewing, PanelIs
<1>2. DOMAIN pubs \subseteq Mus /\ \A m \in DOMAIN pubs : pubs[m].list \in Lists
  BY <1>1, ListingIs DEF StreamsAre
<1>3. active.id \in Mus \cup {0} /\ active.list \in Lists
  <2>1. CASE active = NoMu
    <3>1. active.id = 0 /\ active.list = <<>>
      BY <2>1 DEF NoMu
    <3> QED
      BY <3>1, NoListing
  <2>2. CASE active # NoMu
    BY <1>1, <1>2, <2>2 DEF Shows
  <2> QED
    BY <2>1, <2>2
<1>4. config.prio \in Priorities \cup {4} /\ config.asdu \in AsduCounts /\ config.list \in Lists
  BY <1>1, ListingIs DEF ConfigIs, Prios
<1>5. /\ view.editing \in BOOLEAN /\ view.buttons \in BOOLEAN
      /\ view.source \in {"calculated", "fetching", "real", "unavailable"}
  BY DEF Viewing, ViewIs
<1>6. /\ tree.list \in Lists /\ DOMAIN tree.inputs \subseteq Fields
      /\ DOMAIN tree.cells = DOMAIN tree.list /\ hex.kind \in {"none", "calc", "real"}
  BY <1>3 DEF Viewing, DrawnIs, TreeIs, Drew, InputsAre
<1>7. fetches \in 0..MaxFetches /\ acts \in 0..MaxActs
  BY DEF Viewing, CountsAre
<1>8. own.row \in 0..Len(Pool) /\ drag.data \in ToSet(Pool) \cup {"none"} /\ drag.ghosts \in 0..1
  BY NoDragData DEF Viewing, PointerIs, DragIs
<1> QED
  BY <1>2, <1>3, <1>4, <1>5, <1>6, <1>7, <1>8 DEF ViewTypeOK

LEMMA ViewingIsConsistent == Viewing => ViewConsistent
<1> SUFFICES ASSUME Viewing PROVE ViewConsistent
  OBVIOUS
<1>1. ViewTypeOK
  BY ViewingIsTyped
<1>2. ChannelsOnce
  BY DEF Viewing, PanelIs, StreamsAre, ConfigIs, Listing, ChannelsOnce
<1>3. SourceIsTold
  BY DEF Viewing, ViewIs, DrawnIs, SourceIsTold
<1>4. InputsMeanEditing
  BY DEF Viewing, DrawnIs, TreeIs, InputsAre, InputsMeanEditing
<1>5. DragLeavesNothing
  BY DEF Viewing, PointerIs, DragIs, DragLeavesNothing
<1> QED
  BY <1>1, <1>2, <1>3, <1>4, <1>5 DEF ViewConsistent

\* No channel gets into a frame twice, the line over the tree tells where the
\* dump comes from, inputs mean editing and a drag that is over leaves nothing,
\* whatever comes between a request for a frame and its answer
\* (refreshRealFrame(), enterEditMode(), endDrag()).
THEOREM ViewStaysConsistent == ViewSpec => []ViewConsistent
BY AlwaysViewing, ViewingIsConsistent, PTL

-----------------------------------------------------------------------------
(* Where the tree says the bytes are.                                      *)
ShapeIs(sh) == sh.sv \in Nat /\ sh.chs \in Nat /\ sh.asdu \in Nat

\* Blocks of one size, one behind the other.
LEMMA BlocksApart ==
  ASSUME NEW a \in Nat, NEW i \in Nat, NEW j \in Nat, j < i
  PROVE  j * a \in Nat /\ i * a \in Nat /\ j * a + a <= i * a
<1>1. PICK d \in Nat : i = j + 1 + d
  <2>1. i - j - 1 \in Nat /\ i = j + 1 + (i - j - 1)
    OBVIOUS
  <2> QED
    BY <2>1
<1>2. i * a = j * a + a + d * a
  BY <1>1
<1>3. d * a \in Nat /\ j * a \in Nat
  OBVIOUS
<1> QED
  BY <1>2, <1>3

LEMMA SizesAre ==
  ASSUME NEW sh, ShapeIs(sh)
  PROVE  /\ AsduSize(sh) = sh.sv + 8 * sh.chs + 21
         /\ AsduSize(sh) \in Nat
         /\ ApduSize(sh) = 7 + sh.asdu * (AsduSize(sh) + 4)
         /\ \A i : AsduAt(sh, i) = 33 + i * AsduSize(sh)
<1> DEFINE sv == sh.sv
           chs == sh.chs
<1>1. sv \in Nat /\ chs \in Nat
  BY DEF ShapeIs
<1>2. AsduSize(sh) = 2 + sv + 4 + 6 + 3 + (2 + 8 * chs) + 4
  BY DEF AsduSize, SeqDataSize
<1>3. ApduSize(sh) = 3 + sh.asdu * (2 + sv + 4 + 6 + 3 + (2 + 8 * chs) + 6 + 2) + 4
  BY DEF ApduSize, SeqDataSize
<1> HIDE DEF sv, chs
<1>4. AsduSize(sh) = sv + 8 * chs + 21 /\ AsduSize(sh) \in Nat
  BY <1>1, <1>2
<1>5. 2 + sv + 4 + 6 + 3 + (2 + 8 * chs) + 6 + 2 = AsduSize(sh) + 4
  BY <1>1, <1>4
<1>6. sh.asdu * (AsduSize(sh) + 4) \in Nat
  BY <1>4 DEF ShapeIs
<1>7. ApduSize(sh) = 3 + sh.asdu * (AsduSize(sh) + 4) + 4
  BY <1>3, <1>5
<1> QED
  BY <1>4, <1>6, <1>7 DEF AsduAt, sv, chs

LEMMA SpanIs ==
  ASSUME NEW at, NEW len, NEW r, r = Span(at, len)
  PROVE  r.at = at /\ r.len = len
BY DEF Span

\* The ASDUs lie in the APDU, behind the number of them and each other.
LEMMA AsdusNest ==
  ASSUME NEW sh, ShapeIs(sh), NEW i \in 0..(sh.asdu - 1)
  PROVE  /\ Within(Asdu(sh, i), Apdu(sh))
         /\ Apart(Asdu(sh, i), Header["noasdu"])
         /\ \A j \in 0..(i - 1) : Apart(Asdu(sh, i), Asdu(sh, j))
<1> DEFINE a == AsduSize(sh)
           n == sh.asdu
<1>0. a \in Nat /\ n \in Nat /\ i \in Nat /\ i < n
  BY SizesAre DEF ShapeIs
<1>1. /\ Asdu(sh, i).at = 33 + i * a /\ Asdu(sh, i).len = a
      /\ Apdu(sh).at = 26 /\ Apdu(sh).len = 7 + n * (a + 4)
  BY SizesAre, SpanIs DEF Asdu, Apdu
<1>2. Header["noasdu"].at = 28 /\ Header["noasdu"].len = 3
  BY SpanIs DEF Header
<1>3. \A j \in 0..(i - 1) : Asdu(sh, j).at = 33 + j * a /\ Asdu(sh, j).len = a
  BY SizesAre, SpanIs DEF Asdu
<1> HIDE DEF a, n
<1>4. i * a \in Nat /\ n * a \in Nat /\ i * a + a <= n * a
  BY <1>0, BlocksApart
<1>5. n * (a + 4) = n * a + 4 * n
  BY <1>0
<1>6. Within(Asdu(sh, i), Apdu(sh))
  BY <1>0, <1>1, <1>4, <1>5 DEF Within
<1>7. Apart(Asdu(sh, i), Header["noasdu"])
  BY <1>0, <1>1, <1>2, <1>4 DEF Apart
<1>8. ASSUME NEW j \in 0..(i - 1) PROVE Apart(Asdu(sh, i), Asdu(sh, j))
  <2>1. j \in Nat /\ j < i
    BY <1>0
  <2>2. j * a \in Nat /\ j * a + a <= i * a
    BY <1>0, <2>1, BlocksApart
  <2> QED
    BY <1>0, <1>1, <1>3, <1>4, <2>2 DEF Apart
<1> QED
  BY <1>6, <1>7, <1>8

LEMMA FieldsNest ==
  ASSUME NEW sh, ShapeIs(sh), NEW i \in Nat, NEW n \in DOMAIN InAsdu(sh, i)
  PROVE  /\ Within(InAsdu(sh, i)[n], Asdu(sh, i))
         /\ \A k \in DOMAIN InAsdu(sh, i) \ {n} : Apart(InAsdu(sh, i)[n], InAsdu(sh, i)[k])
<1> DEFINE at == AsduAt(sh, i)
           sv == sh.sv
           data == 8 * sh.chs
           F == InAsdu(sh, i)
<1>0. sv \in Nat /\ data \in Nat /\ sh.chs \in Nat
  BY DEF ShapeIs
<1>1. at \in Nat
  <2>1. at = 33 + i * AsduSize(sh) /\ AsduSize(sh) \in Nat
    BY SizesAre
  <2> QED
    BY <2>1
<1>2. Asdu(sh, i).at = at /\ Asdu(sh, i).len = sv + data + 21
  BY SizesAre, SpanIs DEF Asdu
<1>3. DOMAIN F = {"svid", "smpcnt", "confrev", "smpsynch", "seqdata"}
  BY DEF InAsdu
<1>4. /\ F["svid"].at = at + 2 /\ F["svid"].len = 2 + sv
      /\ F["smpcnt"].at = at + 4 + sv /\ F["smpcnt"].len = 4
      /\ F["confrev"].at = at + 8 + sv /\ F["confrev"].len = 6
      /\ F["smpsynch"].at = at + 14 + sv /\ F["smpsynch"].len = 3
  BY SpanIs DEF InAsdu
<1>5. F["seqdata"].at = at + 17 + sv /\ F["seqdata"].len = 2 + data
  BY SpanIs DEF InAsdu, SeqDataSize
<1> HIDE DEF at, sv, data, F
<1>6. \A m \in DOMAIN F : F[m].at \in Nat /\ F[m].len \in Nat
  BY <1>0, <1>1, <1>3, <1>4, <1>5
<1>7. Within(F[n], Asdu(sh, i))
  BY <1>0, <1>1, <1>2, <1>3, <1>4, <1>5 DEF Within, F
<1>8. ASSUME NEW k \in DOMAIN F, NEW m \in DOMAIN F, k # m
      PROVE  Apart(F[m], F[k])
  BY <1>0, <1>1, <1>3, <1>4, <1>5, <1>8 DEF Apart
<1>9. n \in DOMAIN F
  BY DEF F
<1> QED
  BY <1>7, <1>8, <1>9 DEF F

\* In the tree of any stream no two fields, and no two ASDUs, are given the same
\* bytes, and none is given bytes outside of what it is part of, however long the
\* name and however many channels and ASDUs (addASDUNodes(), addChannelNodes()).
THEOREM PartsAlwaysNest == ViewSpec => []PartsNest
<1>1. Viewing => PartsNest
  <2> SUFFICES ASSUME Viewing, Drawable(tree) PROVE PartsNest
    BY DEF PartsNest
  <2> DEFINE sh == Shape(tree)
  <2>1. /\ Drew(tree, active, config) /\ Shows(active, pubs) /\ ConfigIs(config)
        /\ StreamsAre(pubs) /\ active # NoMu
    BY EffectiveIs DEF Viewing, DrawnIs, TreeIs, PanelIs
  <2>2. sh.sv \in Nat
    BY <2>1 DEF Shape, Shows
  <2>3. sh.chs \in Nat
    BY <2>1, ListingIs DEF Shape, Drew, Shows, StreamsAre
  <2>4. sh.asdu \in Nat
    BY <2>1, ChoicesAssumption DEF Shape, Drew, ConfigIs
  <2>5. ShapeIs(sh)
    BY <2>2, <2>3, <2>4 DEF ShapeIs
  <2> HIDE DEF sh
  <2>6. Within(Apdu(sh), SvPdu(sh))
    <3>1. /\ Apdu(sh).at = 26 /\ Apdu(sh).len = ApduSize(sh)
          /\ SvPdu(sh).at = 18 /\ SvPdu(sh).len = ApduSize(sh) + 4 + 8
      BY SpanIs DEF Apdu, SvPdu, SvPduSize
    <3>2. ApduSize(sh) \in Nat
      <4>1. ApduSize(sh) = 7 + sh.asdu * (AsduSize(sh) + 4) /\ AsduSize(sh) \in Nat
        BY <2>5, SizesAre
      <4>2. sh.asdu * (AsduSize(sh) + 4) \in Nat
        BY <2>4, <4>1
      <4> QED
        BY <4>1, <4>2
    <3> QED
      BY <3>1, <3>2 DEF Within
  <2>7. ASSUME NEW i \in 0..(sh.asdu - 1)
        PROVE  /\ Within(Asdu(sh, i), Apdu(sh))
               /\ Apart(Asdu(sh, i), Header["noasdu"])
               /\ \A j \in 0..(i - 1) : Apart(Asdu(sh, i), Asdu(sh, j))
               /\ \A n \in DOMAIN InAsdu(sh, i) :
                    /\ Within(InAsdu(sh, i)[n], Asdu(sh, i))
                    /\ \A k \in DOMAIN InAsdu(sh, i) \ {n} :
                         Apart(InAsdu(sh, i)[n], InAsdu(sh, i)[k])
    <3>1. i \in Nat
      BY <2>4
    <3> QED
      BY <2>5, <3>1, AsdusNest, FieldsNest
  <2> QED
    BY <2>6, <2>7 DEF PartsNest, sh
<1> QED
  BY <1>1, AlwaysViewing, PTL

-----------------------------------------------------------------------------
(* The dump that is made up, piece by piece.                               *)
Tags == {"eth-dst", "eth-src", "eth-vlan", "eth-type", "sv-appid", "sv-length", "sv-res1",
         "sv-res2", "savpdu", "noasdu", "seqasdu", "asdu", "svid"}
Cell == [f : Tags, v : Int]
Put(b, piece) == b \o piece
CellOf(field, value) == [f |-> field, v |-> value]
LEMMA CellIs ==
  ASSUME NEW field \in Tags, NEW value \in Int, NEW c, c = CellOf(field, value)
  PROVE  c \in Cell /\ c.f = field
BY DEF CellOf, Cell

LEMMA PieceIs ==
  ASSUME NEW field \in Tags, NEW values \in Seq(Int), NEW piece, piece = Bytes(field, values)
  PROVE  piece \in Seq(Cell) /\ Len(piece) = Len(values)
         /\ \A k \in 1..Len(values) : piece[k].f = field
<1> DEFINE m == Len(values)
<1>1. m \in Nat /\ DOMAIN values = 1..m /\ \A k \in 1..m : values[k] \in Int
  OBVIOUS
<1>2. piece = [k \in 1..m |-> CellOf(field, values[k])]
  BY <1>1 DEF Bytes, CellOf
<1> HIDE DEF m
<1>3. \A k \in 1..m : CellOf(field, values[k]) \in Cell /\ CellOf(field, values[k]).f = field
  BY <1>1, CellIs
<1>4. piece \in Seq(Cell) /\ Len(piece) = m
  BY <1>1, <1>2, <1>3
<1>5. \A k \in 1..m : piece[k].f = field
  BY <1>2, <1>3
<1> QED
  BY <1>4, <1>5 DEF m

Adds(n, m, e) == e = n + m
From(n, e) == n..(e - 1)

Both(a, b, r, V) ==
  /\ r \in Seq(V) /\ Len(r) = Len(a) + Len(b)
  /\ \A k \in 1..Len(a) : r[k] = a[k]
  /\ \A k \in 1..Len(b) : r[Len(a) + k] = b[k]
LEMMA BothJoined ==
  ASSUME NEW V, NEW a \in Seq(V), NEW b \in Seq(V)
  PROVE  Both(a, b, Joined(a, b), V)
<1>1. /\ Joined(a, b) \in Seq(V)
      /\ Len(Joined(a, b)) = Len(a) + Len(b)
      /\ \A k \in 1..Len(a) : Joined(a, b)[k] = a[k]
      /\ \A k \in 1..Len(b) : Joined(a, b)[Len(a) + k] = b[k]
  BY JoinedIs, SMTT(30)
<1> QED
  BY <1>1, Zenon DEF Both

\* What is at which bytes once the piece of a field is put behind b.
LEMMA PutIs ==
  ASSUME NEW b \in Seq(Cell), NEW n \in Nat, Len(b) = n, NEW field \in Tags,
         NEW values \in Seq(Int), NEW m \in Nat, Len(values) = m, NEW e, Adds(n, m, e),
         NEW piece, piece = Bytes(field, values), BytesOf(b, field) = {},
         NEW r, r = Put(b, piece)
  PROVE  /\ r \in Seq(Cell) /\ Len(r) = e /\ BytesOf(r, field) = From(n, e)
         /\ \A g : g # field => BytesOf(r, g) = BytesOf(b, g)
<1>0. n = Len(b) /\ m = Len(values) /\ e = n + m
  BY DEF Adds
<1>1. piece \in Seq(Cell) /\ Len(piece) = m /\ \A k \in 1..m : piece[k].f = field
  BY <1>0, PieceIs
<1>2. /\ r \in Seq(Cell) /\ Len(r) = n + m
      /\ \A k \in 1..n : r[k] = b[k]
      /\ \A k \in 1..m : r[n + k] = piece[k]
  <2>1. r = Joined(b, piece)
    BY DEF Put, Joined
  <2>2. /\ Joined(b, piece) \in Seq(Cell) /\ Len(Joined(b, piece)) = Len(b) + Len(piece)
        /\ \A k \in 1..Len(b) : Joined(b, piece)[k] = b[k]
        /\ \A k \in 1..Len(piece) : Joined(b, piece)[Len(b) + k] = piece[k]
    <3>1. PICK V : V = Cell
      OBVIOUS
    <3>2. b \in Seq(V) /\ piece \in Seq(V)
      BY <1>1, <3>1
    <3>3. Both(b, piece, Joined(b, piece), V)
      BY <3>2, BothJoined
    <3> QED
      BY <3>1, <3>3 DEF Both
  <2> QED
    BY <1>0, <1>1, <2>1, <2>2
<1>3. ASSUME NEW i \in 0..(n + m - 1)
      PROVE  /\ i < n => r[i + 1] = b[i + 1]
             /\ n <= i => r[i + 1].f = field
  <2>1. ASSUME i < n PROVE r[i + 1] = b[i + 1]
    <3>1. i + 1 \in 1..n
      BY <1>0, <2>1
    <3> QED
      BY <1>2, <3>1
  <2>2. ASSUME n <= i PROVE r[i + 1].f = field
    <3>1. i + 1 - n \in 1..m /\ n + (i + 1 - n) = i + 1
      BY <1>0, <2>2
    <3>2. r[i + 1] = piece[i + 1 - n]
      BY <1>2, <3>1
    <3> QED
      BY <1>1, <3>1, <3>2
  <2> QED
    BY <2>1, <2>2
<1>4. ASSUME NEW g, NEW i
      PROVE  /\ i \in BytesOf(r, g) <=> i \in 0..(n + m - 1) /\ r[i + 1].f = g
             /\ i \in BytesOf(b, g) <=> i \in 0..(n - 1) /\ b[i + 1].f = g
  <2>1. i \in BytesOf(r, g) <=> i \in 0..(Len(r) - 1) /\ r[i + 1].f = g
    BY DEF BytesOf
  <2>2. i \in BytesOf(b, g) <=> i \in 0..(Len(b) - 1) /\ b[i + 1].f = g
    BY DEF BytesOf
  <2>3. 0..(Len(r) - 1) = 0..(n + m - 1) /\ 0..(Len(b) - 1) = 0..(n - 1)
    BY <1>0, <1>2
  <2> QED
    BY <2>1, <2>2, <2>3
<1>5. \A i : /\ i \in 0..(n - 1) <=> i \in 0..(n + m - 1) /\ i < n
             /\ i \in n..(n + m - 1) <=> i \in 0..(n + m - 1) /\ n <= i
             /\ i \in 0..(n + m - 1) => i < n \/ n <= i
             /\ ~(i \in 0..(n + m - 1) /\ i < n /\ n <= i)
  BY <1>0
<1>6. \A i : ~(i \in 0..(n - 1) /\ b[i + 1].f = field)
  BY <1>4
<1>7. ASSUME NEW i PROVE i \in BytesOf(r, field) <=> i \in n..(n + m - 1)
  <2>1. i \in BytesOf(r, field) => i \in n..(n + m - 1)
    BY <1>3, <1>4, <1>5, <1>6
  <2>2. i \in n..(n + m - 1) => i \in BytesOf(r, field)
    BY <1>3, <1>4, <1>5
  <2> QED
    BY <2>1, <2>2
<1>8. ASSUME NEW g, g # field, NEW i PROVE i \in BytesOf(r, g) <=> i \in BytesOf(b, g)
  <2>1. i \in BytesOf(r, g) => i \in BytesOf(b, g)
    BY <1>3, <1>4, <1>5, <1>8
  <2>2. i \in BytesOf(b, g) => i \in BytesOf(r, g)
    BY <1>3, <1>4, <1>5
  <2> QED
    BY <2>1, <2>2
<1>9. BytesOf(r, field) = n..(n + m - 1)
  BY <1>7
<1>10. ASSUME NEW g, g # field PROVE BytesOf(r, g) = BytesOf(b, g)
  <2>1. \A i : i \in BytesOf(r, g) <=> i \in BytesOf(b, g)
    BY <1>8, <1>10
  <2>2. BytesOf(r, g) \subseteq Nat /\ BytesOf(b, g) \subseteq Nat
    BY <1>0, <1>2 DEF BytesOf
  <2> QED
    BY <2>1
<1> QED
  BY <1>0, <1>2, <1>9, <1>10 DEF From

\* Every byte of a word is a number, and every piece is of numbers.
LEMMA WordIs == ASSUME NEW n \in Int PROVE Word(n) \in Seq(Int) /\ Len(Word(n)) = 2
<1>1. (n \div 256) % 256 \in Int /\ n % 256 \in Int
  OBVIOUS
<1> QED
  BY <1>1 DEF Word

LEMMA MacIs == ASSUME NEW b \in Int PROVE Mac(b) \in Seq(Int) /\ Len(Mac(b)) = 6
BY DEF Mac

LEMMA JoinedInts ==
  ASSUME NEW a \in Seq(Int), NEW b \in Seq(Int), NEW r, r = Joined(a, b)
  PROVE  r \in Seq(Int) /\ Len(r) = Len(a) + Len(b)
<1>1. PICK V : V = Int
  OBVIOUS
<1>2. a \in Seq(V) /\ b \in Seq(V)
  BY <1>1
<1>3. Joined(a, b) \in Seq(V) /\ Len(Joined(a, b)) = Len(a) + Len(b)
  BY <1>2, JoinedIs
<1> QED
  BY <1>1, <1>3

VlanBytes(prio, vlan) == <<129, 0>> \o Word(prio * 8192 + vlan)
LEMMA TagIs ==
  ASSUME NEW prio \in Nat, NEW vlan \in Nat, NEW r, r = VlanBytes(prio, vlan)
  PROVE  r \in Seq(Int) /\ Len(r) = 4
<1>1. <<129, 0>> \in Seq(Int) /\ Len(<<129, 0>>) = 2
  OBVIOUS
<1>2. prio * 8192 + vlan \in Int
  OBVIOUS
<1> DEFINE w == Word(prio * 8192 + vlan)
<1>3. w \in Seq(Int) /\ Len(w) = 2
  BY <1>2, WordIs
<1> DEFINE t == <<129, 0>>
<1>4. r = t \o w
  BY DEF VlanBytes
<1> HIDE DEF w, t
<1>5. t \in Seq(Int) /\ Len(t) = 2
  BY <1>1 DEF t
<1>6. r = Joined(t, w)
  BY <1>4 DEF Joined
<1>7. r \in Seq(Int) /\ Len(r) = Len(t) + Len(w)
  BY <1>3, <1>5, <1>6, JoinedInts
<1> QED
  BY <1>3, <1>5, <1>7

LEMMA NamedTagIs ==
  ASSUME NEW svId \in Seq(Nat), NEW r, r = Tagged(128, svId)
  PROVE  r \in Seq(Int) /\ Len(r) = 2 + Len(svId)
<1> DEFINE t == <<128, Len(svId)>>
<1>1. t \in Seq(Int) /\ Len(t) = 2 /\ svId \in Seq(Int)
  OBVIOUS
<1>2. r = t \o svId
  BY DEF Tagged
<1> HIDE DEF t
<1>3. r = Joined(t, svId)
  BY <1>2 DEF Joined
<1>4. r \in Seq(Int) /\ Len(r) = Len(t) + Len(svId)
  BY <1>1, <1>3, JoinedInts
<1> QED
  BY <1>1, <1>4

\* The made-up dump, cut after each of its pieces.
Made(s) ==
  LET b1 == Bytes("eth-dst", Mac(1))
      b2 == Put(b1, Bytes("eth-src", Mac(2)))
      b3 == Put(b2, Bytes("eth-vlan", VlanBytes(s.prio, s.vlan)))
      b4 == Put(b3, Bytes("eth-type", <<136, 186>>))
      b5 == Put(b4, Bytes("sv-appid", Word(AppId)))
      b6 == Put(b5, Bytes("sv-length", Word(108)))
      b7 == Put(b6, Bytes("sv-res1", <<0, 0>>))
      b8 == Put(b7, Bytes("sv-res2", <<0, 0>>))
      b9 == Put(b8, Bytes("savpdu", <<96, 102>>))
      b10 == Put(b9, Bytes("noasdu", <<128, 1, s.asdu>>))
      b11 == Put(b10, Bytes("seqasdu", <<162, 97>>))
      b12 == Put(b11, Bytes("asdu", <<48, 95>>))
  IN  Put(b12, Bytes("svid", Tagged(128, s.svId)))

LEMMA MadeUp == ASSUME NEW s PROVE Calculated(s) = Made(s)
BY ZenonT(60) DEF Calculated, MadeUpTag, VlanBytes, Made, Put

\* The first piece.
LEMMA FirstIs ==
  ASSUME NEW field \in Tags, NEW values \in Seq(Int), NEW m \in Nat,
         Len(values) = m, NEW piece, piece = Bytes(field, values)
  PROVE  /\ piece \in Seq(Cell) /\ Len(piece) = m /\ BytesOf(piece, field) = From(0, m)
         /\ \A g : g # field => BytesOf(piece, g) = {}
<1>1. piece \in Seq(Cell) /\ Len(piece) = Len(values)
      /\ \A k \in 1..Len(values) : piece[k].f = field
  BY PieceIs
<1>2. m = Len(values)
  OBVIOUS
<1>3. \A g, i : i \in BytesOf(piece, g) <=> i \in 0..(Len(piece) - 1) /\ piece[i + 1].f = g
  BY DEF BytesOf
<1>4. 0..(Len(piece) - 1) = 0..(m - 1)
  BY <1>1, <1>2
<1>5. \A i \in 0..(m - 1) : i + 1 \in 1..m
  BY <1>2
<1>6. \A g, i : i \in BytesOf(piece, g) <=> i \in 0..(m - 1) /\ field = g
  BY <1>1, <1>2, <1>3, <1>4, <1>5
<1>7. BytesOf(piece, field) = 0..(m - 1)
  BY <1>6
<1>8. ASSUME NEW g, g # field PROVE BytesOf(piece, g) = {}
  BY <1>6, <1>8
<1> QED
  BY <1>1, <1>2, <1>7, <1>8 DEF From


\* Where a field is in the made-up dump of a stream with a name of n bytes and its tag.
Place(field, n) ==
  CASE
       field = "eth-dst" -> 0..5
    [] field = "eth-src" -> 6..11
    [] field = "eth-vlan" -> 12..15
    [] field = "eth-type" -> 16..17
    [] field = "sv-appid" -> 18..19
    [] field = "sv-length" -> 20..21
    [] field = "sv-res1" -> 22..23
    [] field = "sv-res2" -> 24..25
    [] field = "savpdu" -> 26..27
    [] field = "noasdu" -> 28..30
    [] field = "seqasdu" -> 31..32
    [] field = "asdu" -> 33..34
    [] field = "svid" -> 35..(35 + n - 1)
    [] OTHER -> {}

\* The fields of D are where they belong, and nothing else is in b, which ends at k.
Laid(b, k, D, n) ==
  /\ b \in Seq(Cell) /\ Len(b) = k
  /\ \A g : BytesOf(b, g) = IF g \in D THEN Place(g, n) ELSE {}
HasLen(values, m) == values \in Seq(Int) /\ m \in Nat /\ Len(values) = m
Follows(r, b, field, values) == r = Put(b, Bytes(field, values))
\* The next field is one of m bytes, up to e.
Fits(k, D, field, m, e, E, n) ==
  /\ k \in Nat /\ field \in Tags \ D /\ E = D \cup {field}
  /\ Adds(k, m, e) /\ Place(field, n) = From(k, e)

LEMMA Behind ==
  ASSUME NEW n, NEW k, NEW b, NEW D, Laid(b, k, D, n), NEW field, NEW m, NEW e, NEW E,
         Fits(k, D, field, m, e, E, n), NEW values, HasLen(values, m),
         NEW r, Follows(r, b, field, values)
  PROVE  Laid(r, e, E, n)
<1>1. /\ b \in Seq(Cell) /\ Len(b) = k /\ BytesOf(b, field) = {}
      /\ \A g : BytesOf(b, g) = IF g \in D THEN Place(g, n) ELSE {}
  BY DEF Laid, Fits
<1>2. PICK piece : piece = Bytes(field, values)
  OBVIOUS
<1>3. /\ values \in Seq(Int) /\ m \in Nat /\ Len(values) = m /\ r = Put(b, piece)
      /\ k \in Nat /\ field \in Tags /\ Adds(k, m, e)
  BY <1>2 DEF HasLen, Follows, Fits
<1>4. /\ r \in Seq(Cell) /\ Len(r) = e /\ BytesOf(r, field) = From(k, e)
      /\ \A g : g # field => BytesOf(r, g) = BytesOf(b, g)
  BY <1>1, <1>2, <1>3, PutIs
<1>5. E = D \cup {field} /\ field \notin D /\ Place(field, n) = From(k, e)
  BY DEF Fits
<1>6. \A g : BytesOf(r, g) = IF g \in E THEN Place(g, n) ELSE {}
  BY <1>1, <1>4, <1>5
<1> QED
  BY <1>4, <1>6 DEF Laid


LEMMA MadeLaid ==
  ASSUME NEW s, s.prio \in Nat, s.vlan \in Nat, s.asdu \in Nat, s.svId \in Seq(Nat)
  PROVE  Laid(Made(s), 35 + (2 + Len(s.svId)), Tags, 2 + Len(s.svId))
<1> DEFINE n == 2 + Len(s.svId)
<1>a. n \in Nat
  OBVIOUS
<1>b. /\ HasLen(Mac(1), 6) /\ HasLen(Mac(2), 6) /\ HasLen(VlanBytes(s.prio, s.vlan), 4)
      /\ HasLen(Word(AppId), 2) /\ HasLen(Word(108), 2)
  BY MacIs, TagIs, WordIs, NumbersAssumption DEF HasLen
<1>c. HasLen(Tagged(128, s.svId), n)
  BY <1>a, NamedTagIs DEF HasLen
<1>d. /\ HasLen(<<136, 186>>, 2) /\ HasLen(<<0, 0>>, 2) /\ HasLen(<<96, 102>>, 2)
      /\ HasLen(<<128, 1, s.asdu>>, 3) /\ HasLen(<<162, 97>>, 2) /\ HasLen(<<48, 95>>, 2)
  BY DEF HasLen
<1> HIDE DEF n
<1>e. PICK w1, w2, w3, w4, w5, w6, w7, w8, w9, w10, w11, w12, w13 :
        /\ w1 = Mac(1) /\ w2 = Mac(2) /\ w3 = VlanBytes(s.prio, s.vlan) /\ w4 = <<136, 186>>
        /\ w5 = Word(AppId) /\ w6 = Word(108) /\ w7 = <<0, 0>> /\ w8 = <<0, 0>>
        /\ w9 = <<96, 102>> /\ w10 = <<128, 1, s.asdu>> /\ w11 = <<162, 97>>
        /\ w12 = <<48, 95>> /\ w13 = Tagged(128, s.svId)
  OBVIOUS
<1>f. /\ HasLen(w1, 6) /\ HasLen(w2, 6) /\ HasLen(w3, 4) /\ HasLen(w4, 2) /\ HasLen(w5, 2)
      /\ HasLen(w6, 2) /\ HasLen(w7, 2) /\ HasLen(w8, 2) /\ HasLen(w9, 2) /\ HasLen(w10, 3)
      /\ HasLen(w11, 2) /\ HasLen(w12, 2) /\ HasLen(w13, n)
  BY <1>b, <1>c, <1>d, <1>e
<1>g. PICK b1, b2, b3, b4, b5, b6, b7, b8, b9, b10, b11, b12, b13 :
        /\ b1 = Bytes("eth-dst", w1) /\ Follows(b2, b1, "eth-src", w2)
        /\ Follows(b3, b2, "eth-vlan", w3) /\ Follows(b4, b3, "eth-type", w4)
        /\ Follows(b5, b4, "sv-appid", w5) /\ Follows(b6, b5, "sv-length", w6)
        /\ Follows(b7, b6, "sv-res1", w7) /\ Follows(b8, b7, "sv-res2", w8)
        /\ Follows(b9, b8, "savpdu", w9) /\ Follows(b10, b9, "noasdu", w10)
        /\ Follows(b11, b10, "seqasdu", w11) /\ Follows(b12, b11, "asdu", w12)
        /\ Follows(b13, b12, "svid", w13)
  BY Zenon DEF Follows
<1>h. Made(s) = b13
  BY <1>e, <1>g DEF Made, Follows
<1>1. Laid(b1, 6, {"eth-dst"}, n)
  <2>1. /\ b1 \in Seq(Cell) /\ Len(b1) = 6 /\ BytesOf(b1, "eth-dst") = From(0, 6)
        /\ \A g : g # "eth-dst" => BytesOf(b1, g) = {}
    <3>1. "eth-dst" \in Tags
      BY DEF Tags
    <3>2. PICK m \in Nat : m = 6
      OBVIOUS
    <3>3. w1 \in Seq(Int) /\ Len(w1) = m
      BY <1>f, <3>2 DEF HasLen
    <3>4. b1 \in Seq(Cell) /\ Len(b1) = m /\ BytesOf(b1, "eth-dst") = From(0, m)
          /\ \A g : g # "eth-dst" => BytesOf(b1, g) = {}
      BY <1>g, <3>1, <3>3, FirstIs
    <3> QED
      BY <3>2, <3>4
  <2>2. Place("eth-dst", n) = From(0, 6)
    BY DEF Place, From
  <2> QED
    BY <2>1, <2>2 DEF Laid
<1>2. Laid(b2, 12, {"eth-dst", "eth-src"}, n)
  <2>1. Fits(6, {"eth-dst"}, "eth-src", 6, 12, {"eth-dst", "eth-src"}, n)
    BY DEF Fits, Adds, From, Place, Tags
  <2> QED
    BY <1>f, <1>g, <1>1, <2>1, Behind
<1>3. Laid(b3, 16, {"eth-dst", "eth-src", "eth-vlan"}, n)
  <2>1. Fits(12, {"eth-dst", "eth-src"}, "eth-vlan", 4, 16, {"eth-dst", "eth-src",
        "eth-vlan"}, n)
    BY DEF Fits, Adds, From, Place, Tags
  <2> QED
    BY <1>f, <1>g, <1>2, <2>1, Behind
<1>4. Laid(b4, 18, {"eth-dst", "eth-src", "eth-vlan", "eth-type"}, n)
  <2>1. Fits(16, {"eth-dst", "eth-src", "eth-vlan"}, "eth-type", 2, 18, {"eth-dst",
        "eth-src", "eth-vlan", "eth-type"}, n)
    BY DEF Fits, Adds, From, Place, Tags
  <2> QED
    BY <1>f, <1>g, <1>3, <2>1, Behind
<1>5. Laid(b5, 20, {"eth-dst", "eth-src", "eth-vlan", "eth-type", "sv-appid"}, n)
  <2>1. Fits(18, {"eth-dst", "eth-src", "eth-vlan", "eth-type"}, "sv-appid", 2, 20,
        {"eth-dst", "eth-src", "eth-vlan", "eth-type", "sv-appid"}, n)
    BY DEF Fits, Adds, From, Place, Tags
  <2> QED
    BY <1>f, <1>g, <1>4, <2>1, Behind
<1>6. Laid(b6, 22, {"eth-dst", "eth-src", "eth-vlan", "eth-type", "sv-appid", "sv-length"},
      n)
  <2>1. Fits(20, {"eth-dst", "eth-src", "eth-vlan", "eth-type", "sv-appid"}, "sv-length", 2,
        22, {"eth-dst", "eth-src", "eth-vlan", "eth-type", "sv-appid", "sv-length"}, n)
    BY DEF Fits, Adds, From, Place, Tags
  <2> QED
    BY <1>f, <1>g, <1>5, <2>1, Behind
<1>7. Laid(b7, 24, {"eth-dst", "eth-src", "eth-vlan", "eth-type", "sv-appid", "sv-length",
      "sv-res1"}, n)
  <2>1. Fits(22, {"eth-dst", "eth-src", "eth-vlan", "eth-type", "sv-appid", "sv-length"},
        "sv-res1", 2, 24, {"eth-dst", "eth-src", "eth-vlan", "eth-type", "sv-appid",
        "sv-length", "sv-res1"}, n)
    BY DEF Fits, Adds, From, Place, Tags
  <2> QED
    BY <1>f, <1>g, <1>6, <2>1, Behind
<1>8. Laid(b8, 26, {"eth-dst", "eth-src", "eth-vlan", "eth-type", "sv-appid", "sv-length",
      "sv-res1", "sv-res2"}, n)
  <2>1. Fits(24, {"eth-dst", "eth-src", "eth-vlan", "eth-type", "sv-appid", "sv-length",
        "sv-res1"}, "sv-res2", 2, 26, {"eth-dst", "eth-src", "eth-vlan", "eth-type",
        "sv-appid", "sv-length", "sv-res1", "sv-res2"}, n)
    BY DEF Fits, Adds, From, Place, Tags
  <2> QED
    BY <1>f, <1>g, <1>7, <2>1, Behind
<1>9. Laid(b9, 28, {"eth-dst", "eth-src", "eth-vlan", "eth-type", "sv-appid", "sv-length",
      "sv-res1", "sv-res2", "savpdu"}, n)
  <2>1. Fits(26, {"eth-dst", "eth-src", "eth-vlan", "eth-type", "sv-appid", "sv-length",
        "sv-res1", "sv-res2"}, "savpdu", 2, 28, {"eth-dst", "eth-src", "eth-vlan",
        "eth-type", "sv-appid", "sv-length", "sv-res1", "sv-res2", "savpdu"}, n)
    BY DEF Fits, Adds, From, Place, Tags
  <2> QED
    BY <1>f, <1>g, <1>8, <2>1, Behind
<1>10. Laid(b10, 31, {"eth-dst", "eth-src", "eth-vlan", "eth-type", "sv-appid", "sv-length",
      "sv-res1", "sv-res2", "savpdu", "noasdu"}, n)
  <2>1. Fits(28, {"eth-dst", "eth-src", "eth-vlan", "eth-type", "sv-appid", "sv-length",
        "sv-res1", "sv-res2", "savpdu"}, "noasdu", 3, 31, {"eth-dst", "eth-src", "eth-vlan",
        "eth-type", "sv-appid", "sv-length", "sv-res1", "sv-res2", "savpdu", "noasdu"}, n)
    BY DEF Fits, Adds, From, Place, Tags
  <2> QED
    BY <1>f, <1>g, <1>9, <2>1, Behind
<1>11. Laid(b11, 33, {"eth-dst", "eth-src", "eth-vlan", "eth-type", "sv-appid", "sv-length",
      "sv-res1", "sv-res2", "savpdu", "noasdu", "seqasdu"}, n)
  <2>1. Fits(31, {"eth-dst", "eth-src", "eth-vlan", "eth-type", "sv-appid", "sv-length",
        "sv-res1", "sv-res2", "savpdu", "noasdu"}, "seqasdu", 2, 33, {"eth-dst", "eth-src",
        "eth-vlan", "eth-type", "sv-appid", "sv-length", "sv-res1", "sv-res2", "savpdu",
        "noasdu", "seqasdu"}, n)
    BY DEF Fits, Adds, From, Place, Tags
  <2> QED
    BY <1>f, <1>g, <1>10, <2>1, Behind
<1>12. Laid(b12, 35, {"eth-dst", "eth-src", "eth-vlan", "eth-type", "sv-appid", "sv-length",
      "sv-res1", "sv-res2", "savpdu", "noasdu", "seqasdu", "asdu"}, n)
  <2>1. Fits(33, {"eth-dst", "eth-src", "eth-vlan", "eth-type", "sv-appid", "sv-length",
        "sv-res1", "sv-res2", "savpdu", "noasdu", "seqasdu"}, "asdu", 2, 35, {"eth-dst",
        "eth-src", "eth-vlan", "eth-type", "sv-appid", "sv-length", "sv-res1", "sv-res2",
        "savpdu", "noasdu", "seqasdu", "asdu"}, n)
    BY DEF Fits, Adds, From, Place, Tags
  <2> QED
    BY <1>f, <1>g, <1>11, <2>1, Behind
<1>13. Laid(b13, 35 + n, {"eth-dst", "eth-src", "eth-vlan", "eth-type", "sv-appid",
      "sv-length", "sv-res1", "sv-res2", "savpdu", "noasdu", "seqasdu", "asdu", "svid"}, n)
  <2>1. Fits(35, {"eth-dst", "eth-src", "eth-vlan", "eth-type", "sv-appid", "sv-length",
        "sv-res1", "sv-res2", "savpdu", "noasdu", "seqasdu", "asdu"}, "svid", n, 35 + n,
        {"eth-dst", "eth-src", "eth-vlan", "eth-type", "sv-appid", "sv-length", "sv-res1",
        "sv-res2", "savpdu", "noasdu", "seqasdu", "asdu", "svid"}, n)
    BY <1>a DEF Fits, Adds, From, Place, Tags
  <2> QED
    BY <1>f, <1>g, <1>12, <2>1, Behind
<1> QED
  BY <1>h, <1>13 DEF Tags, n

\* Where the tree says a field of the first ASDU is, or one before it.
LEMMA SpanFrom ==
  ASSUME NEW at \in Nat, NEW len \in Nat, NEW e, Adds(at, len, e)
  PROVE  Positions(Span(at, len)) = From(at, e)
<1>1. Positions(Span(at, len)) = at..(at + len - 1)
  BY SpanIs DEF Positions
<1> QED
  BY <1>1 DEF Adds, From

LEMMA SpansAre ==
  ASSUME NEW sh, ShapeIs(sh), NEW n, n = 2 + sh.sv
  PROVE  /\ \A field \in DOMAIN Header \ {"ethernet"} :
              field \in Tags /\ Positions(Header[field]) = Place(field, n)
         /\ \A field \in DOMAIN InAsdu(sh, 0) : field \in Tags => field = "svid"
         /\ Positions(InAsdu(sh, 0)["svid"]) = Place("svid", n)
<1>1. sh.sv \in Nat /\ n \in Nat
  BY DEF ShapeIs
<1>2. AsduAt(sh, 0) = 33
  <2>1. AsduAt(sh, 0) = 33 + 0 * AsduSize(sh) /\ AsduSize(sh) \in Nat
    BY SizesAre
  <2> QED
    BY <2>1
<1>3. /\ DOMAIN Header = {"ethernet", "eth-dst", "eth-src", "eth-vlan", "eth-type", "sv-appid",
                          "sv-length", "sv-res1", "sv-res2", "noasdu"}
      /\ DOMAIN InAsdu(sh, 0) = {"svid", "smpcnt", "confrev", "smpsynch", "seqdata"}
  BY DEF Header, InAsdu
<1>4. Positions(InAsdu(sh, 0)["svid"]) = Place("svid", n)
  <2>1. InAsdu(sh, 0)["svid"] = Span(33 + 2, n)
    BY <1>2 DEF InAsdu
  <2>2. InAsdu(sh, 0)["svid"].at = 35 /\ InAsdu(sh, 0)["svid"].len = n
    BY <2>1, SpanIs
  <2> QED
    BY <1>1, <2>2 DEF Positions, Place
<1>5. /\ Header["eth-dst"] = Span(0, 6) /\ Header["eth-src"] = Span(6, 6)
      /\ Header["eth-vlan"] = Span(12, 4) /\ Header["eth-type"] = Span(16, 2)
      /\ Header["sv-appid"] = Span(18, 2) /\ Header["sv-length"] = Span(20, 2)
      /\ Header["sv-res1"] = Span(22, 2) /\ Header["sv-res2"] = Span(24, 2)
      /\ Header["noasdu"] = Span(28, 3)
  BY DEF Header
<1>6. /\ Adds(0, 6, 6) /\ Adds(6, 6, 12)
      /\ Adds(12, 4, 16) /\ Adds(16, 2, 18)
      /\ Adds(18, 2, 20) /\ Adds(20, 2, 22)
      /\ Adds(22, 2, 24) /\ Adds(24, 2, 26)
      /\ Adds(28, 3, 31)
  BY DEF Adds
<1>7. /\ Positions(Span(0, 6)) = From(0, 6) /\ Positions(Span(6, 6)) = From(6, 12)
      /\ Positions(Span(12, 4)) = From(12, 16) /\ Positions(Span(16, 2)) = From(16, 18)
      /\ Positions(Span(18, 2)) = From(18, 20) /\ Positions(Span(20, 2)) = From(20, 22)
      /\ Positions(Span(22, 2)) = From(22, 24) /\ Positions(Span(24, 2)) = From(24, 26)
      /\ Positions(Span(28, 3)) = From(28, 31)
  BY <1>6, SpanFrom
<1>8. /\ Place("eth-dst", n) = From(0, 6) /\ Place("eth-src", n) = From(6, 12)
      /\ Place("eth-vlan", n) = From(12, 16) /\ Place("eth-type", n) = From(16, 18)
      /\ Place("sv-appid", n) = From(18, 20) /\ Place("sv-length", n) = From(20, 22)
      /\ Place("sv-res1", n) = From(22, 24) /\ Place("sv-res2", n) = From(24, 26)
      /\ Place("noasdu", n) = From(28, 31)
  BY DEF Place, From
<1>9. \A field \in DOMAIN Header \ {"ethernet"} : Positions(Header[field]) = Place(field, n)
  <2> HIDE DEF Header
  <2> QED
    BY <1>3, <1>5, <1>7, <1>8
<1>10. /\ \A field \in DOMAIN Header \ {"ethernet"} : field \in Tags
       /\ \A field \in DOMAIN InAsdu(sh, 0) : field \in Tags => field = "svid"
  BY <1>3 DEF Tags
<1> QED
  BY <1>4, <1>9, <1>10


\* The dump is made up of the stream inspected now.
LEMMA MadeUpOf ==
  ASSUME Viewing, Drawable(tree), hex.kind = "calc"
  PROVE  hex.frame = Frame(active.svId, active.list, config, config.asdu)
<1>1. active # NoMu /\ hex = HexOf(active, config, view.real)
  BY EffectiveIs DEF Viewing, DrawnIs
<1>2. CASE view.real # NoFrame
  <2>1. hex = [kind |-> "real", frame |-> view.real]
    BY <1>1, <1>2 DEF HexOf
  <2> QED
    BY <2>1
<1>3. CASE view.real = NoFrame
  <2>1. hex = [kind |-> "calc", frame |-> Frame(active.svId, active.list, config, config.asdu)]
    BY <1>1, <1>3, Zenon DEF HexOf
  <2> DEFINE f == Frame(active.svId, active.list, config, config.asdu)
  <2> HIDE DEF f
  <2>2. hex = [kind |-> "calc", frame |-> f]
    BY <2>1 DEF f
  <2>3. hex.frame = f
    BY <2>2
  <2> QED
    BY <2>3 DEF f
<1> QED
  BY <1>2, <1>3

\* A dump with its fields at their places is shown as the tree says.
LEMMA LaidIsShown ==
  ASSUME NEW sh, ShapeIs(sh), NEW n, n = 2 + sh.sv, NEW b, Laid(b, 35 + n, Tags, n)
  PROVE  ShownAt(Header, b) /\ ShownAt(InAsdu(sh, 0), b)
<1>1. n \in Nat /\ Len(b) = 35 + n /\ b \in Seq(Cell)
  BY DEF ShapeIs, Laid
<1>2. \A g : BytesOf(b, g) = IF g \in Tags THEN Place(g, n) ELSE {}
  BY DEF Laid
<1>3. ASSUME NEW g \in Tags PROVE Place(g, n) \cap (0..(Len(b) - 1)) = Place(g, n)
  <2>1. Place(g, n) \subseteq 0..(35 + n - 1)
    <3>1. ASSUME g # "svid" PROVE Place(g, n) \subseteq 0..34
      BY <3>1 DEF Place, Tags
    <3>2. ASSUME g = "svid" PROVE Place(g, n) = 35..(35 + n - 1)
      BY <3>2 DEF Place
    <3>3. \A i : i \in 0..34 \/ i \in 35..(35 + n - 1) => i \in 0..(35 + n - 1)
      <4>1. n \in Nat
        BY <1>1
      <4>2. ASSUME NEW i \in 0..34 PROVE i \in 0..(35 + n - 1)
        BY ONLY <4>1
      <4>3. ASSUME NEW i \in 35..(35 + n - 1) PROVE i \in 0..(35 + n - 1)
        BY ONLY <4>1
      <4> QED
        BY <4>2, <4>3
    <3> QED
      BY <3>1, <3>2, <3>3
  <2>2. 0..(Len(b) - 1) = 0..(35 + n - 1)
    BY <1>1
  <2> QED
    BY <2>1, <2>2
<1>4. /\ \A field \in DOMAIN Header \ {"ethernet"} :
           field \in Tags /\ Positions(Header[field]) = Place(field, n)
      /\ \A field \in DOMAIN InAsdu(sh, 0) : field \in Tags => field = "svid"
      /\ Positions(InAsdu(sh, 0)["svid"]) = Place("svid", n)
  BY SpansAre
<1>5. ASSUME NEW spans, NEW g, g \in Tags, Positions(spans[g]) = Place(g, n)
      PROVE  Highlighted(spans[g], b) = BytesOf(b, g)
  BY <1>2, <1>3, <1>5 DEF Highlighted
<1>6. ShownAt(Header, b)
  <2> DEFINE H == Header
  <2>1. \A field \in DOMAIN H \ {"ethernet"} :
          field \in Tags /\ Positions(H[field]) = Place(field, n)
    BY <1>4
  <2> HIDE DEF H
  <2>2. ShownAt(H, b)
    BY <1>5, <2>1 DEF ShownAt
  <2> QED
    BY <2>2 DEF H
<1>7. ShownAt(InAsdu(sh, 0), b)
  <2> DEFINE F == InAsdu(sh, 0)
  <2>1. /\ \A field \in DOMAIN F : field \in Tags => field = "svid"
        /\ Positions(F["svid"]) = Place("svid", n)
    BY <1>4
  <2> HIDE DEF F
  <2>2. "svid" \in Tags
    BY DEF Tags
  <2>3. ASSUME NEW field \in DOMAIN F \ {"ethernet"}, BytesOf(b, field) # {}
        PROVE  Highlighted(F[field], b) = BytesOf(b, field)
    <3>1. field \in Tags
      BY <1>2, <2>3
    <3>2. field = "svid"
      BY <2>1, <3>1
    <3> QED
      BY <1>5, <2>1, <2>2, <3>2
  <2>4. ShownAt(F, b)
    BY <2>3 DEF ShownAt
  <2> QED
    BY <2>4 DEF F
<1> QED
  BY <1>6, <1>7

\* In the dump made up of a stream every byte of a field is where the tree says
\* it is, whatever the name, the VLAN, the priority and the number of ASDUs
\* (generateHexDump() against highlightBytesForNode()).
THEOREM DumpStaysAligned == ViewSpec => []MadeUpBytesAligned
<1>1. Viewing => MadeUpBytesAligned
  <2> SUFFICES ASSUME Viewing, Drawable(tree), hex.kind = "calc"
               PROVE  FieldsShownAt(HexBytes(hex))
    BY DEF MadeUpBytesAligned
  <2> DEFINE s == Stream(hex.frame)
             sh == Shape(tree)
             n == 2 + Len(s.svId)
  <2>1. /\ Drew(tree, active, config) /\ Shows(active, pubs) /\ ConfigIs(config)
        /\ StreamsAre(pubs) /\ active # NoMu
    BY EffectiveIs DEF Viewing, DrawnIs, TreeIs, PanelIs
  <2>2. hex.frame = Frame(active.svId, active.list, config, config.asdu)
    BY MadeUpOf
  <2>3. /\ s.svId = active.svId /\ s.prio = Effective(config.prio)
        /\ s.vlan = config.vlan /\ s.asdu = config.asdu
    BY <2>2 DEF Stream, Frame
  <2>4. /\ s.svId \in Seq(Nat) /\ s.vlan \in Nat /\ s.asdu \in Nat
    BY <2>1, <2>3, ChoicesAssumption DEF Shows, ConfigIs
  <2>5. s.prio \in Nat
    BY <2>1, <2>3, ChoicesAssumption DEF ConfigIs, Prios, Effective
  <2>6. ShapeIs(sh) /\ sh.sv = Len(s.svId)
    <3>1. sh.sv = Len(active.svId) /\ sh.sv \in Nat
      BY <2>1 DEF Shape, Shows
    <3>2. sh.chs \in Nat
      BY <2>1, ListingIs DEF Shape, Drew, Shows, StreamsAre
    <3>3. sh.asdu \in Nat
      BY <2>1, ChoicesAssumption DEF Shape, Drew, ConfigIs
    <3> QED
      BY <2>3, <3>1, <3>2, <3>3 DEF ShapeIs
  <2>7. HexBytes(hex) = Calculated(s)
    BY DEF HexBytes
  <2> HIDE DEF s, sh
  <2>8. Laid(Made(s), 35 + n, Tags, n)
    BY <2>4, <2>5, MadeLaid
  <2>9. Laid(Calculated(s), 35 + n, Tags, n)
    BY <2>8, MadeUp
  <2>10. n = 2 + sh.sv
    BY <2>6
  <2> HIDE DEF n
  <2>11. ShownAt(Header, Calculated(s)) /\ ShownAt(InAsdu(sh, 0), Calculated(s))
    BY <2>6, <2>9, <2>10, LaidIsShown
  <2> QED
    BY <2>7, <2>11 DEF FieldsShownAt, sh
<1> QED
  BY <1>1, AlwaysViewing, PTL

\* Induction over the natural numbers, as a set that holds each.
LEMMA NatByOne ==
  ASSUME NEW S, 0 \in S, \A n \in Nat : n \in S => n + 1 \in S
  PROVE  \A n \in Nat : n \in S
<1> DEFINE R == OpToRel(<, Nat)
<1> HIDE DEF R
<1> SUFFICES ASSUME Nat \ S # {} PROVE FALSE
  OBVIOUS
<1>1. PICK x \in Nat \ S : \A y \in Nat \ S : ~(<<y, x>> \in R)
  BY WFMin, NatLessThanWellFounded DEF R
<1>2. x - 1 \in Nat /\ x - 1 < x
  BY <1>1
<1>3. <<x - 1, x>> \in R
  BY <1>1, <1>2 DEF OpToRel, R
<1>4. x - 1 \in S
  BY <1>1, <1>2, <1>3
<1> QED
  BY <1>1, <1>2, <1>4


-----------------------------------------------------------------------------
(* The real frame: which numbers lie from which byte on.                   *)
Labels == Tags \cup {"smpcnt", "confrev", "smpsynch", "seqdata"}
Marked == [f : Labels, v : Int]
Sized(b, n) == b \in Seq(Marked) /\ n \in Nat /\ Len(b) = n
Holds(b, k, values, m) ==
  /\ k \in Nat /\ HasLen(values, m) /\ k + m <= Len(b)
  /\ \A i \in 1..m : At(b, k + i - 1) = values[i]

LEMMA AtIs ==
  ASSUME NEW b, NEW n, Sized(b, n), NEW k \in Nat
  PROVE  /\ k < n => At(b, k) = b[k + 1].v
         /\ At(b, k) \in Int
<1>1. b \in Seq(Marked) /\ n \in Nat /\ Len(b) = n
  BY DEF Sized
<1>2. ASSUME k < n PROVE b[k + 1] \in Marked
  <2>1. k + 1 \in 1..Len(b)
    BY <1>1, <1>2
  <2> QED
    BY <1>1, <2>1
<1>3. k < n => b[k + 1].v \in Int
  BY <1>2 DEF Marked
<1> QED
  BY <1>1, <1>3 DEF At

LEMMA PieceHolds ==
  ASSUME NEW field \in Labels, NEW values, NEW m, HasLen(values, m),
         NEW b, b = Bytes(field, values)
  PROVE  Sized(b, m) /\ Holds(b, 0, values, m)
<1>0. PICK k : k = 0
  OBVIOUS
<1>1. m \in Nat /\ Len(values) = m /\ DOMAIN values = 1..m /\ \A i \in 1..m : values[i] \in Int
  BY DEF HasLen
<1>2. b = [i \in 1..m |-> [f |-> field, v |-> values[i]]]
  BY <1>1 DEF Bytes
<1>3. \A i \in 1..m : [f |-> field, v |-> values[i]] \in Marked
  BY <1>1 DEF Marked
<1>4. \A i \in 1..m : b[i].v = values[i]
  BY <1>2
<1>5. b \in Seq(Marked) /\ Len(b) = m
  BY <1>1, <1>2, <1>3
<1>6. Sized(b, m)
  BY <1>1, <1>5 DEF Sized
<1>7. ASSUME NEW i \in 1..m PROVE At(b, k + i - 1) = values[i]
  <2> DEFINE j == k + i - 1
  <2>1. j \in Nat /\ j < m /\ j + 1 = i
    BY <1>0, <1>1
  <2> HIDE DEF j
  <2>2. At(b, j) = b[j + 1].v
    BY <1>6, <2>1, AtIs
  <2>3. At(b, j) = values[i]
    BY <1>4, <2>1, <2>2
  <2> QED
    BY <2>3 DEF j
<1>8. k \in Nat /\ k + m <= Len(b)
  BY <1>0, <1>1, <1>5
<1>9. Holds(b, k, values, m)
  BY <1>7, <1>8 DEF Holds
<1> QED
  BY <1>0, <1>6, <1>9

LEMMA JoinedSized ==
  ASSUME NEW a, NEW n, Sized(a, n), NEW b, NEW m, Sized(b, m), NEW e, e = n + m,
         NEW r, r = Joined(a, b)
  PROVE  /\ Sized(r, e)
         /\ \A k \in 1..n : r[k] = a[k]
         /\ \A k \in 1..m : r[n + k] = b[k]
<1>1. PICK V : V = Marked
  OBVIOUS
<1>2. a \in Seq(V) /\ b \in Seq(V) /\ Len(a) = n /\ Len(b) = m /\ n \in Nat /\ m \in Nat
  BY <1>1 DEF Sized
<1>3. Both(a, b, r, V)
  BY <1>2, BothJoined
<1>4. /\ r \in Seq(Marked) /\ Len(r) = e /\ e \in Nat
      /\ \A k \in 1..n : r[k] = a[k]
      /\ \A k \in 1..m : r[n + k] = b[k]
  BY <1>1, <1>2, <1>3 DEF Both
<1> QED
  BY <1>4 DEF Sized

\* A part that is in front of others stays where it is, one behind moves.
LEMMA HoldsLeft ==
  ASSUME NEW a, NEW n, Sized(a, n), NEW b, NEW m, Sized(b, m), NEW r, r = Joined(a, b),
         NEW k, NEW values, NEW l, Holds(a, k, values, l)
  PROVE  Holds(r, k, values, l)
<1>1. PICK e : e = n + m
  OBVIOUS
<1>2. Sized(r, e) /\ \A j \in 1..n : r[j] = a[j]
  BY <1>1, JoinedSized
<1>3. /\ n \in Nat /\ m \in Nat /\ Len(a) = n /\ Len(r) = e /\ k \in Nat /\ l \in Nat
      /\ k + l <= n
  BY <1>2 DEF Sized, Holds, HasLen
<1>4. ASSUME NEW i \in 1..l PROVE At(r, k + i - 1) = values[i]
  <2> DEFINE j == k + i - 1
  <2>1. j \in Nat /\ j < n /\ j < e /\ j + 1 \in 1..n
    BY <1>1, <1>3
  <2>2. At(a, j) = values[i]
    BY DEF Holds
  <2> HIDE DEF j
  <2>3. At(a, j) = a[j + 1].v /\ At(r, j) = r[j + 1].v
    BY <1>2, <2>1, AtIs
  <2>4. At(r, j) = values[i]
    BY <1>2, <2>1, <2>2, <2>3
  <2> QED
    BY <2>4 DEF j
<1> QED
  BY <1>1, <1>3, <1>4 DEF Holds

LEMMA HoldsRight ==
  ASSUME NEW a, NEW n, Sized(a, n), NEW b, NEW m, Sized(b, m), NEW r, r = Joined(a, b),
         NEW k, NEW values, NEW l, Holds(b, k, values, l), NEW p, p = n + k
  PROVE  Holds(r, p, values, l)
<1>1. PICK e : e = n + m
  OBVIOUS
<1>2. Sized(r, e) /\ \A j \in 1..m : r[n + j] = b[j]
  BY <1>1, JoinedSized
<1>3. /\ n \in Nat /\ m \in Nat /\ Len(b) = m /\ Len(r) = e /\ k \in Nat /\ l \in Nat
      /\ k + l <= m
  BY <1>2 DEF Sized, Holds, HasLen
<1>4. ASSUME NEW i \in 1..l PROVE At(r, p + i - 1) = values[i]
  <2> DEFINE j == k + i - 1
             q == p + i - 1
  <2>1. j \in Nat /\ j < m /\ j + 1 \in 1..m /\ q \in Nat /\ q < e /\ q + 1 = n + (j + 1)
    BY <1>1, <1>3
  <2>2. At(b, j) = values[i]
    BY DEF Holds
  <2> HIDE DEF j, q
  <2>3. At(b, j) = b[j + 1].v /\ At(r, q) = r[q + 1].v
    BY <1>2, <2>1, AtIs
  <2>4. r[q + 1] = b[j + 1]
    BY <1>2, <2>1
  <2>5. At(r, q) = values[i]
    BY <2>2, <2>3, <2>4
  <2> QED
    BY <2>5 DEF q
<1> QED
  BY <1>1, <1>3, <1>4 DEF Holds

LEMMA PairIs ==
  ASSUME NEW a, NEW n, HasLen(a, n), NEW b, NEW m, HasLen(b, m), NEW e, e = n + m,
         NEW r, r = Joined(a, b)
  PROVE  /\ HasLen(r, e)
         /\ \A k \in 1..n : r[k] = a[k]
         /\ \A k \in 1..m : r[n + k] = b[k]
<1>1. PICK V : V = Int
  OBVIOUS
<1>2. a \in Seq(V) /\ b \in Seq(V) /\ Len(a) = n /\ Len(b) = m /\ n \in Nat /\ m \in Nat
  BY <1>1 DEF HasLen
<1>3. Both(a, b, r, V)
  BY <1>2, BothJoined
<1>4. /\ r \in Seq(Int) /\ Len(r) = e /\ e \in Nat
      /\ \A k \in 1..n : r[k] = a[k]
      /\ \A k \in 1..m : r[n + k] = b[k]
  BY <1>1, <1>2, <1>3 DEF Both
<1> QED
  BY <1>4 DEF HasLen

\* The two halves of the numbers that lie somewhere.
LEMMA HoldsHalves ==
  ASSUME NEW a, NEW n, HasLen(a, n), NEW b, NEW m, HasLen(b, m),
         NEW r, r = Joined(a, b), NEW c, NEW z, Sized(c, z), NEW k, NEW e, e = n + m, Holds(c, k, r, e),
         NEW p, p = k + n
  PROVE  Holds(c, k, a, n) /\ Holds(c, p, b, m)
<1>1. /\ \A i \in 1..n : r[i] = a[i]
      /\ \A i \in 1..m : r[n + i] = b[i]
  BY PairIs
<1>2. k \in Nat /\ n \in Nat /\ m \in Nat /\ k + e <= Len(c)
  BY DEF Holds, HasLen
<1>2a. PICK d : d = Len(c)
  OBVIOUS
<1>2b. d \in Nat
  BY <1>2a DEF Sized
<1>3. ASSUME NEW i \in 1..n PROVE At(c, k + i - 1) = a[i]
  <2>1. i \in 1..e
    BY <1>2
  <2> QED
    BY <1>1, <2>1 DEF Holds
<1>4. ASSUME NEW i \in 1..m PROVE At(c, p + i - 1) = b[i]
  <2>1. n + i \in 1..e /\ k + (n + i) - 1 = p + i - 1
    BY <1>2
  <2>2. At(c, k + (n + i) - 1) = r[n + i]
    BY <2>1 DEF Holds
  <2> QED
    BY <1>1, <2>1, <2>2
<1>5. k + n <= d /\ p + m <= d /\ p \in Nat
  BY <1>2, <1>2a, <1>2b
<1> QED
  BY <1>2, <1>2a, <1>3, <1>4, <1>5 DEF Holds

\* Numbers of one, two and four bytes, and what the parser makes of them.
Read2(x, y) == 256 * x + y
Read4(x, y, z, w) ==
  (IF x >= 128 THEN Read2(x, y) - 65536 ELSE Read2(x, y)) * 65536 + Read2(z, w)

LEMMA WordRead ==
  ASSUME NEW n \in Int
  PROVE  /\ HasLen(Word(n), 2)
         /\ 0 <= n /\ n < 65536 => Read2(Word(n)[1], Word(n)[2]) = n
         /\ Read2(Word(n)[1], Word(n)[2]) = n % 65536
         /\ Word(n)[1] \in 0..255 /\ Word(n)[2] \in 0..255
<1>1. Word(n)[1] = (n \div 256) % 256 /\ Word(n)[2] = n % 256
  BY DEF Word
<1>2. HasLen(Word(n), 2)
  BY WordIs DEF HasLen
<1>3. (n \div 256) % 256 \in 0..255 /\ n % 256 \in 0..255
  OBVIOUS
<1>4. 256 * ((n \div 256) % 256) + (n % 256) = n % 65536
  <2> DEFINE a == n \div 256
             b == n % 256
             c == a \div 256
             d == a % 256
  <2>1. /\ a \in Int /\ n = 256 * a + b /\ b \in Int /\ 0 <= b /\ b < 256
        /\ c \in Int /\ a = 256 * c + d /\ d \in Int /\ 0 <= d /\ d < 256
    BY SMT
  <2> HIDE DEF a, b, c, d
  <2>2. n = 65536 * c + (256 * d + b) /\ 0 <= 256 * d + b /\ 256 * d + b < 65536
    BY <2>1, SMT
  <2>3. n % 65536 = 256 * d + b
    BY <2>1, <2>2, SMT
  <2> QED
    BY <2>3 DEF a, b, d
<1>5. 0 <= n /\ n < 65536 => n % 65536 = n
  BY SMT
<1> QED
  BY <1>1, <1>2, <1>3, <1>4, <1>5 DEF Read2

\* A number of 32 bits, with its sign.
Signed(n) == n \in Int /\ -32768 <= n \div 65536 /\ n \div 65536 < 32768

LEMMA DWordRead ==
  ASSUME NEW n, Signed(n), NEW r, r = DWord(n)
  PROVE  HasLen(r, 4) /\ Read4(r[1], r[2], r[3], r[4]) = n
<1> DEFINE q == n \div 65536
           hi == Word(q)
           lo == Word(n)
<1>0. n \in Int /\ q \in Int /\ -32768 <= q /\ q < 32768
  BY SMT DEF Signed
<1>1. q \in Int /\ n = 65536 * q + (n % 65536) /\ -32768 <= q /\ q < 32768
  BY <1>0, SMT
<1>2. q % 65536 = IF q < 0 THEN q + 65536 ELSE q
  <2> HIDE DEF q
  <2> QED
    BY <1>1, SMT
<1>3. r = Joined(hi, lo)
  BY DEF DWord, Joined
<1> HIDE DEF q
<1>4. /\ HasLen(hi, 2) /\ hi[1] \in 0..255 /\ hi[2] \in 0..255
      /\ Read2(hi[1], hi[2]) = IF q < 0 THEN q + 65536 ELSE q
  <2>1. q \in Int
    BY <1>1
  <2>2. /\ HasLen(Word(q), 2) /\ Read2(Word(q)[1], Word(q)[2]) = q % 65536
        /\ Word(q)[1] \in 0..255 /\ Word(q)[2] \in 0..255
    BY <2>1, WordRead
  <2>3. PICK w : w = Word(q)
    OBVIOUS
  <2>4. Read2(w[1], w[2]) = IF q < 0 THEN q + 65536 ELSE q
    BY <1>2, <2>2, <2>3, SMT
  <2>5. HasLen(w, 2) /\ w[1] \in 0..255 /\ w[2] \in 0..255
    BY <2>2, <2>3, SMT
  <2>6. hi = w
    BY <2>3
  <2> HIDE DEF hi
  <2> QED
    BY <2>4, <2>5, <2>6, SMT
<1>5. HasLen(lo, 2) /\ Read2(lo[1], lo[2]) = n % 65536
  BY <1>0, WordRead
<1> HIDE DEF hi, lo
<1>6. /\ HasLen(r, 4)
      /\ \A k \in 1..2 : r[k] = hi[k]
      /\ \A k \in 1..2 : r[2 + k] = lo[k]
  BY <1>3, <1>4, <1>5, PairIs
<1>7. r[1] = hi[1] /\ r[2] = hi[2] /\ r[3] = lo[1] /\ r[4] = lo[2]
  BY <1>6
<1>8. hi[1] >= 128 <=> q < 0
  <2>1. /\ hi[1] \in Int /\ hi[2] \in Int /\ 0 <= hi[2] /\ hi[2] < 256
        /\ 256 * hi[1] + hi[2] = IF q < 0 THEN q + 65536 ELSE q
    BY <1>4 DEF Read2
  <2>2. PICK x, y : x = hi[1] /\ y = hi[2]
    OBVIOUS
  <2>3. x >= 128 <=> q < 0
    BY <1>1, <2>1, <2>2, SMT
  <2> QED
    BY <2>2, <2>3
<1>9. Read4(r[1], r[2], r[3], r[4]) = q * 65536 + (n % 65536)
  <2>1. Read4(r[1], r[2], r[3], r[4]) =
          (IF hi[1] >= 128 THEN Read2(hi[1], hi[2]) - 65536 ELSE Read2(hi[1], hi[2])) * 65536
          + Read2(lo[1], lo[2])
    BY <1>7 DEF Read4
  <2>2. (IF hi[1] >= 128 THEN Read2(hi[1], hi[2]) - 65536 ELSE Read2(hi[1], hi[2])) = q
    BY <1>1, <1>4, <1>8
  <2> QED
    BY <1>5, <2>1, <2>2
<1> QED
  BY <1>1, <1>6, <1>9

\* A field: its tag, its length, its value.
LEMMA TaggedIs ==
  ASSUME NEW tag \in Int, NEW values, NEW m, HasLen(values, m), NEW e, e = 2 + m,
         NEW r, r = Tagged(tag, values), NEW t, t = <<tag, m>>
  PROVE  HasLen(r, e) /\ r = Joined(t, values) /\ HasLen(t, 2)
<1>1. m \in Nat /\ Len(values) = m
  BY DEF HasLen
<1>2. HasLen(t, 2)
  BY <1>1 DEF HasLen
<1>3. r = Joined(t, values)
  BY <1>1 DEF Tagged, Joined
<1> QED
  BY <1>2, <1>3, PairIs

LEMMA OpeningIs ==
  ASSUME NEW tag \in Int, NEW content, NEW m, Sized(content, m), NEW r, r = Opening(tag, content)
  PROVE  /\ HasLen(r, 4) /\ r[1] = tag /\ r[2] = 130
         /\ m < 65536 => Read2(r[3], r[4]) = m
<1> DEFINE t == <<tag, 130>>
           w == Word(m)
<1>1. m \in Nat /\ Len(content) = m
  BY DEF Sized
<1>2. HasLen(t, 2) /\ t[1] = tag /\ t[2] = 130
  BY DEF HasLen
<1>3. r = Joined(t, w)
  BY <1>1 DEF Opening, Joined
<1>4. HasLen(w, 2) /\ (m < 65536 => Read2(w[1], w[2]) = m)
  BY <1>1, WordRead
<1> HIDE DEF t, w
<1>5. /\ HasLen(r, 4)
      /\ \A k \in 1..2 : r[k] = t[k]
      /\ \A k \in 1..2 : r[2 + k] = w[k]
  BY <1>2, <1>3, <1>4, PairIs
<1>6. r[1] = t[1] /\ r[2] = t[2] /\ r[3] = w[1] /\ r[4] = w[2]
  BY <1>5
<1> QED
  BY <1>2, <1>4, <1>5, <1>6

\* The samples, eight bytes each.
LEMMA EightIs ==
  ASSUME NEW i, NEW j, NEW k,
         i \in Int /\ j \in Int /\ 1 <= j /\ j <= 8 /\ k = 8 * (i - 1) + j
  PROVE  (k + 7) \div 8 = i /\ ((k - 1) % 8) + 1 = j
<1>1. k + 7 = 8 * i + (j - 1) /\ k - 1 = 8 * (i - 1) + (j - 1) /\ 0 <= j - 1 /\ j - 1 < 8
  BY SMT
<1>2. (k + 7) \div 8 = i
  BY <1>1, SMT
<1>3. (k - 1) % 8 = j - 1
  BY <1>1, SMT
<1> QED
  BY <1>2, <1>3

LEMMA QuotedIs ==
  ASSUME NEW n, Signed(n), NEW r, r = Quoted(n)
  PROVE  HasLen(r, 8) /\ Read4(r[1], r[2], r[3], r[4]) = n
<1> DEFINE d == DWord(n)
           q == <<0, 0, 0, 0>>
<1>1. HasLen(d, 4) /\ Read4(d[1], d[2], d[3], d[4]) = n
  BY DWordRead
<1>2. HasLen(q, 4)
  BY DEF HasLen
<1>3. r = Joined(d, q)
  BY DEF Quoted, Joined
<1> HIDE DEF d, q
<1>4. HasLen(r, 8) /\ \A k \in 1..4 : r[k] = d[k]
  BY <1>1, <1>2, <1>3, PairIs
<1>5. r[1] = d[1] /\ r[2] = d[2] /\ r[3] = d[3] /\ r[4] = d[4]
  BY <1>4
<1> QED
  BY <1>1, <1>4, <1>5

Samples(values, c) == [k \in 1..(8 * c) |-> Quoted(values[(k + 7) \div 8])[((k - 1) % 8) + 1]]

Quotes(values, c, s) ==
  \A i \in 1..c : Read4(values[8 * (i - 1) + 1], values[8 * (i - 1) + 2],
                        values[8 * (i - 1) + 3], values[8 * (i - 1) + 4]) = s[i]

LEMMA SamplesAre ==
  ASSUME NEW s, NEW c \in Nat, \A i \in 1..c : Signed(s[i]), NEW r, r = Samples(s, c)
  PROVE  /\ HasLen(r, 8 * c)
         /\ Quotes(r, c, s)
<1> DEFINE m == 8 * c
<1>1. m \in Nat
  BY SMT
<1>2. ASSUME NEW k \in 1..m
      PROVE  (k + 7) \div 8 \in 1..c /\ ((k - 1) % 8) + 1 \in 1..8
  <2>1. k \in Int /\ 1 <= k /\ k <= 8 * c
    BY <1>1
  <2> DEFINE i == (k + 7) \div 8
             a == (k + 7) % 8
             b == (k - 1) % 8
  <2>2. /\ i \in Int /\ k + 7 = 8 * i + a /\ a \in Int /\ 0 <= a /\ a < 8
        /\ b \in Int /\ 0 <= b /\ b < 8
    BY <2>1, SMT
  <2> HIDE DEF i, a, b
  <2>3. i \in 1..c /\ b + 1 \in 1..8
    BY <2>1, <2>2, SMT
  <2> QED
    BY <2>3 DEF i, b
<1>3. \A k \in 1..m : r[k] = Quoted(s[(k + 7) \div 8])[((k - 1) % 8) + 1]
  BY DEF Samples
<1>4. r = [k \in 1..m |-> r[k]]
  BY DEF Samples
<1> HIDE DEF m
<1>5. ASSUME NEW k \in 1..m PROVE r[k] \in Int
  <2> DEFINE i == (k + 7) \div 8
             j == ((k - 1) % 8) + 1
  <2>1. i \in 1..c /\ j \in 1..8 /\ r[k] = Quoted(s[i])[j]
    BY <1>2, <1>3
  <2> HIDE DEF i, j
  <2>2. HasLen(Quoted(s[i]), 8)
    BY <2>1, QuotedIs
  <2> QED
    BY <2>1, <2>2 DEF HasLen
<1>6. HasLen(r, m)
  BY <1>1, <1>4, <1>5 DEF HasLen
<1>7. ASSUME NEW i \in 1..c, NEW j \in 1..8, NEW k, k = 8 * (i - 1) + j
      PROVE  r[k] = Quoted(s[i])[j]
  <2>1. i \in Nat /\ k \in 1..m
    <3>1. i \in Int /\ 1 <= i /\ i <= c /\ j \in Int /\ 1 <= j /\ j <= 8
      BY <1>7
    <3>2. k \in Int /\ 1 <= k /\ k <= 8 * c /\ i \in Nat
      BY <1>7, <3>1, SMT
    <3> QED
      <4>1. m = 8 * c
        BY DEF m
      <4>2. m \in Int /\ k <= m
        BY <1>1, <3>2, <4>1
      <4>3. k \in Int /\ 1 <= k /\ i \in Nat
        BY <3>2
      <4>4. k \in 1..m
        BY <4>2, <4>3
      <4> QED
        BY <4>3, <4>4
  <2>2. (k + 7) \div 8 = i /\ ((k - 1) % 8) + 1 = j
    <3>1. i \in Int /\ j \in Int /\ 1 <= j /\ j <= 8 /\ k = 8 * (i - 1) + j
      BY <1>7, <2>1
    <3> QED
      BY ONLY <3>1, EightIs
  <2> QED
    BY <1>3, <2>1, <2>2
<1>8. ASSUME NEW i \in 1..c
      PROVE  Read4(r[8 * (i - 1) + 1], r[8 * (i - 1) + 2], r[8 * (i - 1) + 3],
                   r[8 * (i - 1) + 4]) = s[i]
  <2>1. /\ r[8 * (i - 1) + 1] = Quoted(s[i])[1] /\ r[8 * (i - 1) + 2] = Quoted(s[i])[2]
        /\ r[8 * (i - 1) + 3] = Quoted(s[i])[3] /\ r[8 * (i - 1) + 4] = Quoted(s[i])[4]
    BY <1>7
  <2>2. Signed(s[i])
    OBVIOUS
  <2> QED
    BY <2>1, <2>2, QuotedIs
<1> QED
  BY <1>6, <1>8 DEF m, Quotes

SeqDataOf(r, c, s) ==
  \E t, values : /\ r = Joined(t, values) /\ HasLen(t, 2) /\ t[1] = 135 /\ t[2] = 8 * c
                 /\ HasLen(values, 8 * c) /\ HasLen(r, 2 + 8 * c) /\ Quotes(values, c, s)

LEMMA SeqDataIs ==
  ASSUME NEW s, NEW c \in Nat, Len(s) = c, c < 16, \A i \in 1..c : Signed(s[i]),
         NEW r, r = SeqData(s)
  PROVE  SeqDataOf(r, c, s)
<1> DEFINE values == Samples(s, c)
           m == 8 * c
           a == <<135>>
           b == <<m>>
           t == Joined(a, b)
<1>1. HasLen(values, m) /\ Quotes(values, c, s)
  BY SamplesAre
<1>2. Len(values) = m /\ m < 128 /\ m \in Nat
  BY <1>1, SMT DEF HasLen
<1>3. r = Joined(t, values)
  <2>1. r = (IF Len(values) < 128 THEN <<135>> ELSE <<135, 129>>) \o <<Len(values)>> \o values
    BY DEF SeqData, Samples
  <2> HIDE DEF values, m
  <2>2. (IF Len(values) < 128 THEN <<135>> ELSE <<135, 129>>) = a
    BY <1>2
  <2> QED
    BY <1>2, <2>1, <2>2 DEF Joined
<1> HIDE DEF m, values
<1>4. HasLen(a, 1) /\ HasLen(b, 1) /\ a[1] = 135 /\ b[1] = m
  BY <1>2 DEF HasLen
<1> HIDE DEF a, b
<1>5. HasLen(t, 2) /\ t[1] = 135 /\ t[2] = m
  <2>0. PICK n, e : n = 1 /\ e = n + n
    OBVIOUS
  <2>a. HasLen(a, n) /\ HasLen(b, n)
    BY <1>4, <2>0
  <2>b. HasLen(t, e) /\ (\A k \in 1..n : t[k] = a[k]) /\ (\A k \in 1..n : t[n + k] = b[k])
    BY <2>0, <2>a, PairIs
  <2>c. e = 2
    BY <2>0
  <2>1. HasLen(t, 2) /\ (\A k \in 1..1 : t[k] = a[k]) /\ (\A k \in 1..1 : t[1 + k] = b[k])
    BY <2>0, <2>b, <2>c
  <2> QED
    BY <1>4, <2>1
<1> HIDE DEF t
<1>6. HasLen(r, 2 + m)
  BY <1>1, <1>3, <1>5, PairIs
<1> QED
  BY <1>1, <1>3, <1>5, <1>6 DEF m, SeqDataOf

\* What lies in a does so in r, at the same place or n bytes later.
Keeps(a, r) == \A k, values, l : Holds(a, k, values, l) => Holds(r, k, values, l)
Shifts(a, r, n) == \A k, values, l : Holds(a, k, values, l) => Holds(r, n + k, values, l)

LEMMA KeepsOn == ASSUME NEW a, NEW b, NEW c, Keeps(a, b), Keeps(b, c) PROVE Keeps(a, c)
BY Zenon DEF Keeps

LEMMA ShiftsOn ==
  ASSUME NEW a, NEW b, NEW c, NEW n \in Nat, NEW m \in Nat, NEW e, e = m + n,
         Shifts(a, b, n), Shifts(b, c, m)
  PROVE  Shifts(a, c, e)
<1> SUFFICES ASSUME NEW k, NEW values, NEW l, Holds(a, k, values, l)
             PROVE  Holds(c, e + k, values, l)
  BY DEF Shifts
<1>1. Holds(b, n + k, values, l)
  BY DEF Shifts
<1>2. Holds(c, m + (n + k), values, l)
  BY <1>1 DEF Shifts
<1>3. k \in Nat
  BY DEF Holds
<1>4. m + (n + k) = e + k
  BY <1>3
<1> QED
  BY <1>2, <1>4

LEMMA ShiftsKept ==
  ASSUME NEW a, NEW b, NEW c, NEW n, Shifts(a, b, n), Keeps(b, c)
  PROVE  Shifts(a, c, n)
BY Zenon DEF Shifts, Keeps

LEMMA JoinedHolds ==
  ASSUME NEW a, NEW n, Sized(a, n), NEW b, NEW m, Sized(b, m), NEW e, e = n + m,
         NEW r, r = Joined(a, b)
  PROVE  Sized(r, e) /\ Keeps(a, r) /\ Shifts(b, r, n)
<1>1. Sized(r, e)
  BY JoinedSized
<1>2. Keeps(a, r)
  BY HoldsLeft DEF Keeps
<1>3. Shifts(b, r, n)
  BY HoldsRight DEF Shifts
<1> QED
  BY <1>1, <1>2, <1>3

\* The next field is put behind what is there.
NextTo(r, b, field, values) == r = Joined(b, Bytes(field, values))
LEMMA Adding ==
  ASSUME NEW b, NEW n, Sized(b, n), NEW field \in Labels, NEW values, NEW m, HasLen(values, m),
         NEW e, e = n + m, NEW r, NextTo(r, b, field, values)
  PROVE  Sized(r, e) /\ Holds(r, n, values, m) /\ Keeps(b, r)
<1>1. PICK piece : piece = Bytes(field, values)
  OBVIOUS
<1>2. Sized(piece, m) /\ Holds(piece, 0, values, m)
  BY <1>1, PieceHolds
<1>3. Sized(r, e) /\ Keeps(b, r) /\ Shifts(piece, r, n)
  BY <1>1, <1>2, JoinedHolds DEF NextTo
<1>4. Holds(r, n + 0, values, m)
  BY <1>2, <1>3 DEF Shifts
<1>5. n + 0 = n
  BY DEF Sized
<1> QED
  BY <1>3, <1>4, <1>5

\* The parts of an ASDU.
Named(s) == Tagged(128, s.svId)
Numbered(s) == Tagged(130, Word(s.smpCnt))
Revised == Tagged(131, DWord(ConfRev))
Synched == Tagged(133, <<Synch>>)
Sampled(s) == SeqData(IF s.samples = <<>> THEN [i \in 1..8 |-> 0] ELSE s.samples)

LEMMA AsduHolds ==
  ASSUME NEW s, NEW n, HasLen(Named(s), 2 + n), n \in Nat, HasLen(Numbered(s), 4),
         HasLen(Revised, 6), HasLen(Synched, 3), NEW q, HasLen(Sampled(s), q),
         NEW asdu, asdu = EncodedAsdu(s)
  PROVE  /\ Sized(asdu, 15 + n + q)
         /\ Holds(asdu, 0, Named(s), 2 + n) /\ Holds(asdu, 2 + n, Numbered(s), 4)
         /\ Holds(asdu, 6 + n, Revised, 6) /\ Holds(asdu, 12 + n, Synched, 3)
         /\ Holds(asdu, 15 + n, Sampled(s), q)
<1>1. PICK b1, b2, b3, b4 :
        /\ b1 = Bytes("svid", Named(s)) /\ NextTo(b2, b1, "smpcnt", Numbered(s))
        /\ NextTo(b3, b2, "confrev", Revised) /\ NextTo(b4, b3, "smpsynch", Synched)
  BY Zenon DEF NextTo
<1>2. NextTo(asdu, b4, "seqdata", Sampled(s))
  BY <1>1, Zenon DEF EncodedAsdu, NextTo, Joined, Named, Numbered, Revised, Synched, Sampled
<1>3. PICK p1, p2, p3, p4, p5 :
        p1 = 2 + n /\ p2 = 6 + n /\ p3 = 12 + n /\ p4 = 15 + n /\ p5 = 15 + n + q
  OBVIOUS
<1>a. /\ "svid" \in Labels /\ "smpcnt" \in Labels /\ "confrev" \in Labels
      /\ "smpsynch" \in Labels /\ "seqdata" \in Labels
  BY DEF Labels, Tags
<1>b. PICK x, y, z : x = 4 /\ y = 6 /\ z = 3
  OBVIOUS
<1>c. /\ HasLen(Named(s), p1) /\ HasLen(Numbered(s), x) /\ HasLen(Revised, y)
      /\ HasLen(Synched, z)
  BY <1>3, <1>b
<1>4. q \in Nat /\ p2 = p1 + x /\ p3 = p2 + y /\ p4 = p3 + z /\ p5 = p4 + q
  <2>1. q \in Nat
    BY DEF HasLen
  <2> QED
    BY <1>3, <1>b, <2>1
<1>5. Sized(b1, p1) /\ Holds(b1, 0, Named(s), p1)
  BY <1>1, <1>a, <1>c, PieceHolds, Zenon
<1>6. Sized(b2, p2) /\ Holds(b2, p1, Numbered(s), x) /\ Keeps(b1, b2)
  BY <1>a, <1>c, <1>1, <1>4, <1>5, Adding, Zenon
<1>7. Sized(b3, p3) /\ Holds(b3, p2, Revised, y) /\ Keeps(b2, b3)
  BY <1>a, <1>c, <1>1, <1>4, <1>6, Adding, Zenon
<1>8. Sized(b4, p4) /\ Holds(b4, p3, Synched, z) /\ Keeps(b3, b4)
  BY <1>a, <1>c, <1>1, <1>4, <1>7, Adding, Zenon
<1>9. Sized(asdu, p5) /\ Holds(asdu, p4, Sampled(s), q) /\ Keeps(b4, asdu)
  BY <1>a, <1>2, <1>4, <1>8, Adding, Zenon
<1>10. Holds(asdu, p3, Synched, z)
  BY <1>8, <1>9, Zenon DEF Keeps
<1>11. Holds(asdu, p2, Revised, y)
  BY <1>7, <1>8, <1>9, Zenon DEF Keeps
<1>12. Holds(asdu, p1, Numbered(s), x)
  BY <1>6, <1>7, <1>8, <1>9, Zenon DEF Keeps
<1>13. Holds(asdu, 0, Named(s), p1)
  BY <1>5, <1>6, <1>7, <1>8, <1>9, Zenon DEF Keeps
<1> QED
  BY <1>3, <1>b, <1>9, <1>10, <1>11, <1>12, <1>13

\* The header: where the tag of a VLAN may be, and what is behind it.
AppIdAt(s) == IF s.vlan > 0 THEN 18 ELSE 14

LEMMA VlanHolds ==
  ASSUME NEW s, s.vlan \in Nat, s.prio \in Nat, NEW b, NEW n, Sized(b, n), NEW r,
         r = Joined(b, VlanTag(s.vlan, s.prio)), NEW e, e = IF s.vlan > 0 THEN n + 4 ELSE n
  PROVE  /\ Sized(r, e) /\ Keeps(b, r)
         /\ s.vlan > 0 => Holds(r, n, VlanBytes(s.prio, s.vlan), 4)
<1>1. CASE s.vlan > 0
  <2>1. PICK w, m : w = VlanBytes(s.prio, s.vlan) /\ m = 4
    OBVIOUS
  <2>2. HasLen(w, m)
    BY <2>1, TagIs DEF HasLen
  <2>3. NextTo(r, b, "eth-vlan", w)
    BY <1>1, <2>1 DEF VlanTag, VlanBytes, NextTo
  <2>4. "eth-vlan" \in Labels /\ e = n + m
    BY <1>1, <2>1 DEF Labels, Tags
  <2>5. Sized(r, e) /\ Holds(r, n, w, m) /\ Keeps(b, r)
    <3>1. Sized(b, n)
      OBVIOUS
    <3> QED
      BY ONLY <2>2, <2>3, <2>4, <3>1, Adding, Zenon
  <2> QED
    BY <2>1, <2>5
<1>2. CASE ~(s.vlan > 0)
  <2>1. PICK t, m : t = VlanTag(s.vlan, s.prio) /\ m = 0
    OBVIOUS
  <2>2. t = <<>>
    BY <1>2, <2>1 DEF VlanTag
  <2>3. Sized(t, m) /\ e = n + m
    BY <1>2, <2>1, <2>2 DEF Sized
  <2>4. r = Joined(b, t)
    BY <2>1
  <2>5. Sized(r, e) /\ Keeps(b, r)
    BY <2>3, <2>4, JoinedHolds, Zenon
  <2> QED
    BY <1>2, <2>5
<1> QED
  BY <1>1, <1>2

Headed(b, s, h, o) ==
  /\ Sized(b, h + 12)
  /\ s.vlan > 0 => Holds(b, 12, VlanBytes(s.prio, s.vlan), 4)
  /\ ~(s.vlan > 0) => Holds(b, 12, <<136, 186>>, 2)
  /\ Holds(b, h, Word(AppId), 2) /\ Holds(b, h + 8, o, 4)

\* The bytes in front of the savPdu, opened by o.
Heading(s, w, o) ==
     Bytes("eth-dst", Mac(1)) \o Bytes("eth-src", Mac(2)) \o VlanTag(s.vlan, s.prio)
  \o Bytes("eth-type", <<136, 186>>) \o Bytes("sv-appid", Word(AppId))
  \o Bytes("sv-length", w) \o Bytes("sv-res1", <<0, 0>>) \o Bytes("sv-res2", <<0, 0>>)
  \o Bytes("savpdu", o)

LEMMA HeadingHolds ==
  ASSUME NEW s, s.vlan \in Nat, s.prio \in Nat, NEW w, HasLen(w, 2), NEW o, HasLen(o, 4),
         NEW b, b = Heading(s, w, o), NEW h, h = AppIdAt(s)
  PROVE  Headed(b, s, h, o)
<1>1. PICK m1, m2, type, id, zero :
        m1 = Mac(1) /\ m2 = Mac(2) /\ type = <<136, 186>> /\ id = Word(AppId) /\ zero = <<0, 0>>
  OBVIOUS
<1>2. PICK two, four, six : two = 2 /\ four = 4 /\ six = 6
  OBVIOUS
<1>3. PICK b1, b2, b3, b4, b5, b6, b7, b8 :
        /\ b1 = Bytes("eth-dst", m1) /\ NextTo(b2, b1, "eth-src", m2)
        /\ b3 = Joined(b2, VlanTag(s.vlan, s.prio)) /\ NextTo(b4, b3, "eth-type", type)
        /\ NextTo(b5, b4, "sv-appid", id) /\ NextTo(b6, b5, "sv-length", w)
        /\ NextTo(b7, b6, "sv-res1", zero) /\ NextTo(b8, b7, "sv-res2", zero)
  BY Zenon DEF NextTo
<1>4. NextTo(b, b8, "savpdu", o)
  BY <1>1, <1>3, ZenonT(60) DEF Heading, NextTo, Joined
<1>5. /\ HasLen(m1, six) /\ HasLen(m2, six) /\ HasLen(type, two) /\ HasLen(id, two)
      /\ HasLen(zero, two) /\ HasLen(w, two) /\ HasLen(o, four)
  <2>1. HasLen(m1, six) /\ HasLen(m2, six)
    BY <1>1, <1>2, MacIs DEF HasLen
  <2>2. HasLen(type, two) /\ HasLen(zero, two)
    BY <1>1, <1>2 DEF HasLen
  <2>3. HasLen(id, two)
    BY <1>1, <1>2, WordIs, NumbersAssumption DEF HasLen
  <2> QED
    BY <1>2, <2>1, <2>2, <2>3
<1>6. /\ "eth-dst" \in Labels /\ "eth-src" \in Labels /\ "eth-type" \in Labels
      /\ "sv-appid" \in Labels /\ "sv-length" \in Labels /\ "sv-res1" \in Labels
      /\ "sv-res2" \in Labels /\ "savpdu" \in Labels
  BY DEF Labels, Tags
<1>7. PICK p2, p3, p5, p6, p7, p8, p9 :
        /\ p2 = six + six /\ p3 = (IF s.vlan > 0 THEN p2 + 4 ELSE p2)
        /\ p5 = h + two /\ p6 = p5 + two /\ p7 = p6 + two /\ p8 = p7 + two /\ p9 = p8 + four
  OBVIOUS
<1>8. h = p3 + two
  BY <1>2, <1>7 DEF AppIdAt
<1>9. Sized(b1, six)
  BY <1>3, <1>5, <1>6, PieceHolds, Zenon
<1>10. Sized(b2, p2)
  BY <1>3, <1>5, <1>6, <1>7, <1>9, Adding, Zenon
<1>11. /\ Sized(b3, p3)
       /\ s.vlan > 0 => Holds(b3, p2, VlanBytes(s.prio, s.vlan), 4)
  BY <1>3, <1>7, <1>10, VlanHolds
<1>12. Sized(b4, h) /\ Holds(b4, p3, type, two) /\ Keeps(b3, b4)
  BY <1>3, <1>5, <1>6, <1>8, <1>11, Adding, Zenon
<1>13. Sized(b5, p5) /\ Holds(b5, h, id, two) /\ Keeps(b4, b5)
  BY <1>3, <1>5, <1>6, <1>7, <1>12, Adding, Zenon
<1>14. Sized(b6, p6) /\ Keeps(b5, b6)
  BY <1>3, <1>5, <1>6, <1>7, <1>13, Adding, Zenon
<1>15. Sized(b7, p7) /\ Keeps(b6, b7)
  BY <1>3, <1>5, <1>6, <1>7, <1>14, Adding, Zenon
<1>16. Sized(b8, p8) /\ Keeps(b7, b8)
  BY <1>3, <1>5, <1>6, <1>7, <1>15, Adding, Zenon
<1>17. Sized(b, p9) /\ Holds(b, p8, o, four) /\ Keeps(b8, b)
  BY <1>4, <1>5, <1>6, <1>7, <1>16, Adding, Zenon
<1>18. Keeps(b5, b) /\ Keeps(b4, b) /\ Keeps(b3, b)
  BY <1>12, <1>13, <1>14, <1>15, <1>16, <1>17, Zenon DEF Keeps
<1>19. Holds(b, h, id, two) /\ Holds(b, p3, type, two)
  BY <1>12, <1>13, <1>18, Zenon DEF Keeps
<1>20. s.vlan > 0 => Holds(b, p2, VlanBytes(s.prio, s.vlan), 4)
  BY <1>11, <1>18, Zenon DEF Keeps
<1>21. /\ p2 = 12 /\ (~(s.vlan > 0) => p3 = 12) /\ p8 = h + 8 /\ p9 = h + 12
  BY <1>2, <1>7 DEF AppIdAt
<1> QED
  BY <1>1, <1>2, <1>17, <1>19, <1>20, <1>21 DEF Headed

\* The whole frame: three openings, one in the other, and the ASDU.
Opened(b, k, tag, o) == Holds(b, k, o, 4) /\ o[1] = tag /\ o[2] = 130

LEMMA InnerHolds ==
  ASSUME NEW asdu, NEW l, Sized(asdu, l), NEW o, o = Opening(48, asdu),
         NEW seq, seq = Joined(Bytes("asdu", o), asdu)
  PROVE  /\ Sized(seq, 4 + l) /\ Opened(seq, 0, 48, o) /\ Shifts(asdu, seq, 4)
         /\ l < 65536 => Read2(o[3], o[4]) = l
<1>1. /\ HasLen(o, 4) /\ o[1] = 48 /\ o[2] = 130
      /\ l < 65536 => Read2(o[3], o[4]) = l
  BY OpeningIs
<1>2. PICK piece, four, e : piece = Bytes("asdu", o) /\ four = 4 /\ e = four + l
  OBVIOUS
<1>3. Sized(piece, four) /\ Holds(piece, 0, o, four)
  <2>1. HasLen(o, four) /\ "asdu" \in Labels
    BY <1>1, <1>2 DEF Labels, Tags
  <2> QED
    BY <1>2, <2>1, PieceHolds, Zenon
<1>4. Sized(seq, e) /\ Keeps(piece, seq) /\ Shifts(asdu, seq, four)
  <2>1. seq = Joined(piece, asdu) /\ Sized(asdu, l)
    BY <1>2
  <2> QED
    BY ONLY <1>2, <1>3, <2>1, JoinedHolds, Zenon
<1>5. Holds(seq, 0, o, four)
  BY <1>3, <1>4, Zenon DEF Keeps
<1> QED
  BY <1>1, <1>2, <1>4, <1>5 DEF Opened

LEMMA MiddleHolds ==
  ASSUME NEW seq, NEW l, Sized(seq, l), NEW o, o = Opening(162, seq),
         NEW pdu, pdu = Joined(Joined(Bytes("noasdu", <<128, 1, 1>>), Bytes("seqasdu", o)), seq)
  PROVE  /\ Sized(pdu, 7 + l) /\ Holds(pdu, 0, <<128, 1, 1>>, 3) /\ Opened(pdu, 3, 162, o)
         /\ Shifts(seq, pdu, 7)
<1>1. HasLen(o, 4) /\ o[1] = 162 /\ o[2] = 130
  BY OpeningIs
<1>2. PICK number, three, four, seven, e :
        /\ number = <<128, 1, 1>> /\ three = 3 /\ four = 4 /\ seven = three + four
        /\ e = seven + l
  OBVIOUS
<1>3. PICK b1, b2 : b1 = Bytes("noasdu", number) /\ NextTo(b2, b1, "seqasdu", o)
  BY Zenon DEF NextTo
<1>4. pdu = Joined(b2, seq)
  BY <1>2, <1>3, Zenon DEF NextTo
<1>5. HasLen(number, three) /\ HasLen(o, four) /\ "noasdu" \in Labels /\ "seqasdu" \in Labels
  BY <1>1, <1>2 DEF HasLen, Labels, Tags
<1>6. Sized(b1, three) /\ Holds(b1, 0, number, three)
  BY ONLY <1>3, <1>5, PieceHolds, Zenon
<1>7. Sized(b2, seven) /\ Holds(b2, three, o, four) /\ Keeps(b1, b2)
  <2>1. seven = three + four
    BY <1>2
  <2>2. Sized(b1, three)
    BY <1>6
  <2> QED
    BY ONLY <1>3, <1>5, <2>1, <2>2, Adding, Zenon
<1>8. Sized(pdu, e) /\ Keeps(b2, pdu) /\ Shifts(seq, pdu, seven)
  <2>1. Sized(seq, l)
    OBVIOUS
  <2> QED
    BY ONLY <1>2, <1>4, <1>7, <2>1, JoinedHolds, Zenon
<1>9. Holds(pdu, 0, number, three) /\ Holds(pdu, three, o, four)
  BY <1>6, <1>7, <1>8, Zenon DEF Keeps
<1>10. seven = 7
  BY <1>2
<1> QED
  BY <1>1, <1>2, <1>8, <1>9, <1>10 DEF Opened

\* What lies in a frame of s with an ASDU of l bytes.
Framed(b, s, asdu, l, h) ==
  /\ Sized(b, h + 23 + l) /\ Shifts(asdu, b, h + 23)
  /\ s.vlan > 0 => Holds(b, 12, VlanBytes(s.prio, s.vlan), 4)
  /\ ~(s.vlan > 0) => Holds(b, 12, <<136, 186>>, 2)
  /\ Holds(b, h, Word(AppId), 2) /\ Holds(b, h + 12, <<128, 1, 1>>, 3)
  /\ \E o : Opened(b, h + 8, 96, o)
  /\ \E o : Opened(b, h + 15, 162, o)
  /\ \E o : Opened(b, h + 19, 48, o) /\ (l < 65536 => Read2(o[3], o[4]) = l)

LEMMA FrameHolds ==
  ASSUME NEW s, s.vlan \in Nat, s.prio \in Nat, NEW asdu, asdu = EncodedAsdu(s),
         NEW l, Sized(asdu, l), NEW b, b = Encoded(s), NEW h, h = AppIdAt(s)
  PROVE  Framed(b, s, asdu, l, h)
<1>1. PICK o1, seq : o1 = Opening(48, asdu) /\ seq = Joined(Bytes("asdu", o1), asdu)
  OBVIOUS
<1>2. /\ Sized(seq, 4 + l) /\ Opened(seq, 0, 48, o1) /\ Shifts(asdu, seq, 4)
      /\ l < 65536 => Read2(o1[3], o1[4]) = l
  BY <1>1, InnerHolds
<1>3. PICK o2, pdu :
        /\ o2 = Opening(162, seq)
        /\ pdu = Joined(Joined(Bytes("noasdu", <<128, 1, 1>>), Bytes("seqasdu", o2)), seq)
  OBVIOUS
<1>4. /\ Sized(pdu, 7 + (4 + l)) /\ Holds(pdu, 0, <<128, 1, 1>>, 3) /\ Opened(pdu, 3, 162, o2)
      /\ Shifts(seq, pdu, 7)
  BY <1>2, <1>3, MiddleHolds
<1>5. PICK o3, w, head :
        o3 = Opening(96, pdu) /\ w = Word(Len(pdu) + 12) /\ head = Heading(s, w, o3)
  OBVIOUS
<1>6. b = Joined(head, pdu)
  BY <1>1, <1>3, <1>5, ZenonT(60) DEF Encoded, Heading, Joined
<1>7. HasLen(o3, 4) /\ o3[1] = 96 /\ o3[2] = 130
  BY <1>4, <1>5, OpeningIs
<1>8. HasLen(w, 2)
  <2>1. Len(pdu) + 12 \in Int
    BY <1>4 DEF Sized
  <2> QED
    BY <1>5, <2>1, WordIs DEF HasLen
<1>9. Headed(head, s, h, o3)
  BY <1>5, <1>7, <1>8, HeadingHolds
<1>10. h \in Nat /\ l \in Nat
  BY DEF AppIdAt, Sized
<1>11. PICK n, m, e : n = h + 12 /\ m = 7 + (4 + l) /\ e = n + m
  OBVIOUS
<1>12. Sized(b, e) /\ Keeps(head, b) /\ Shifts(pdu, b, n)
  <2>1. Sized(head, n) /\ Sized(pdu, m)
    BY <1>4, <1>9, <1>11 DEF Headed
  <2> QED
    BY ONLY <1>6, <1>11, <2>1, JoinedHolds, Zenon
<1>13. /\ s.vlan > 0 => Holds(b, 12, VlanBytes(s.prio, s.vlan), 4)
       /\ ~(s.vlan > 0) => Holds(b, 12, <<136, 186>>, 2)
       /\ Holds(b, h, Word(AppId), 2) /\ Holds(b, h + 8, o3, 4)
  BY <1>9, <1>12, Zenon DEF Headed, Keeps
<1>14. Opened(b, h + 8, 96, o3)
  BY <1>7, <1>13 DEF Opened
<1>a. PICK zero, three, four, seven, x, y, number :
        /\ zero = 0 /\ three = 3 /\ four = 4 /\ seven = 7 /\ x = seven + four /\ y = n + x
        /\ number = <<128, 1, 1>>
  OBVIOUS
<1>b. /\ Holds(pdu, zero, number, three) /\ Holds(pdu, three, o2, four)
      /\ Holds(seq, zero, o1, four) /\ Shifts(asdu, seq, four) /\ Shifts(seq, pdu, seven)
  BY <1>2, <1>4, <1>a DEF Opened
<1>c. /\ four \in Nat /\ seven \in Nat /\ x \in Nat /\ n \in Nat /\ y = h + 23
      /\ x = seven + four /\ y = n + x
      /\ n + zero = h + 12 /\ n + three = h + 15 /\ n + (seven + zero) = h + 19
  BY <1>10, <1>11, <1>a
<1>15. Holds(b, h + 12, <<128, 1, 1>>, 3) /\ Opened(b, h + 15, 162, o2)
  <2>1. Holds(b, n + zero, number, three) /\ Holds(b, n + three, o2, four)
    BY ONLY <1>b, <1>12, Zenon DEF Shifts
  <2> QED
    BY <1>4, <1>a, <1>c, <2>1 DEF Opened
<1>16. Opened(b, h + 19, 48, o1)
  <2>1. Holds(b, n + (seven + zero), o1, four)
    BY ONLY <1>b, <1>12, Zenon DEF Shifts
  <2> QED
    BY <1>2, <1>a, <1>c, <2>1 DEF Opened
<1>17. Shifts(asdu, b, h + 23)
  <2>1. Shifts(asdu, pdu, x)
    BY ONLY <1>b, <1>c, ShiftsOn, Zenon
  <2>2. Shifts(asdu, b, y)
    BY ONLY <1>12, <1>c, <2>1, ShiftsOn, Zenon
  <2> QED
    BY <1>c, <2>2
<1>18. e = h + 23 + l
  BY <1>10, <1>11
<1> QED
  BY <1>2, <1>12, <1>13, <1>14, <1>15, <1>16, <1>17, <1>18 DEF Framed

-----------------------------------------------------------------------------
(* The parser, on a frame whose parts lie as above.                        *)
LEMMA HoldsAt ==
  ASSUME NEW b, NEW k, NEW values, NEW m, Holds(b, k, values, m), NEW i \in 1..m, NEW j,
         j = k + i - 1
  PROVE  At(b, j) = values[i]
BY DEF Holds

\* Tag and length, and behind them the value.
LEMMA FieldAt ==
  ASSUME NEW b, NEW z, Sized(b, z), NEW p, NEW t, HasLen(t, 2), NEW values, NEW m,
         HasLen(values, m), NEW r, r = Joined(t, values), NEW e, e = 2 + m, Holds(b, p, r, e)
  PROVE  /\ p \in Nat /\ At(b, p) = t[1] /\ At(b, p + 1) = t[2]
         /\ Holds(b, p + 2, values, m)
<1>0. p \in Nat /\ m \in Nat
  BY DEF Holds, HasLen
<1>1. PICK two, q, x : two = 2 /\ q = p + two /\ x = two + m
  OBVIOUS
<1>2. HasLen(t, two) /\ Holds(b, p, r, x) /\ q = p + two /\ x = two + m
  BY <1>1
<1>3. Sized(b, z) /\ HasLen(values, m) /\ r = Joined(t, values)
  OBVIOUS
<1>4. Holds(b, p, t, two) /\ Holds(b, q, values, m)
  BY ONLY <1>2, <1>3, HoldsHalves, Zenon
<1>5. p = p + 1 - 1 /\ p + 1 = p + 2 - 1 /\ 1 \in 1..two /\ 2 \in 1..two
  BY <1>0, <1>1
<1>6. At(b, p) = t[1] /\ At(b, p + 1) = t[2]
  BY <1>4, <1>5, HoldsAt
<1> QED
  BY <1>0, <1>1, <1>4, <1>6

LEMMA OpeningRead ==
  ASSUME NEW b, NEW z, Sized(b, z), NEW k, NEW tag, NEW o, Opened(b, k, tag, o)
  PROVE  /\ k \in Nat /\ At(b, k) = tag /\ IsLong(b, k + 1)
         /\ LengthEnd(b, k + 1) = k + 4
         /\ LengthAt(b, k + 1) = Read2(o[3], o[4])
<1>1. Holds(b, k, o, 4) /\ o[1] = tag /\ o[2] = 130 /\ k \in Nat
  BY DEF Opened, Holds
<1>2. /\ At(b, k) = o[1] /\ At(b, k + 1) = o[2] /\ At(b, k + 2) = o[3] /\ At(b, k + 3) = o[4]
  <2>1. k = k + 1 - 1 /\ k + 1 = k + 2 - 1 /\ k + 2 = k + 3 - 1 /\ k + 3 = k + 4 - 1
    BY <1>1
  <2>2. 1 \in 1..4 /\ 2 \in 1..4 /\ 3 \in 1..4 /\ 4 \in 1..4
    OBVIOUS
  <2> QED
    BY <1>1, <2>1, <2>2, HoldsAt
<1>3. At(b, k + 1) = 130 /\ At(b, k + 1) % 128 = 2
  BY <1>1, <1>2
<1>4. IsLong(b, k + 1)
  BY <1>3 DEF IsLong
<1>5. LengthEnd(b, k + 1) = k + 4
  <2>1. LengthEnd(b, k + 1) = k + 1 + 1 + (At(b, k + 1) % 128)
    BY <1>4 DEF LengthEnd
  <2> QED
    BY <1>1, <1>3, <2>1
<1>6. LengthAt(b, k + 1) = Read2(o[3], o[4])
  <2> DEFINE m == At(b, k + 1) % 128
             Is(f) == f = [n \in 0..m |-> IF n = 0 THEN 0
                                         ELSE 256 * f[n - 1] + At(b, k + 1 + n)]
             u == CHOOSE f : Is(f)
  <2>1. o[3] \in Int /\ o[4] \in Int
    <3>1. o \in Seq(Int) /\ Len(o) = 4
      BY <1>1 DEF Holds, HasLen
    <3> QED
      BY <3>1
  <2>2. At(b, k + 1 + 1) = o[3] /\ At(b, k + 1 + 2) = o[4]
    BY <1>1, <1>2
  <2>3. LengthAt(b, k + 1) = u[m]
    BY <1>4 DEF LengthAt
  <2>a. m = 2
    BY <1>3
  <2> HIDE DEF m
  <2>4. \E f : Is(f)
    <3> DEFINE g == [n \in 0..2 |-> IF n = 0 THEN 0 ELSE IF n = 1 THEN 256 * 0 + o[3]
                                    ELSE 256 * (256 * 0 + o[3]) + o[4]]
    <3>1. \A n \in 0..2 : n = 0 \/ n = 1 \/ n = 2
      OBVIOUS
    <3>2. g[0] = 0 /\ g[1] = 256 * 0 + o[3] /\ g[2] = 256 * (256 * 0 + o[3]) + o[4]
      OBVIOUS
    <3>3. \A n \in 0..2 : g[n] = IF n = 0 THEN 0 ELSE 256 * g[n - 1] + At(b, k + 1 + n)
      <4> HIDE DEF g
      <4>1. 1 - 1 = 0 /\ 2 - 1 = 1
        OBVIOUS
      <4> QED
        BY <2>2, <3>1, <3>2, <4>1
    <3>4. g = [n \in 0..2 |-> g[n]]
      OBVIOUS
    <3> HIDE DEF g
    <3>5. Is(g)
      BY <2>a, <3>3, <3>4
    <3> QED
      BY <3>5
  <2>5. Is(u)
    BY <2>4
  <2> HIDE DEF u
  <2>6. \A n \in 0..2 : u[n] = IF n = 0 THEN 0 ELSE 256 * u[n - 1] + At(b, k + 1 + n)
    BY <2>5, <2>a
  <2>7. /\ u[0] = 0 /\ u[1] = 256 * u[0] + At(b, k + 1 + 1)
        /\ u[2] = 256 * u[1] + At(b, k + 1 + 2)
    BY <2>6
  <2>8. u[2] = 256 * o[3] + o[4]
    BY <2>1, <2>2, <2>7
  <2> QED
    BY <2>3, <2>8, <2>a DEF Read2
<1> QED
  BY <1>1, <1>2, <1>4, <1>5, <1>6

\* The walk over the fields, as far as m steps.
WalkUpTo(f, b, end, first, m) ==
  [n \in 0..m |-> IF n = 0 THEN first ELSE NextField(b, end, f[n - 1])]

LEMMA WalkExists ==
  ASSUME NEW b, NEW end, NEW first
  PROVE  \A m \in Nat : \E f : f = WalkUpTo(f, b, end, first, m)
<1> DEFINE S == {m \in Nat : \E f : f = WalkUpTo(f, b, end, first, m)}
<1>1. 0 \in S
  <2> DEFINE g == [n \in 0..0 |-> first]
  <2>1. g = WalkUpTo(g, b, end, first, 0)
    BY DEF WalkUpTo
  <2> QED
    BY <2>1
<1>2. ASSUME NEW m \in Nat, m \in S PROVE m + 1 \in S
  <2>1. PICK f : f = WalkUpTo(f, b, end, first, m)
    BY <1>2
  <2> DEFINE g == [n \in 0..(m + 1) |-> IF n = m + 1 THEN NextField(b, end, f[n - 1]) ELSE f[n]]
  <2>2. \A n \in 0..m : f[n] = IF n = 0 THEN first ELSE NextField(b, end, f[n - 1])
    BY <2>1 DEF WalkUpTo
  <2>3. \A n \in 0..m : g[n] = f[n]
    OBVIOUS
  <2>4. \A n \in 0..(m + 1) : g[n] = WalkUpTo(g, b, end, first, m + 1)[n]
    <3> TAKE n \in 0..(m + 1)
    <3>1. CASE n = m + 1
      BY <3>1, <2>3 DEF WalkUpTo
    <3>2. CASE n \in 0..m
      <4>1. g[n] = f[n] /\ (n # 0 => g[n - 1] = f[n - 1])
        BY <3>2, <2>3
      <4> HIDE DEF g
      <4> QED
        BY <3>2, <2>2, <4>1 DEF WalkUpTo
    <3> QED
      BY <3>1, <3>2
  <2>5. g = WalkUpTo(g, b, end, first, m + 1)
    BY <2>4 DEF WalkUpTo
  <2> QED
    BY <2>5
<1> HIDE DEF S
<1>3. \A m \in Nat : m \in S
  BY <1>1, <1>2, NatByOne
<1> QED
  BY <1>3 DEF S

\* A walk that has reached the end stays there.
LEMMA WalkEnds ==
  ASSUME NEW b, NEW end, NEW first, NEW m \in Nat, NEW f, f = WalkUpTo(f, b, end, first, m),
         NEW n \in Nat, n <= m, f[n].pos >= end
  PROVE  f[m] = f[n]
<1> DEFINE S == {k \in Nat : n + k <= m => f[n + k] = f[n]}
<1>1. \A k \in 0..m : f[k] = IF k = 0 THEN first ELSE NextField(b, end, f[k - 1])
  BY DEF WalkUpTo
<1>2. 0 \in S
  <2>1. n + 0 = n
    OBVIOUS
  <2> QED
    BY <2>1
<1>3. ASSUME NEW k \in Nat, k \in S PROVE k + 1 \in S
  <2> SUFFICES ASSUME n + (k + 1) <= m PROVE f[n + (k + 1)] = f[n]
    OBVIOUS
  <2>1. f[n + k] = f[n]
    BY <1>3
  <2>2. PICK j : j = n + (k + 1)
    OBVIOUS
  <2>3. j \in 0..m /\ j # 0 /\ j - 1 = n + k
    BY <2>2
  <2>4. f[j] = NextField(b, end, f[j - 1])
    BY <1>1, <2>3
  <2>5. f[j] = NextField(b, end, f[n])
    BY <2>1, <2>3, <2>4
  <2>6. NextField(b, end, f[n]) = f[n]
    BY DEF NextField
  <2> QED
    BY <2>2, <2>5, <2>6
<1> HIDE DEF S
<1>4. m - n \in S
  <2>1. m - n \in Nat
    OBVIOUS
  <2> QED
    BY <1>2, <1>3, <2>1, NatByOne
<1>5. n + (m - n) = m
  OBVIOUS
<1> QED
  BY <1>4, <1>5 DEF S

\* The parser's result is the record of a walk that reached the end.
LEMMA ParsedBy ==
  ASSUME NEW b, NEW pos, At(b, pos) = 48, NEW start, start = LengthEnd(b, pos + 1),
         NEW len \in Nat, len = LengthAt(b, pos + 1), NEW end, end = start + len
  PROVE  \E f : /\ ParsedAsdu(b, pos) = f[len].asdu
                /\ f = WalkUpTo(f, b, end, [pos |-> start, asdu |-> NoAsdu], len)
<1> DEFINE first == [pos |-> start, asdu |-> NoAsdu]
           f == CHOOSE f : f = WalkUpTo(f, b, end, first, len)
<1>1. ParsedAsdu(b, pos) = f[len].asdu
  BY DEF ParsedAsdu, WalkUpTo
<1>2. f = WalkUpTo(f, b, end, first, len)
  BY WalkExists
<1> HIDE DEF f
<1> QED
  BY <1>1, <1>2

\* What the walk has read so far.
Read(svId, count, rev, synch, samples) ==
  [svId |-> svId, smpCnt |-> count, confRev |-> rev, synch |-> synch, samples |-> samples]

LEMMA StepIs ==
  ASSUME NEW b, NEW end \in Int, NEW p \in Int, p < end, NEW a, NEW w,
         w = [pos |-> p, asdu |-> a], NEW len, At(b, p + 1) = len, NEW q, q = p + 2 + len,
         NEW c, c = WithField(b, end, a, p)
  PROVE  NextField(b, end, w) = [pos |-> q, asdu |-> c]
<1>1. w.pos = p /\ w.asdu = a /\ ~(w.pos >= end)
  OBVIOUS
<1> QED
  BY <1>1 DEF NextField

LEMMA NameRead ==
  ASSUME NEW b, NEW end, NEW p \in Nat, At(b, p) = 128, NEW svId, NEW n, HasLen(svId, n),
         At(b, p + 1) = n, Holds(b, p + 2, svId, n), NEW x1, NEW x2, NEW x3, NEW x4, NEW x5
  PROVE  WithField(b, end, Read(x1, x2, x3, x4, x5), p) = Read(svId, x2, x3, x4, x5)
<1>1. n \in Nat /\ svId = [i \in 1..n |-> svId[i]]
  BY DEF HasLen
<1>2. \A i \in 1..n : At(b, p + 1 + i) = svId[i]
  <2> TAKE i \in 1..n
  <2>1. p + 1 + i = p + 2 + i - 1
    BY <1>1
  <2> QED
    BY <2>1, HoldsAt
<1>3. [i \in 1..n |-> At(b, p + 1 + i)] = svId
  BY <1>1, <1>2
<1>4. WithField(b, end, Read(x1, x2, x3, x4, x5), p) =
        [Read(x1, x2, x3, x4, x5) EXCEPT !.svId = svId]
  <2>1. WithField(b, end, Read(x1, x2, x3, x4, x5), p) =
          [Read(x1, x2, x3, x4, x5) EXCEPT !.svId = [i \in 1..At(b, p + 1) |-> At(b, p + 1 + i)]]
    BY DEF WithField
  <2> QED
    BY <1>3, <2>1
<1> QED
  BY <1>4 DEF Read

LEMMA CountRead ==
  ASSUME NEW b, NEW end, NEW p, At(b, p) = 130, NEW x1, NEW x2, NEW x3, NEW x4, NEW x5
  PROVE  WithField(b, end, Read(x1, x2, x3, x4, x5), p) = Read(x1, U16(b, p + 2), x3, x4, x5)
<1>1. WithField(b, end, Read(x1, x2, x3, x4, x5), p) =
        [Read(x1, x2, x3, x4, x5) EXCEPT !.smpCnt = U16(b, p + 2)]
  BY DEF WithField
<1> QED
  BY <1>1 DEF Read

LEMMA SignedRead ==
  ASSUME NEW b, NEW z, Sized(b, z), NEW k \in Nat, NEW w1, NEW w2, NEW w3, NEW w4,
         At(b, k) = w1, At(b, k + 1) = w2, At(b, k + 2) = w3, At(b, k + 3) = w4
  PROVE  S32(b, k) = Read4(w1, w2, w3, w4)
<1>1. k + 2 + 1 = k + 3
  OBVIOUS
<1>2. U16(b, k) = Read2(w1, w2) /\ U16(b, k + 2) = Read2(w3, w4)
  BY <1>1 DEF U16, Read2
<1> QED
  BY <1>2 DEF S32, Read4

LEMMA RevisionRead ==
  ASSUME NEW b, NEW z, Sized(b, z), NEW end, NEW p \in Nat, At(b, p) = 131, NEW n, Signed(n),
         Holds(b, p + 2, DWord(n), 4), NEW x1, NEW x2, NEW x3, NEW x4, NEW x5
  PROVE  WithField(b, end, Read(x1, x2, x3, x4, x5), p) = Read(x1, x2, n, x4, x5)
<1>1. PICK d, k : d = DWord(n) /\ k = p + 2
  OBVIOUS
<1>2. Read4(d[1], d[2], d[3], d[4]) = n /\ k \in Nat
  BY <1>1, DWordRead
<1>3. At(b, k) = d[1] /\ At(b, k + 1) = d[2] /\ At(b, k + 2) = d[3] /\ At(b, k + 3) = d[4]
  <2>1. k = k + 1 - 1 /\ k + 1 = k + 2 - 1 /\ k + 2 = k + 3 - 1 /\ k + 3 = k + 4 - 1
    BY <1>2
  <2>2. 1 \in 1..4 /\ 2 \in 1..4 /\ 3 \in 1..4 /\ 4 \in 1..4 /\ Holds(b, k, d, 4)
    BY <1>1
  <2> QED
    BY <2>1, <2>2, HoldsAt
<1>4. S32(b, p + 2) = n
  BY <1>1, <1>2, <1>3, SignedRead
<1>5. WithField(b, end, Read(x1, x2, x3, x4, x5), p) =
        [Read(x1, x2, x3, x4, x5) EXCEPT !.confRev = n]
  BY <1>4 DEF WithField
<1> QED
  BY <1>5 DEF Read

LEMMA SynchRead ==
  ASSUME NEW b, NEW end, NEW p, At(b, p) = 133, NEW n, At(b, p + 2) = n,
         NEW x1, NEW x2, NEW x3, NEW x4, NEW x5
  PROVE  WithField(b, end, Read(x1, x2, x3, x4, x5), p) = Read(x1, x2, x3, n, x5)
<1>1. WithField(b, end, Read(x1, x2, x3, x4, x5), p) =
        [Read(x1, x2, x3, x4, x5) EXCEPT !.synch = n]
  BY DEF WithField
<1> QED
  BY <1>1 DEF Read

\* The samples: eight at most.
Eight(c) == IF c < 8 THEN c ELSE 8

LEMMA SamplesRead ==
  ASSUME NEW b, NEW z, Sized(b, z), NEW p \in Nat, At(b, p) = 135, NEW c \in Nat,
         NEW values, Holds(b, p + 2, values, 8 * c), NEW s, Quotes(values, c, s),
         NEW end, end = p + 2 + 8 * c, NEW x1, NEW x2, NEW x3, NEW x4
  PROVE  WithField(b, end, Read(x1, x2, x3, x4, <<>>), p) =
           Read(x1, x2, x3, x4, [i \in 1..Eight(c) |-> s[i]])
<1> DEFINE k == p + 2
           read == SamplesAt(b, k, end)
<1>1. k \in Nat /\ (end - k) \div 8 = c
  <2>1. k \in Nat /\ end - k = 8 * c
    BY SMT
  <2>2. (8 * c) \div 8 = c
    BY SMT
  <2> QED
    BY <2>1, <2>2
<1>2. ASSUME NEW i \in 1..c PROVE S32(b, k + 8 * (i - 1)) = s[i]
  <2>1. PICK o : o = 8 * (i - 1)
    OBVIOUS
  <2>2. i \in Int /\ 1 <= i /\ i <= c
    OBVIOUS
  <2>3. o \in Nat /\ o + 4 <= 8 * c
    BY <2>1, <2>2, SMT
  <2>4. k + o \in Nat
    BY <1>1, <2>3
  <2>5. PICK m : m = 8 * c
    OBVIOUS
  <2>6. m \in Nat /\ o + 4 <= m /\ Holds(b, k, values, m)
    BY <2>3, <2>5
  <2> HIDE DEF k
  <2>7. /\ o + 1 \in 1..m /\ o + 2 \in 1..m /\ o + 3 \in 1..m /\ o + 4 \in 1..m
        /\ k + o = k + (o + 1) - 1 /\ k + o + 1 = k + (o + 2) - 1
        /\ k + o + 2 = k + (o + 3) - 1 /\ k + o + 3 = k + (o + 4) - 1
    BY <1>1, <2>3, <2>6
  <2>8. /\ At(b, k + o) = values[o + 1] /\ At(b, k + o + 1) = values[o + 2]
        /\ At(b, k + o + 2) = values[o + 3] /\ At(b, k + o + 3) = values[o + 4]
    <3>1. ASSUME NEW i1 \in 1..m, NEW j, j = k + i1 - 1 PROVE At(b, j) = values[i1]
      BY <2>6, <3>1, HoldsAt
    <3> QED
      BY <2>7, <3>1
  <2>9. S32(b, k + o) = Read4(values[o + 1], values[o + 2], values[o + 3], values[o + 4])
    BY <2>4, <2>8, SignedRead
  <2>10. Read4(values[o + 1], values[o + 2], values[o + 3], values[o + 4]) = s[i]
    BY <2>1 DEF Quotes
  <2> QED
    BY <2>1, <2>9, <2>10
<1>3. read = [i \in 1..Eight(c) |-> S32(b, k + 8 * (i - 1))]
  BY <1>1 DEF SamplesAt, Eight
<1>4. \A i \in 1..Eight(c) : i \in 1..c
  BY DEF Eight
<1>5. read = [i \in 1..Eight(c) |-> s[i]]
  BY <1>2, <1>3, <1>4
<1>6. Eight(c) \in Nat
  BY DEF Eight
<1>7. <<>> \o read = read
  <2>1. \A i \in 1..Eight(c) : S32(b, k + 8 * (i - 1)) \in Int
    <3>1. \A j \in Nat : At(b, j) \in Int
      BY AtIs
    <3> TAKE i \in 1..Eight(c)
    <3>2. PICK o : o = 8 * (i - 1)
      OBVIOUS
    <3>3. o \in Nat
      BY <1>6, <3>2, SMT
    <3>4. k + o \in Nat /\ k + o + 1 \in Nat /\ k + o + 2 \in Nat /\ k + o + 2 + 1 \in Nat
      BY <1>1, <3>3
    <3>5. U16(b, k + o) \in Int /\ U16(b, k + o + 2) \in Int
      BY <3>1, <3>4 DEF U16
    <3>6. S32(b, k + o) \in Int
      BY <3>5 DEF S32
    <3> QED
      BY <3>2, <3>6
  <2> HIDE DEF k
  <2>2. read \in Seq(Int)
    BY <1>3, <1>6, <2>1
  <2> HIDE DEF read
  <2> QED
    BY <2>2
<1>8. WithField(b, end, Read(x1, x2, x3, x4, <<>>), p) =
        [Read(x1, x2, x3, x4, <<>>) EXCEPT !.samples = @ \o read]
  BY DEF WithField
<1> HIDE DEF read
<1>9. Read(x1, x2, x3, x4, <<>>).samples = <<>>
  BY DEF Read
<1>10. [Read(x1, x2, x3, x4, <<>>) EXCEPT !.samples = @ \o read] = Read(x1, x2, x3, x4, read)
  BY <1>7, <1>9 DEF Read
<1> QED
  BY <1>5, <1>8, <1>10

\* A stream the parser can read: all of its fields fit their bytes.
Legible(s, n, c) ==
  /\ HasLen(s.svId, n) /\ n < 256 /\ s.smpCnt \in Int /\ Signed(ConfRev)
  /\ s.vlan \in Nat /\ s.vlan < 4096 /\ s.prio \in Nat /\ s.prio < 8 /\ AppId < 65536
  /\ c \in Nat /\ c < 16
Sent(s) == IF s.samples = <<>> THEN [i \in 1..8 |-> 0] ELSE s.samples

LEMMA TagAt ==
  ASSUME NEW tag \in Int, NEW values, NEW m, HasLen(values, m), NEW e, e = 2 + m,
         NEW r, r = Tagged(tag, values)
  PROVE  /\ HasLen(r, e)
         /\ \A b, z, p : Sized(b, z) /\ Holds(b, p, r, e) =>
              At(b, p) = tag /\ At(b, p + 1) = m /\ Holds(b, p + 2, values, m) /\ p \in Nat
<1>1. PICK t : t = <<tag, m>>
  OBVIOUS
<1>2. HasLen(r, e) /\ r = Joined(t, values) /\ HasLen(t, 2)
  BY <1>1, TaggedIs
<1>3. t[1] = tag /\ t[2] = m
  BY <1>1
<1>4. ASSUME NEW b, NEW z, NEW p, Sized(b, z), Holds(b, p, r, e)
      PROVE  At(b, p) = tag /\ At(b, p + 1) = m /\ Holds(b, p + 2, values, m) /\ p \in Nat
  <2>1. HasLen(values, m) /\ e = 2 + m /\ Sized(b, z) /\ Holds(b, p, r, e)
    BY <1>4
  <2>2. At(b, p) = t[1] /\ At(b, p + 1) = t[2] /\ Holds(b, p + 2, values, m) /\ p \in Nat
    BY ONLY <1>2, <2>1, FieldAt, Zenon
  <2> QED
    BY <1>3, <2>2
<1> QED
  BY <1>2, <1>4

\* Four fields of the ASDU, and the last.
Says(b, p, tag, m, values) ==
  At(b, p) = tag /\ At(b, p + 1) = m /\ Holds(b, p + 2, values, m) /\ p \in Nat
SaysSamples(b, p, c, s) ==
  /\ At(b, p) = 135 /\ At(b, p + 1) = 8 * c /\ p \in Nat
  /\ \E values : Holds(b, p + 2, values, 8 * c) /\ Quotes(values, c, Sent(s))
Parts5(b, s, k, n, c) ==
  /\ Says(b, k, 128, n, s.svId)
  /\ Says(b, k + 2 + n, 130, 2, Word(s.smpCnt))
  /\ Says(b, k + 6 + n, 131, 4, DWord(ConfRev))
  /\ Says(b, k + 12 + n, 133, 1, <<Synch>>)
  /\ SaysSamples(b, k + 15 + n, c, s)

LEMMA TagSays ==
  ASSUME NEW tag \in Int, NEW values, NEW m, HasLen(values, m), NEW e, e = 2 + m,
         NEW r, r = Tagged(tag, values), NEW b, NEW z, Sized(b, z), NEW p, Holds(b, p, r, e)
  PROVE  Says(b, p, tag, m, values)
BY TagAt DEF Says

LEMMA SamplesSay ==
  ASSUME NEW s, NEW c \in Nat, Len(Sent(s)) = c, c < 16, \A i \in 1..c : Signed(Sent(s)[i])
  PROVE  /\ HasLen(Sampled(s), 2 + 8 * c)
         /\ \A b, z, p : Sized(b, z) /\ Holds(b, p, Sampled(s), 2 + 8 * c) =>
              SaysSamples(b, p, c, s)
<1>1. PICK r, u, m, e : r = Sampled(s) /\ u = Sent(s) /\ m = 8 * c /\ e = 2 + m
  OBVIOUS
<1>2. r = SeqData(u)
  BY <1>1 DEF Sampled, Sent
<1>3. Len(u) = c /\ \A i \in 1..c : Signed(u[i])
  BY <1>1
<1>4. PICK t, values :
        /\ r = Joined(t, values) /\ HasLen(t, 2) /\ t[1] = 135 /\ t[2] = 8 * c
        /\ HasLen(values, 8 * c) /\ HasLen(r, 2 + 8 * c) /\ Quotes(values, c, u)
  <2>1. SeqDataOf(r, c, u)
    BY <1>2, <1>3, SeqDataIs
  <2> QED
    BY <2>1 DEF SeqDataOf
<1>5. HasLen(values, m) /\ t[2] = m
  BY <1>1, <1>4
<1>6. ASSUME NEW b, NEW z, NEW p, Sized(b, z), Holds(b, p, r, e) PROVE SaysSamples(b, p, c, s)
  <2>1. p \in Nat /\ At(b, p) = t[1] /\ At(b, p + 1) = t[2] /\ Holds(b, p + 2, values, m)
    <3>1. Sized(b, z) /\ Holds(b, p, r, e) /\ e = 2 + m /\ r = Joined(t, values) /\ HasLen(t, 2)
      BY <1>1, <1>4, <1>6
    <3> QED
      BY ONLY <1>5, <3>1, FieldAt, Zenon
  <2>2. At(b, p) = 135 /\ At(b, p + 1) = 8 * c /\ Holds(b, p + 2, values, 8 * c)
    BY <1>1, <1>4, <2>1
  <2> QED
    BY <1>1, <1>4, <2>1, <2>2, Zenon DEF SaysSamples
<1> QED
  BY <1>1, <1>4, <1>6

LEMMA PiecesSized ==
  ASSUME NEW s, NEW n, NEW c, Legible(s, n, c), Len(Sent(s)) = c,
         \A i \in 1..c : Signed(Sent(s)[i])
  PROVE  /\ HasLen(Named(s), 2 + n) /\ HasLen(Numbered(s), 4) /\ HasLen(Revised, 6)
         /\ HasLen(Synched, 3) /\ HasLen(Sampled(s), 2 + 8 * c)
<1>1. /\ HasLen(s.svId, n) /\ n \in Nat /\ s.smpCnt \in Int /\ Signed(ConfRev) /\ c \in Nat
      /\ c < 16 /\ Synch \in Int
  BY NumbersAssumption DEF Legible, HasLen
<1>2. PICK count, rev, synch, one, two, three, four, six, n1, q :
        /\ count = Word(s.smpCnt) /\ rev = DWord(ConfRev) /\ synch = <<Synch>>
        /\ one = 1 /\ two = 2 /\ three = two + one /\ four = two + two /\ six = two + four
        /\ n1 = two + n /\ q = 2 + 8 * c
  OBVIOUS
<1>3. HasLen(count, two) /\ HasLen(rev, four) /\ HasLen(synch, one)
  <2>1. HasLen(count, two)
    BY <1>1, <1>2, WordRead
  <2>2. HasLen(rev, 4)
    BY <1>1, <1>2, DWordRead
  <2>3. HasLen(synch, one)
    BY <1>1, <1>2 DEF HasLen
  <2> QED
    BY <1>2, <2>1, <2>2, <2>3
<1>a. /\ n1 = 2 + n /\ four = 2 + two /\ six = 2 + four /\ three = 2 + one
      /\ three = 3 /\ four = 4 /\ six = 6
  BY <1>2
<1>b. Named(s) = Tagged(128, s.svId) /\ Numbered(s) = Tagged(130, count)
      /\ Revised = Tagged(131, rev) /\ Synched = Tagged(133, synch)
  BY <1>2 DEF Named, Numbered, Revised, Synched
<1>c. PICK x0, x2, x3, x5 : x0 = 128 /\ x2 = 130 /\ x3 = 131 /\ x5 = 133
  OBVIOUS
<1>d. /\ Named(s) = Tagged(x0, s.svId) /\ Numbered(s) = Tagged(x2, count)
      /\ Revised = Tagged(x3, rev) /\ Synched = Tagged(x5, synch)
      /\ x0 \in Int /\ x2 \in Int /\ x3 \in Int /\ x5 \in Int
  BY <1>b, <1>c
<1>4. HasLen(Named(s), n1) /\ HasLen(Numbered(s), four) /\ HasLen(Revised, six)
      /\ HasLen(Synched, three)
  BY <1>1, <1>3, <1>a, <1>d, TagAt, Zenon
<1>5. HasLen(Sampled(s), q)
  BY <1>1, <1>2, SamplesSay
<1> QED
  BY <1>2, <1>4, <1>5, <1>a

LEMMA AsduSized ==
  ASSUME NEW s, NEW n, NEW c, Legible(s, n, c), Len(Sent(s)) = c,
         \A i \in 1..c : Signed(Sent(s)[i]), NEW asdu, asdu = EncodedAsdu(s)
  PROVE  Sized(asdu, 17 + n + 8 * c)
<1>1. PICK q : q = 2 + 8 * c
  OBVIOUS
<1>2. /\ HasLen(Named(s), 2 + n) /\ HasLen(Numbered(s), 4) /\ HasLen(Revised, 6)
      /\ HasLen(Synched, 3) /\ HasLen(Sampled(s), q)
  BY <1>1, PiecesSized
<1>3. n \in Nat /\ c \in Nat
  BY DEF Legible, HasLen
<1>4. Sized(asdu, 15 + n + q)
  BY <1>2, <1>3, AsduHolds
<1>5. 15 + n + q = 17 + n + 8 * c
  BY <1>1, <1>3
<1> QED
  BY <1>4, <1>5

LEMMA FieldsHold ==
  ASSUME NEW s, NEW n, NEW c, Legible(s, n, c), Len(Sent(s)) = c,
         \A i \in 1..c : Signed(Sent(s)[i]), NEW asdu, asdu = EncodedAsdu(s),
         NEW b, NEW z, Sized(b, z), NEW k \in Nat, Shifts(asdu, b, k)
  PROVE  Parts5(b, s, k, n, c)
<1>1. /\ HasLen(s.svId, n) /\ n \in Nat /\ s.smpCnt \in Int /\ Signed(ConfRev) /\ c \in Nat
      /\ c < 16 /\ Synch \in Int
  BY NumbersAssumption DEF Legible, HasLen
<1>2. PICK count, rev, synch, one, two, three, four, six, n1, q :
        /\ count = Word(s.smpCnt) /\ rev = DWord(ConfRev) /\ synch = <<Synch>>
        /\ one = 1 /\ two = 2 /\ three = two + one /\ four = two + two /\ six = two + four
        /\ n1 = two + n /\ q = 2 + 8 * c
  OBVIOUS
<1>3. HasLen(count, two) /\ HasLen(rev, four) /\ HasLen(synch, one)
  <2>1. HasLen(count, two)
    BY <1>1, <1>2, WordRead
  <2>2. HasLen(rev, 4)
    BY <1>1, <1>2, DWordRead
  <2>3. HasLen(synch, one)
    BY <1>1, <1>2 DEF HasLen
  <2> QED
    BY <1>2, <2>1, <2>2, <2>3
<1>a. /\ n1 = 2 + n /\ four = 2 + two /\ six = 2 + four /\ three = 2 + one
      /\ three = 3 /\ four = 4 /\ six = 6
  BY <1>2
<1>b. Named(s) = Tagged(128, s.svId) /\ Numbered(s) = Tagged(130, count)
      /\ Revised = Tagged(131, rev) /\ Synched = Tagged(133, synch)
  BY <1>2 DEF Named, Numbered, Revised, Synched
<1>c. PICK x0, x2, x3, x5 : x0 = 128 /\ x2 = 130 /\ x3 = 131 /\ x5 = 133
  OBVIOUS
<1>d. /\ Named(s) = Tagged(x0, s.svId) /\ Numbered(s) = Tagged(x2, count)
      /\ Revised = Tagged(x3, rev) /\ Synched = Tagged(x5, synch)
      /\ x0 \in Int /\ x2 \in Int /\ x3 \in Int /\ x5 \in Int
  BY <1>b, <1>c
<1>6. /\ Holds(asdu, 0, Named(s), n1) /\ Holds(asdu, 2 + n, Numbered(s), four)
      /\ Holds(asdu, 6 + n, Revised, six) /\ Holds(asdu, 12 + n, Synched, three)
      /\ Holds(asdu, 15 + n, Sampled(s), q)
  <2>1. /\ HasLen(Named(s), 2 + n) /\ HasLen(Numbered(s), 4) /\ HasLen(Revised, 6)
        /\ HasLen(Synched, 3) /\ HasLen(Sampled(s), q)
    BY <1>2, PiecesSized
  <2> QED
    BY <1>1, <1>a, <2>1, AsduHolds
<1>7. PICK p1, p2, p3, p4, p5 :
        p1 = k + 0 /\ p2 = k + (2 + n) /\ p3 = k + (6 + n) /\ p4 = k + (12 + n) /\ p5 = k + (15 + n)
  OBVIOUS
<1>8. /\ Holds(b, p1, Named(s), n1) /\ Holds(b, p2, Numbered(s), four)
      /\ Holds(b, p3, Revised, six) /\ Holds(b, p4, Synched, three) /\ Holds(b, p5, Sampled(s), q)
  BY <1>6, <1>7 DEF Shifts
<1>9. Sized(b, z)
  OBVIOUS
<1>10. /\ Says(b, p1, x0, n, s.svId) /\ Says(b, p2, x2, two, count)
       /\ Says(b, p3, x3, four, rev) /\ Says(b, p4, x5, one, synch)
  BY ONLY <1>1, <1>3, <1>8, <1>9, <1>a, <1>d, TagSays, Zenon
<1>11. SaysSamples(b, p5, c, s)
  <2>1. Holds(b, p5, Sampled(s), 2 + 8 * c)
    BY <1>2, <1>8
  <2> QED
    BY <1>1, <1>9, <2>1, SamplesSay
<1>12. p1 = k /\ p2 = k + 2 + n /\ p3 = k + 6 + n /\ p4 = k + 12 + n /\ p5 = k + 15 + n
  BY <1>1, <1>7
<1>13. /\ Says(b, k, 128, n, s.svId)
       /\ Says(b, k + 2 + n, 130, 2, Word(s.smpCnt))
       /\ Says(b, k + 6 + n, 131, 4, DWord(ConfRev))
       /\ Says(b, k + 12 + n, 133, 1, <<Synch>>)
  BY <1>2, <1>10, <1>12, <1>a, <1>c
<1> QED
  BY <1>11, <1>12, <1>13 DEF Parts5

\* The walk over an ASDU of len bytes whose first field is at k.
Walks(f, b, k, len) == f = WalkUpTo(f, b, k + len, [pos |-> k, asdu |-> NoAsdu], len)
Whole(len, n, c) == len = 17 + n + 8 * c
Reading(b, s, k, n, c) ==
  Read(s.svId, U16(b, k + 4 + n), ConfRev, Synch, [i \in 1..Eight(c) |-> Sent(s)[i]])
LEMMA WalkIs ==
  ASSUME NEW s, NEW n, NEW c, Legible(s, n, c), \A i \in 1..c : Signed(Sent(s)[i]),
         NEW b, NEW z, Sized(b, z), NEW k \in Nat, Parts5(b, s, k, n, c),
         NEW len, Whole(len, n, c), NEW f, Walks(f, b, k, len)
  PROVE  f[len].asdu = Reading(b, s, k, n, c)
<1>0. PICK end : end = k + len
  OBVIOUS
<1>1. /\ HasLen(s.svId, n) /\ n \in Nat /\ Signed(ConfRev) /\ c \in Nat
  BY DEF Legible, HasLen
<1>2. PICK p1, p2, p3, p4, p5 :
        /\ p1 = k + 2 + n /\ p2 = k + 6 + n /\ p3 = k + 12 + n /\ p4 = k + 15 + n
        /\ p5 = k + 17 + n + 8 * c
  OBVIOUS
<1>3. /\ k \in Int /\ p1 \in Nat /\ p2 \in Nat /\ p3 \in Nat /\ p4 \in Nat /\ end \in Int
      /\ len \in Nat /\ 5 <= len
      /\ k < end /\ p1 < end /\ p2 < end /\ p3 < end /\ p4 < end /\ p5 = end
  BY <1>0, <1>1, <1>2 DEF Whole
<1>4. /\ f[0] = [pos |-> k, asdu |-> NoAsdu]
      /\ \A j \in 1..5 : f[j] = NextField(b, end, f[j - 1])
  <2>1. \A j \in 0..len : f[j] = IF j = 0 THEN [pos |-> k, asdu |-> NoAsdu]
                                 ELSE NextField(b, end, f[j - 1])
    BY <1>0 DEF WalkUpTo, Walks
  <2>2. 0 \in 0..len /\ \A j \in 1..5 : j \in 0..len /\ j # 0
    BY <1>3
  <2> QED
    BY <2>1, <2>2
<1>5. /\ f[1] = NextField(b, end, f[0]) /\ f[2] = NextField(b, end, f[1])
      /\ f[3] = NextField(b, end, f[2]) /\ f[4] = NextField(b, end, f[3])
      /\ f[5] = NextField(b, end, f[4])
  BY <1>4
<1>6. NoAsdu = Read(<<>>, 0, 0, 0, <<>>)
  BY DEF NoAsdu, Read
<1>7. PICK a0, a1, a2, a3, a4, a5 :
        /\ a0 = Read(<<>>, 0, 0, 0, <<>>) /\ a1 = Read(s.svId, 0, 0, 0, <<>>)
        /\ a2 = Read(s.svId, U16(b, p1 + 2), 0, 0, <<>>)
        /\ a3 = Read(s.svId, U16(b, p1 + 2), ConfRev, 0, <<>>)
        /\ a4 = Read(s.svId, U16(b, p1 + 2), ConfRev, Synch, <<>>)
        /\ a5 = Read(s.svId, U16(b, p1 + 2), ConfRev, Synch, [i \in 1..Eight(c) |-> Sent(s)[i]])
  OBVIOUS
<1>8. f[1] = [pos |-> p1, asdu |-> a1]
  <2>1. At(b, k) = 128 /\ At(b, k + 1) = n /\ Holds(b, k + 2, s.svId, n)
    BY DEF Parts5, Says
  <2>2. WithField(b, end, a0, k) = a1
    BY <1>1, <1>7, <2>1, NameRead
  <2>3. f[0] = [pos |-> k, asdu |-> a0] /\ p1 = k + 2 + n
    BY <1>2, <1>4, <1>6, <1>7
  <2>4. NextField(b, end, f[0]) = [pos |-> p1, asdu |-> a1]
    BY <1>3, <2>1, <2>2, <2>3, StepIs
  <2> QED
    BY <1>5, <2>4
<1>9. f[2] = [pos |-> p2, asdu |-> a2]
  <2>1. At(b, p1) = 130 /\ At(b, p1 + 1) = 2
    BY <1>2 DEF Parts5, Says
  <2>2. WithField(b, end, a1, p1) = a2
    BY <1>7, <2>1, CountRead
  <2>3. p2 = p1 + 2 + 2
    BY <1>1, <1>2
  <2>4. NextField(b, end, f[1]) = [pos |-> p2, asdu |-> a2]
    BY <1>3, <1>8, <2>1, <2>2, <2>3, StepIs
  <2> QED
    BY <1>5, <2>4
<1>10. f[3] = [pos |-> p3, asdu |-> a3]
  <2>1. At(b, p2) = 131 /\ At(b, p2 + 1) = 4 /\ Holds(b, p2 + 2, DWord(ConfRev), 4)
    BY <1>2 DEF Parts5, Says
  <2>2. WithField(b, end, a2, p2) = a3
    BY <1>1, <1>3, <1>7, <2>1, RevisionRead
  <2>3. p3 = p2 + 2 + 4
    BY <1>1, <1>2
  <2>4. NextField(b, end, f[2]) = [pos |-> p3, asdu |-> a3]
    BY <1>3, <1>9, <2>1, <2>2, <2>3, StepIs
  <2> QED
    BY <1>5, <2>4
<1>11. f[4] = [pos |-> p4, asdu |-> a4]
  <2>1. At(b, p3) = 133 /\ At(b, p3 + 1) = 1 /\ Holds(b, p3 + 2, <<Synch>>, 1)
    BY <1>2 DEF Parts5, Says
  <2>2. At(b, p3 + 2) = Synch
    <3>1. p3 + 2 = p3 + 2 + 1 - 1 /\ 1 \in 1..1
      BY <1>3
    <3>2. At(b, p3 + 2) = <<Synch>>[1]
      BY <2>1, <3>1, HoldsAt
    <3> QED
      BY <3>2
  <2>3. WithField(b, end, a3, p3) = a4
    BY <1>7, <2>1, <2>2, SynchRead
  <2>4. p4 = p3 + 2 + 1
    BY <1>1, <1>2
  <2>5. NextField(b, end, f[3]) = [pos |-> p4, asdu |-> a4]
    BY <1>3, <1>10, <2>1, <2>3, <2>4, StepIs
  <2> QED
    BY <1>5, <2>5
<1>12. f[5] = [pos |-> p5, asdu |-> a5]
  <2>1. At(b, p4) = 135 /\ At(b, p4 + 1) = 8 * c
    BY <1>2 DEF Parts5, SaysSamples
  <2>2. PICK values : Holds(b, p4 + 2, values, 8 * c) /\ Quotes(values, c, Sent(s))
    BY <1>2 DEF Parts5, SaysSamples
  <2>3. end = p4 + 2 + 8 * c /\ p5 = p4 + 2 + 8 * c
    BY <1>1, <1>2, <1>3
  <2>4. WithField(b, end, a4, p4) = a5
    <3>1. PICK x2 : x2 = U16(b, p1 + 2)
      OBVIOUS
    <3>2. WithField(b, end, Read(s.svId, x2, ConfRev, Synch, <<>>), p4)
            = Read(s.svId, x2, ConfRev, Synch, [i \in 1..Eight(c) |-> Sent(s)[i]])
      <4>1. /\ Sized(b, z) /\ p4 \in Nat /\ At(b, p4) = 135 /\ c \in Nat
            /\ Holds(b, p4 + 2, values, 8 * c) /\ Quotes(values, c, Sent(s))
            /\ end = p4 + 2 + 8 * c
        BY <1>1, <1>3, <2>1, <2>2, <2>3
      <4> QED
        BY ONLY <4>1, SamplesRead
    <3> QED
      BY <1>7, <3>1, <3>2
  <2>5. PICK m : m = 8 * c
    OBVIOUS
  <2>6. At(b, p4 + 1) = m /\ p5 = p4 + 2 + m
    BY <2>1, <2>3, <2>5
  <2>7. NextField(b, end, f[4]) = [pos |-> p5, asdu |-> a5]
    BY <1>3, <1>11, <2>4, <2>6, StepIs
  <2> QED
    BY <1>5, <2>7
<1>13. f[len] = f[5]
  <2>1. f[5].pos >= end
    BY <1>3, <1>12
  <2>2. f = WalkUpTo(f, b, end, [pos |-> k, asdu |-> NoAsdu], len)
    BY <1>0 DEF Walks
  <2> QED
    BY <1>3, <2>1, <2>2, WalkEnds
<1>14. p1 + 2 = k + 4 + n
  BY <1>1, <1>2
<1> QED
  BY <1>7, <1>12, <1>13, <1>14 DEF Reading

\* What the parser makes of the whole frame.
LEMMA AsduRead ==
  ASSUME NEW s, NEW n, NEW c, Legible(s, n, c), Len(Sent(s)) = c,
         \A i \in 1..c : Signed(Sent(s)[i]), NEW asdu, asdu = EncodedAsdu(s),
         NEW b, NEW z, Sized(b, z), NEW k \in Nat, Shifts(asdu, b, k + 4), NEW o,
         Opened(b, k, 48, o), Whole(Read2(o[3], o[4]), n, c)
  PROVE  ParsedAsdu(b, k) = Reading(b, s, k + 4, n, c)
<1>1. PICK start, len, end : start = k + 4 /\ len = Read2(o[3], o[4]) /\ end = start + len
  OBVIOUS
<1>2. n \in Nat /\ c \in Nat /\ Whole(len, n, c)
  BY <1>1 DEF Legible, HasLen
<1>3. /\ At(b, k) = 48 /\ LengthEnd(b, k + 1) = start /\ LengthAt(b, k + 1) = len
      /\ start \in Nat /\ len \in Nat
  <2>1. len \in Nat
    BY <1>2 DEF Whole
  <2> QED
    BY <1>1, <2>1, OpeningRead
<1>4. PICK f : /\ ParsedAsdu(b, k) = f[len].asdu
               /\ f = WalkUpTo(f, b, end, [pos |-> start, asdu |-> NoAsdu], len)
  BY <1>1, <1>3, ParsedBy
<1>5. Parts5(b, s, start, n, c)
  BY <1>1, <1>3, FieldsHold
<1>6. Walks(f, b, start, len)
  BY <1>1, <1>4 DEF Walks
<1>7. f[len].asdu = Reading(b, s, start, n, c)
  BY <1>2, <1>3, <1>5, <1>6, WalkIs
<1> QED
  BY <1>1, <1>4, <1>7

\* The header, with a tag and without.
LEMMA TagRead ==
  ASSUME NEW s, s.vlan \in Nat, s.vlan < 4096, s.prio \in Nat, s.prio < 8,
         NEW b, NEW z, Sized(b, z), Holds(b, 12, VlanBytes(s.prio, s.vlan), 4)
  PROVE  HasVlan(b) /\ U16(b, 14) % 4096 = s.vlan
<1> DEFINE t == <<129, 0>>
<1>a. t = <<129, 0>>
  OBVIOUS
<1> HIDE DEF t
<1>b. PICK n : n = s.prio * 8192 + s.vlan
  OBVIOUS
<1>0. t = <<129, 0>> /\ n = s.prio * 8192 + s.vlan
  BY <1>a, <1>b
<1>1. PICK w, r, two, four, p, q :
        /\ w = Word(n) /\ r = Joined(t, w)
        /\ two = 2 /\ four = two + two /\ p = 12 /\ q = p + two
  OBVIOUS
<1>2. n \in Int /\ 0 <= n /\ n < 65536 /\ n % 4096 = s.vlan
  <2>1. PICK x, y : x = s.prio /\ y = s.vlan
    OBVIOUS
  <2>2. x \in Int /\ y \in Int /\ 0 <= x /\ x < 8 /\ 0 <= y /\ y < 4096 /\ n = x * 8192 + y
    BY <1>0, <2>1
  <2>3. n % 4096 = y
    <3>1. PICK m : m = 2 * x
      OBVIOUS
    <3>2. m \in Int /\ n = 4096 * m + y
      BY <2>2, <3>1, SMT
    <3> QED
      BY <2>2, <3>2, SMT
  <2>4. n \in Int /\ 0 <= n /\ n < 65536
    BY <2>2, SMT
  <2> QED
    BY <2>1, <2>3, <2>4
<1>3. HasLen(w, 2) /\ Read2(w[1], w[2]) = n
  BY <1>1, <1>2, WordRead
<1>4. HasLen(t, two) /\ HasLen(w, two) /\ t[1] = 129 /\ t[2] = 0
  BY <1>0, <1>1, <1>3 DEF HasLen
<1>5. r = VlanBytes(s.prio, s.vlan) /\ four = 4
  BY <1>0, <1>1 DEF VlanBytes, Joined
<1>6. Holds(b, p, t, two) /\ Holds(b, q, w, two)
  <2>1. Holds(b, p, r, four) /\ Sized(b, z) /\ r = Joined(t, w) /\ four = two + two /\ q = p + two
    BY <1>1, <1>5
  <2> QED
    BY ONLY <1>4, <2>1, HoldsHalves, Zenon
<1>7. 12 = p + 1 - 1 /\ 13 = p + 2 - 1 /\ 14 = q + 1 - 1 /\ 14 + 1 = q + 2 - 1
  BY <1>1
<1>8. 1 \in 1..two /\ 2 \in 1..two
  BY <1>1
<1>9. At(b, 12) = t[1] /\ At(b, 13) = t[2] /\ At(b, 14) = w[1] /\ At(b, 14 + 1) = w[2]
  BY <1>6, <1>7, <1>8, HoldsAt
<1>10. HasVlan(b)
  BY <1>4, <1>9 DEF HasVlan
<1>11. U16(b, 14) = n
  BY <1>3, <1>9 DEF U16, Read2
<1> QED
  BY <1>2, <1>10, <1>11

LEMMA HeaderRead ==
  ASSUME NEW s, s.vlan \in Nat, s.vlan < 4096, s.prio \in Nat, s.prio < 8, AppId < 65536,
         NEW asdu, NEW l, NEW h, h = AppIdAt(s), NEW b, Framed(b, s, asdu, l, h)
  PROVE  /\ SvHeader(b) = h /\ (HasVlan(b) <=> s.vlan > 0)
         /\ s.vlan > 0 => U16(b, 14) % 4096 = s.vlan
         /\ U16(b, h) = AppId /\ At(b, h + 8) = 96 /\ FirstAsdu(b, h + 8) = h + 19
<1>1. h \in Nat /\ \E z : Sized(b, z)
  BY DEF AppIdAt, Framed
<1>2. PICK z : Sized(b, z)
  BY <1>1
<1>3. s.vlan > 0 => HasVlan(b) /\ U16(b, 14) % 4096 = s.vlan
  BY <1>2, TagRead DEF Framed
<1>4. ~(s.vlan > 0) => ~HasVlan(b)
  <2> SUFFICES ASSUME ~(s.vlan > 0) PROVE ~HasVlan(b)
    OBVIOUS
  <2>1. Holds(b, 12, <<136, 186>>, 2)
    BY DEF Framed
  <2>2. 12 = 12 + 1 - 1 /\ 1 \in 1..2
    OBVIOUS
  <2>3. At(b, 12) = <<136, 186>>[1]
    BY <2>1, <2>2, HoldsAt
  <2> QED
    BY <2>3 DEF HasVlan
<1>5. SvHeader(b) = h
  BY <1>3, <1>4 DEF SvHeader, AppIdAt
<1>6. U16(b, h) = AppId
  <2>1. AppId \in Int /\ 0 <= AppId
    BY NumbersAssumption
  <2>2. PICK w : w = Word(AppId)
    OBVIOUS
  <2>3. Read2(w[1], w[2]) = AppId
    BY <2>1, <2>2, WordRead
  <2>4. Holds(b, h, w, 2) /\ h = h + 1 - 1 /\ h + 1 = h + 2 - 1 /\ 1 \in 1..2 /\ 2 \in 1..2
    BY <1>1, <2>2 DEF Framed
  <2>5. At(b, h) = w[1] /\ At(b, h + 1) = w[2]
    BY <2>4, HoldsAt
  <2> QED
    BY <2>3, <2>5 DEF U16, Read2
<1>7. At(b, h + 8) = 96 /\ LengthEnd(b, h + 8 + 1) = h + 12
  <2>1. PICK o : Opened(b, h + 8, 96, o)
    BY DEF Framed
  <2>2. At(b, h + 8) = 96 /\ LengthEnd(b, h + 8 + 1) = h + 8 + 4
    BY <1>2, <2>1, OpeningRead
  <2> QED
    BY <1>1, <2>2
<1>8. At(b, h + 12) = 128
  <2>1. Holds(b, h + 12, <<128, 1, 1>>, 3) /\ h + 12 = h + 12 + 1 - 1 /\ 1 \in 1..3
    BY <1>1 DEF Framed
  <2>2. At(b, h + 12) = <<128, 1, 1>>[1]
    BY <2>1, HoldsAt
  <2> QED
    BY <2>2
<1>9. LengthEnd(b, h + 15 + 1) = h + 19
  <2>1. PICK o : Opened(b, h + 15, 162, o)
    BY DEF Framed
  <2>2. LengthEnd(b, h + 15 + 1) = h + 15 + 4
    BY <1>2, <2>1, OpeningRead
  <2> QED
    BY <1>1, <2>2
<1>10. FirstAsdu(b, h + 8) = h + 19
  <2>1. h + 12 + 3 = h + 15
    BY <1>1
  <2> QED
    BY <1>7, <1>8, <1>9, <2>1 DEF FirstAsdu
<1> QED
  BY <1>3, <1>4, <1>5, <1>6, <1>7, <1>10

\* What the parser makes of the frame of s: what s was.
LEMMA FrameRead ==
  ASSUME NEW s, NEW n, NEW c, Legible(s, n, c), Len(Sent(s)) = c,
         \A i \in 1..c : Signed(Sent(s)[i]), NEW b, b = Encoded(s)
  PROVE  /\ Parsed(b).vlan = s.vlan /\ Parsed(b).appId = AppId
         /\ Parsed(b).asdu.svId = s.svId /\ Parsed(b).asdu.confRev = ConfRev
         /\ Parsed(b).asdu.synch = Synch
         /\ Parsed(b).asdu.samples = [i \in 1..Eight(c) |-> Sent(s)[i]]
<1>1. /\ s.vlan \in Nat /\ s.vlan < 4096 /\ s.prio \in Nat /\ s.prio < 8 /\ AppId < 65536
      /\ n \in Nat /\ n < 256 /\ c \in Nat /\ c < 16
  BY DEF Legible, HasLen
<1>2. PICK asdu, l, h : asdu = EncodedAsdu(s) /\ l = 17 + n + 8 * c /\ h = AppIdAt(s)
  OBVIOUS
<1>3. Sized(asdu, l) /\ l < 65536 /\ h \in Nat
  BY <1>1, <1>2, AsduSized DEF AppIdAt
<1>4. Framed(b, s, asdu, l, h)
  BY <1>1, <1>2, <1>3, FrameHolds
<1>5. /\ SvHeader(b) = h /\ (HasVlan(b) <=> s.vlan > 0)
      /\ s.vlan > 0 => U16(b, 14) % 4096 = s.vlan
      /\ U16(b, h) = AppId /\ At(b, h + 8) = 96 /\ FirstAsdu(b, h + 8) = h + 19
  BY <1>1, <1>2, <1>4, HeaderRead
<1>6. PICK o : Opened(b, h + 19, 48, o) /\ Read2(o[3], o[4]) = l
  BY <1>3, <1>4 DEF Framed
<1>7. Whole(Read2(o[3], o[4]), n, c)
  BY <1>2, <1>6 DEF Whole
<1>8. PICK k : k = h + 19
  OBVIOUS
<1>9. /\ k \in Nat /\ Shifts(asdu, b, k + 4) /\ k + 4 = h + 23 /\ \E z : Sized(b, z)
      /\ Opened(b, k, 48, o)
  <2>1. k \in Nat /\ k + 4 = h + 23
    BY <1>3, <1>8
  <2> QED
    BY <1>4, <1>6, <1>8, <2>1 DEF Framed
<1>10. ParsedAsdu(b, k) = Reading(b, s, k + 4, n, c)
  BY <1>2, <1>7, <1>9, AsduRead
<1>11. Parsed(b).asdu = Reading(b, s, k + 4, n, c)
  BY <1>5, <1>8, <1>10 DEF Parsed
<1>12. Parsed(b).vlan = s.vlan /\ Parsed(b).appId = AppId
  BY <1>1, <1>5 DEF Parsed
<1> QED
  BY <1>11, <1>12 DEF Reading, Read

-----------------------------------------------------------------------------
(* Which frames there are: of names, lists and settings the page had.      *)
SvIds == {Name[m] : m \in Mus} \cup {NewName}
FrameKnown(f) ==
  \/ f = NoFrame
  \/ /\ f.svId \in SvIds /\ Listing(f.list) /\ f.vlan \in Vlans
     /\ \E p \in Prios : f.prio = Effective(p)
NamesKnown(ps) == \A m \in DOMAIN ps : ps[m].svId \in SvIds
Known == NamesKnown(pubs) /\ FrameKnown(backend) /\ FrameKnown(view.real)

LEMMA InitKnown == ViewInit => Known
<1> SUFFICES ASSUME ViewInit PROVE Known
  OBVIOUS
<1>1. pubs = [m \in Mus |-> [svId |-> Name[m], list |-> InitialList]] /\ backend = NoFrame
  BY DEF ViewInit
<1>2. view.real = NoFrame
  BY DEF ViewInit
<1>3. NamesKnown(pubs)
  BY <1>1 DEF NamesKnown, SvIds
<1> QED
  BY <1>1, <1>2, <1>3 DEF Known, FrameKnown

\* A handler that leaves the streams, or their names, and the two frames alone.
LEMMA FramesStay ==
  ASSUME Known, NamesKnown(pubs'), backend' = backend, view'.real = view.real
  PROVE  Known'
BY DEF Known, FrameKnown

LEMMA AllStay ==
  ASSUME Known, pubs' = pubs, backend' = backend, view'.real = view.real
  PROVE  Known'
<1>1. NamesKnown(pubs')
  BY DEF Known
<1> QED
  BY <1>1, FramesStay

\* What becomes of the names when a list is changed.
LEMMA ListNames ==
  ASSUME NamesKnown(pubs), StreamsAre(pubs), NEW m \in DOMAIN pubs, NEW list,
         NEW ps, ps = [pubs EXCEPT ![m].list = list]
  PROVE  NamesKnown(ps)
<1>1. DOMAIN ps = DOMAIN pubs /\ \A k \in DOMAIN pubs : k # m => ps[k] = pubs[k]
      /\ ps[m] = [pubs[m] EXCEPT !.list = list]
  BY DEF StreamsAre
<1>2. pubs[m] = [svId |-> pubs[m].svId, list |-> pubs[m].list]
  BY DEF StreamsAre
<1>3. ps[m].svId = pubs[m].svId
  BY <1>1, <1>2
<1> QED
  BY <1>1, <1>3 DEF NamesKnown

LEMMA ListBecomesKnown ==
  ASSUME Viewing, Known, NEW list, ListBecomes(list), backend' = backend
  PROVE  Known'
<1>1. Shows(active, pubs) /\ StreamsAre(pubs) /\ NamesKnown(pubs)
  BY DEF Viewing, PanelIs, Known
<1>2. CASE active = NoMu
  <2>1. pubs' = pubs /\ view' = view
    BY <1>2 DEF ListBecomes, Configure
  <2> QED
    BY <2>1, AllStay
<1>3. CASE active # NoMu
  <2>1. pubs' = [pubs EXCEPT ![active.id].list = list] /\ view' = view
    BY <1>3 DEF ListBecomes, Inspect
  <2>2. active.id \in DOMAIN pubs
    BY <1>1, <1>3 DEF Shows
  <2>3. NamesKnown(pubs')
    BY <1>1, <2>1, <2>2, ListNames, ZenonT(60)
  <2> QED
    BY <2>1, <2>3, FramesStay
<1> QED
  BY <1>2, <1>3

\* Of what is written in the view's record the frame is no part.
LEMMA RealStays ==
  ASSUME ViewIs(view), NEW v,
         \/ \E x : v = [view EXCEPT !.expanded = x]
         \/ \E x : v = [view EXCEPT !.editing = x]
         \/ \E x, y : v = [view EXCEPT !.source = x, !.buttons = y]
  PROVE  v.real = view.real
<1>1. ASSUME NEW x, v = [view EXCEPT !.expanded = x] PROVE v.real = view.real
  BY <1>1 DEF ViewIs
<1>2. ASSUME NEW x, v = [view EXCEPT !.editing = x] PROVE v.real = view.real
  BY <1>2 DEF ViewIs
<1>3. ASSUME NEW x, NEW y, v = [view EXCEPT !.source = x, !.buttons = y]
      PROVE v.real = view.real
  BY <1>3 DEF ViewIs
<1> QED
  BY <1>1, <1>2, <1>3

LEMMA TreeHandlersKnow ==
  ASSUME Viewing, Known,
         \/ \E n \in Toggled : ClickNode(n)
         \/ ExpandAll \/ CollapseAll
         \/ \E n \in AsduCounts : ChooseAsdu(n)
         \/ EnterEdit \/ SaveEdits
         \/ \E p \in Priorities : TypePriority(p)
         \/ TypeName(NewName)
         \/ Refresh \/ LiveValues
  PROVE  Known'
<1>0. ViewIs(view)
  BY DEF Viewing
<1>1. ASSUME NEW n, ClickNode(n) PROVE Known'
  <2>1. pubs' = pubs /\ backend' = backend /\ \E x : view' = [view EXCEPT !.expanded = x]
    BY <1>1 DEF ClickNode, Toggle, PanelStays
  <2> QED
    BY <1>0, <2>1, RealStays, AllStay
<1>2. CASE ExpandAll \/ CollapseAll
  <2>1. pubs' = pubs /\ backend' = backend /\ \E x : view' = [view EXCEPT !.expanded = x]
    BY <1>2 DEF ExpandAll, CollapseAll, Redraw, PanelStays
  <2> QED
    BY <1>0, <2>1, RealStays, AllStay
<1>3. ASSUME NEW n, ChooseAsdu(n) PROVE Known'
  <2>1. pubs' = pubs /\ backend' = backend /\ view' = view
    BY <1>3 DEF ChooseAsdu
  <2> QED
    BY <2>1, AllStay
<1>4. CASE EnterEdit \/ SaveEdits
  <2>1. pubs' = pubs /\ backend' = backend /\ \E x : view' = [view EXCEPT !.editing = x]
    BY <1>4 DEF EnterEdit, SaveEdits, PanelStays
  <2> QED
    BY <1>0, <2>1, RealStays, AllStay
<1>5. ASSUME NEW p, TypePriority(p) \/ TypeName(p) PROVE Known'
  <2>1. pubs' = pubs /\ backend' = backend /\ view' = view
    BY <1>5 DEF TypePriority, TypeName, PanelStays
  <2> QED
    BY <2>1, AllStay
<1>6. CASE Refresh
  <2>1. /\ pubs' = pubs /\ backend' = backend
        /\ view' = [view EXCEPT !.source = "fetching", !.buttons = FALSE]
    BY <1>6 DEF Refresh, PanelStays
  <2>2. view'.real = view.real
    BY <1>0, <2>1, RealStays
  <2> QED
    BY <2>1, <2>2, AllStay
<1>7. CASE LiveValues
  <2>1. pubs' = pubs /\ backend' = backend /\ view' = view
    BY <1>7 DEF LiveValues, PanelStays
  <2> QED
    BY <2>1, AllStay
<1> QED
  BY <1>1, <1>2, <1>3, <1>4, <1>5, <1>6, <1>7

LEMMA AnswersKnow ==
  ASSUME Viewing, Known, FrameAnswered \/ FrameRefused
  PROVE  Known'
<1>0. ViewIs(view) /\ NamesKnown(pubs)
  BY DEF Viewing, Known
<1>1. CASE FrameAnswered
  <2>1. /\ view' = [view EXCEPT !.real = backend, !.source = "real"]
        /\ pubs' = pubs /\ backend' = backend
    BY <1>1 DEF FrameAnswered, PanelStays
  <2>2. view'.real = backend
    BY <1>0, <2>1 DEF ViewIs
  <2> QED
    BY <1>0, <2>1, <2>2 DEF Known, FrameKnown
<1>2. CASE FrameRefused
  <2>1. /\ view' = [view EXCEPT !.real = NoFrame, !.source = "unavailable"]
        /\ pubs' = pubs /\ backend' = backend
    BY <1>2 DEF FrameRefused, Redraw, PanelStays
  <2>2. view'.real = NoFrame
    BY <1>0, <2>1 DEF ViewIs
  <2> QED
    BY <1>0, <2>1, <2>2 DEF Known, FrameKnown
<1> QED
  BY <1>1, <1>2

\* The frame of the lowest stream.
LEMMA StartKnows == Viewing /\ Known /\ StartStreams => Known'
<1> SUFFICES ASSUME Viewing, Known, StartStreams PROVE Known'
  OBVIOUS
<1>1. /\ StreamsAre(pubs) /\ ConfigIs(config) /\ NamesKnown(pubs) /\ FrameKnown(view.real)
  BY DEF Viewing, PanelIs, Known
<1>2. /\ pubs # <<>> /\ pubs' = pubs /\ view' = view
      /\ backend' = Frame(pubs[Lowest].svId, pubs[Lowest].list, config, 1)
  BY DEF StartStreams, PanelStays
<1>3. DOMAIN pubs # {}
  <2> SUFFICES ASSUME DOMAIN pubs = {} PROVE FALSE
    OBVIOUS
  <2>1. pubs = [k \in {} |-> pubs[k]]
    BY <1>1 DEF StreamsAre
  <2>2. pubs = <<>>
    BY <2>1
  <2> QED
    BY <1>2, <2>2
<1>4. Lowest \in DOMAIN pubs
  <2>1. DOMAIN pubs \subseteq Nat
    BY <1>1, MusAssumption DEF StreamsAre
  <2>2. \E k \in DOMAIN pubs : \A j \in DOMAIN pubs : k <= j
    BY <1>3, <2>1, LeastNat
  <2> QED
    BY <2>2 DEF Lowest
<1> DEFINE f == Frame(pubs[Lowest].svId, pubs[Lowest].list, config, 1)
<1>5. /\ f.svId = pubs[Lowest].svId /\ f.list = pubs[Lowest].list /\ f.vlan = config.vlan
      /\ f.prio = Effective(config.prio)
  BY DEF Frame
<1> HIDE DEF f
<1>6. FrameKnown(f)
  BY <1>1, <1>4, <1>5 DEF FrameKnown, NamesKnown, StreamsAre, ConfigIs
<1>7. FrameKnown(backend')
  BY <1>2, <1>6 DEF f
<1> QED
  BY <1>1, <1>2, <1>7 DEF Known, FrameKnown

LEMMA PanelHandlersKnow ==
  ASSUME Viewing, Known,
         \/ \E m \in Mus : Pick(m) \/ Rename(m) \/ RemoveStream(m)
         \/ StartStreams
         \/ AddChannel
  PROVE  Known'
<1>0. StreamsAre(pubs) /\ NamesKnown(pubs)
  BY DEF Viewing, PanelIs, Known
<1>1. ASSUME NEW m, Pick(m) PROVE Known'
  <2>1. pubs' = pubs /\ backend' = backend /\ view' = view
    BY <1>1 DEF Pick, Inspect
  <2> QED
    BY <2>1, AllStay
<1>2. ASSUME NEW m, Rename(m) PROVE Known'
  <2>1. /\ pubs' = [pubs EXCEPT ![m].svId = NewName] /\ backend' = backend /\ view' = view
        /\ m \in DOMAIN pubs
    BY <1>2 DEF Rename
  <2>2. /\ DOMAIN pubs' = DOMAIN pubs /\ \A k \in DOMAIN pubs : k # m => pubs'[k] = pubs[k]
        /\ pubs'[m] = [pubs[m] EXCEPT !.svId = NewName]
    BY <1>0, <2>1 DEF StreamsAre
  <2>3. pubs[m] = [svId |-> pubs[m].svId, list |-> pubs[m].list]
    BY <1>0, <2>1 DEF StreamsAre
  <2>4. pubs'[m].svId = NewName
    BY <2>2, <2>3
  <2>5. NamesKnown(pubs')
    BY <1>0, <2>2, <2>4 DEF NamesKnown, SvIds
  <2> QED
    BY <2>1, <2>5, FramesStay
<1>3. ASSUME NEW m, RemoveStream(m) PROVE Known'
  <2>1. /\ pubs' = [k \in DOMAIN pubs \ {m} |-> pubs[k]] /\ backend' = backend /\ view' = view
    BY <1>3 DEF RemoveStream, Inspect
  <2>2. NamesKnown(pubs')
    BY <1>0, <2>1 DEF NamesKnown
  <2> QED
    BY <2>1, <2>2, FramesStay
<1>4. CASE StartStreams
  BY <1>4, StartKnows
<1>5. CASE AddChannel
  BY <1>5, ListBecomesKnown DEF AddChannel
<1> QED
  BY <1>1, <1>2, <1>3, <1>4, <1>5

LEMMA ChannelHandlersKnow ==
  ASSUME Viewing, Known,
         \/ \E i \in 1..Len(Pool) : RemoveChannel(i) \/ OwnDragStarts(i)
         \/ \E i \in 1..Len(Pool), ch \in ToSet(Pool) : ChangeChannel(i, ch)
         \/ \E i \in 0..Len(Pool) : OwnDragEnds(i)
         \/ \E ch \in ToSet(Pool) : StartDrag(ch)
         \/ \E over \in BOOLEAN : DragMoves(over) \/ DragDrops(over)
         \/ DragLeavesWindow
  PROVE  Known'
<1>0. StreamsAre(pubs) /\ NamesKnown(pubs) /\ Shows(active, pubs)
  BY DEF Viewing, PanelIs, Known
<1>a. ASSUME ListStays, backend' = backend PROVE Known'
  <2>1. pubs' = pubs /\ view' = view
    BY <1>a DEF ListStays, PanelStays
  <2> QED
    BY <1>a, <2>1, AllStay
<1>1. ASSUME NEW i, RemoveChannel(i) PROVE Known'
  BY <1>1, ListBecomesKnown DEF RemoveChannel
<1>2. ASSUME NEW i, OwnDragStarts(i) PROVE Known'
  <2>1. pubs' = pubs /\ backend' = backend /\ view' = view
    BY <1>2 DEF OwnDragStarts, PanelStays
  <2> QED
    BY <2>1, AllStay
<1>3. ASSUME NEW i, NEW ch, ChangeChannel(i, ch) PROVE Known'
  BY <1>3, ListBecomesKnown DEF ChangeChannel
<1>4. ASSUME NEW i, OwnDragEnds(i) PROVE Known'
  <2>1. backend' = backend /\ view' = view
    BY <1>4 DEF OwnDragEnds
  <2>2. CASE i # 0 /\ (i # own.row \/ own.stale) /\ own.row \in DOMAIN EffectiveList
    <3> DEFINE list == Moved(pubs[active.id].list, own.row, i)
    <3>1. pubs' = [pubs EXCEPT ![active.id].list = list]
      BY <1>4, <2>2 DEF OwnDragEnds
    <3>2. active.id \in DOMAIN pubs
      <4>1. active # NoMu
        BY <1>4, <2>2, EffectiveIs DEF OwnDragEnds
      <4> QED
        BY <1>0, <4>1 DEF Shows
    <3> HIDE DEF list
    <3>3. NamesKnown(pubs')
      BY <1>0, <3>1, <3>2, ListNames, ZenonT(60)
    <3> QED
      BY <2>1, <3>3, FramesStay
  <2>3. CASE ~(i # 0 /\ (i # own.row \/ own.stale) /\ own.row \in DOMAIN EffectiveList)
    <3>1. pubs' = pubs
      BY <1>4, <2>3 DEF OwnDragEnds
    <3> QED
      BY <2>1, <3>1, AllStay
  <2> QED
    BY <2>2, <2>3
<1>5. ASSUME NEW ch, StartDrag(ch) PROVE Known'
  BY <1>5, <1>a DEF StartDrag
<1>6. ASSUME NEW over, DragMoves(over) PROVE Known'
  BY <1>6, <1>a DEF DragMoves
<1>7. ASSUME NEW over, DragDrops(over) PROVE Known'
  BY <1>7, <1>a, ListBecomesKnown DEF DragDrops
<1>8. CASE DragLeavesWindow
  BY <1>8, <1>a DEF DragLeavesWindow
<1> QED
  BY <1>1, <1>2, <1>3, <1>4, <1>5, <1>6, <1>7, <1>8

LEMMA KnownKept == Viewing /\ Known /\ [ViewNext]_viewVars => Known'
<1> SUFFICES ASSUME Viewing, Known, [ViewNext]_viewVars PROVE Known'
  OBVIOUS
<1>1. CASE UNCHANGED viewVars
  <2>1. pubs' = pubs /\ backend' = backend /\ view' = view
    BY <1>1 DEF viewVars
  <2> QED
    BY <2>1, AllStay
<1>2. CASE ViewNext
  BY <1>2, TreeHandlersKnow, AnswersKnow, PanelHandlersKnow, ChannelHandlersKnow DEF ViewNext
<1> QED
  BY <1>1, <1>2

LEMMA AlwaysKnown == ViewSpec => []Known
BY InitKnown, KnownKept, AlwaysViewing, PTL DEF ViewSpec

\* What the encoder writes as it is: a name of 1 to 255 characters and numbers
\* that fit their fields.  (For no name it would write one of its own.)
Readable ==
  /\ \A x \in SvIds : 0 < Len(x) /\ Len(x) < 256
  /\ Signed(ConfRev) /\ Synch < 256 /\ AppId < 65536
  /\ \A ch \in ToSet(Pool) : Signed(Sample[ch])
  /\ \A vlan \in Vlans : vlan < 4096
  /\ \A prio \in Prios : prio < 8

\* The stream of a frame the parser can read, whatever number of samples.
LEMMA StreamLegible ==
  ASSUME Readable, NEW f, FrameKnown(f), f # NoFrame, Len(f.list) < 16
  PROVE  LET s == Stream(f)
             c == Len(Sent(s))
         IN  /\ Legible(s, Len(f.svId), c) /\ \A i \in 1..c : Signed(Sent(s)[i])
             /\ s.samples # <<>> => s.samples \in Seq(Int)
<1> DEFINE s == Stream(f)
           u == Sent(s)
           c == Len(u)
<1>1. /\ f.svId \in SvIds /\ Listing(f.list) /\ f.vlan \in Vlans
      /\ \E p \in Prios : f.prio = Effective(p)
  BY DEF FrameKnown
<1>2. /\ s.svId = f.svId /\ s.smpCnt = 0 /\ s.vlan = f.vlan /\ s.prio = f.prio
      /\ s.samples = [i \in DOMAIN f.list |-> Sample[f.list[i]]]
  BY DEF Stream
<1> HIDE DEF s
<1>3. HasLen(s.svId, Len(f.svId)) /\ Len(f.svId) < 256
  <2>1. f.svId \in Seq(Nat) /\ Len(f.svId) < 256
    BY <1>1, SvIdsAssumption DEF Readable, SvIds
  <2>2. f.svId \in Seq(Int) /\ Len(f.svId) \in Nat
    BY <2>1
  <2> QED
    BY <1>2, <2>1, <2>2 DEF HasLen
<1>4. s.vlan \in Nat /\ s.vlan < 4096
  <2>1. PICK v : v = s.vlan
    OBVIOUS
  <2>2. v \in Vlans
    BY <1>1, <1>2, <2>1
  <2>3. v < 4096
    BY <2>2 DEF Readable
  <2>4. v \in Nat
    BY <2>2, ChoicesAssumption
  <2> QED
    BY <2>1, <2>3, <2>4
<1>5. s.prio \in Nat /\ s.prio < 8
  <2>1. PICK p \in Prios : f.prio = Effective(p)
    BY <1>1
  <2>2. p \in Nat /\ p < 8
    BY ChoicesAssumption DEF Readable, Prios
  <2> QED
    BY <1>2, <2>1, <2>2 DEF Effective
<1>6. PICK d : d = Len(f.list)
  OBVIOUS
<1>7. d \in Nat /\ d < 16 /\ DOMAIN f.list = 1..d /\ \A i \in 1..d : f.list[i] \in ToSet(Pool)
  BY <1>1, <1>6, ListingIs DEF Listing
<1>8. /\ s.samples \in Seq(Int) /\ Len(s.samples) = d
      /\ \A i \in 1..d : Signed(s.samples[i])
  <2>1. s.samples = [i \in 1..d |-> Sample[f.list[i]]]
    BY <1>2, <1>7
  <2>2. \A i \in 1..d : Signed(Sample[f.list[i]]) /\ Sample[f.list[i]] \in Int
    BY <1>7 DEF Readable, Signed
  <2> QED
    BY <1>7, <2>1, <2>2
<1>9. c \in Nat /\ c < 16 /\ \A i \in 1..c : Signed(u[i])
  <2>1. CASE s.samples = <<>>
    <3>1. u = [i \in 1..8 |-> 0]
      BY <2>1 DEF Sent
    <3>2. Signed(0)
      BY DEF Signed
    <3> HIDE DEF u
    <3>3. Len(u) = 8 /\ \A i \in 1..8 : u[i] = 0
      BY <3>1
    <3> QED
      BY <3>2, <3>3
  <2>2. CASE s.samples # <<>>
    <3>1. u = s.samples
      BY <2>2 DEF Sent
    <3> HIDE DEF u
    <3> QED
      BY <1>7, <1>8, <3>1
  <2> QED
    BY <2>1, <2>2
<1>10. Legible(s, Len(f.svId), c)
  BY <1>2, <1>3, <1>4, <1>5, <1>9 DEF Legible, Readable
<1> QED
  BY <1>8, <1>9, <1>10 DEF s

\* Of a frame of at most fifteen channels.
LEMMA ReadsWhatWasSent ==
  ASSUME Readable, FrameKnown(view.real), Len(view.real.list) < 16
  PROVE  FrameIsParsed
<1> SUFFICES ASSUME view.real # NoFrame PROVE FrameIsParsed
  BY DEF FrameIsParsed
<1> DEFINE s == Stream(view.real)
           u == Sent(s)
           b == Encoded(s)
<1>1. PICK c, n : c = Len(u) /\ n = Len(view.real.svId)
  OBVIOUS
<1>2. /\ Legible(s, n, c) /\ \A i \in 1..c : Signed(u[i])
      /\ s.samples # <<>> => s.samples \in Seq(Int)
  BY <1>1, StreamLegible
<1>3. s.svId = view.real.svId /\ s.vlan = view.real.vlan
  BY DEF Stream
<1> HIDE DEF s
<1>4. /\ Parsed(b).vlan = s.vlan /\ Parsed(b).appId = AppId
      /\ Parsed(b).asdu.svId = s.svId /\ Parsed(b).asdu.confRev = ConfRev
      /\ Parsed(b).asdu.synch = Synch
      /\ Parsed(b).asdu.samples = [i \in 1..Eight(c) |-> u[i]]
  BY <1>1, <1>2, FrameRead
<1>5. ASSUME s.samples # <<>>
      PROVE  Parsed(b).asdu.samples =
               SubSeq(s.samples, 1, IF Len(s.samples) < 8 THEN Len(s.samples) ELSE 8)
  <2>1. PICK r, m : r = s.samples /\ m = Eight(c)
    OBVIOUS
  <2>2. u = r /\ r \in Seq(Int) /\ c = Len(r)
    BY <1>1, <1>2, <1>5, <2>1 DEF Sent
  <2>3. m \in Nat /\ m <= Len(r) /\ m = IF Len(r) < 8 THEN Len(r) ELSE 8
    BY <2>1, <2>2 DEF Eight
  <2>4. PICK V : V = Int
    OBVIOUS
  <2>5. r \in Seq(V) /\ m \in Int
    BY <2>2, <2>3, <2>4
  <2>6. PICK q : q = SubSeq(r, 1, m)
    OBVIOUS
  <2>7. q \in Seq(V) /\ Len(q) = (IF 1 <= m THEN m ELSE 0) /\ \A i \in 1..m : q[i] = r[i]
    BY <2>3, <2>5, <2>6, PrefixIs
  <2>8. q \in Seq(V) /\ Len(q) = m
    BY <2>3, <2>7
  <2>9. q = [i \in 1..m |-> q[i]]
    BY <2>8
  <2>10. q = [i \in 1..m |-> r[i]]
    BY <2>7, <2>9
  <2> QED
    BY <1>4, <2>1, <2>2, <2>3, <2>6, <2>10
<1> QED
  BY <1>3, <1>4, <1>5 DEF FrameIsParsed, s

\* The parser finds in a real frame of up to fifteen channels the name, the VLAN
\* and the numbers its stream was configured with, and the samples of the first
\* eight channels at their places, for any names, channels and values that fit
\* their fields (parseRealFrame() against sv_encoder_encode_packet()).  From
\* sixteen on the encoder writes a length the parser does not know.
THEOREM ShortFramesAreRead ==
  ASSUME Readable
  PROVE  ViewSpec => [](Len(view.real.list) < 16 => FrameIsParsed)
<1>1. Known => (Len(view.real.list) < 16 => FrameIsParsed)
  BY ReadsWhatWasSent DEF Known
<1> QED
  BY <1>1, AlwaysKnown, PTL

\* With fifteen channels in the store, or fewer, all the viewer says of bytes is
\* so: the parser finds what was encoded, the parts of the tree nest, and a node
\* points at the bytes of its field.
THEOREM BytesAlwaysAgree ==
  ASSUME Readable, Len(Pool) < 16
  PROVE  ViewSpec => []BytesAgree
<1>1. Known => FrameIsParsed
  <2> SUFFICES ASSUME Known, view.real # NoFrame PROVE FrameIsParsed
    BY DEF FrameIsParsed
  <2>1. Listing(view.real.list) /\ FrameKnown(view.real)
    BY DEF Known, FrameKnown
  <2>2. Len(view.real.list) < 16
    BY <2>1, ListingIs, PoolCard
  <2> QED
    BY <2>1, <2>2, ReadsWhatWasSent
<1>2. FrameIsParsed /\ PartsNest /\ MadeUpBytesAligned => BytesAgree
  BY DEF BytesAgree
<1> QED
  BY <1>1, <1>2, AlwaysKnown, PartsAlwaysNest, DumpStaysAligned, PTL
=============================================================================
