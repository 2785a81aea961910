---------------------- MODULE PublisherController_proofs ----------------------
(***************************************************************************)
(* Proofs about PublisherController for every number of publishers and     *)
(* every setting of the bounds.                                            *)
(*                                                                         *)
(* TypeOK, the freshness of ids and the number of repetitions hold         *)
(* whatever threads call the engine.  The other theorems are about a       *)
(* program with one thread of control, which is what PubWsServer's event   *)
(* loop gives the application and what the kit asks of its host.           *)
(***************************************************************************)
EXTENDS PublisherController, TLAPS

\* All calls come from one thread.
OneCaller == \A a, b \in Callers : a = b

Joining == {"startJoining", "stopJoining"}
Joined == {"startBuild", "startLaunch", "stopSchedule", "stopPublishers"}
Stopping == {"stopJoin", "stopJoining"}

\* The handshake of the join: a writer that has not returned is joinable, a
\* caller about to join has a thread to join, one past the join has none.
Handshake ==
    /\ WriterActive => joinable
    /\ \A c \in Callers :
         /\ pc[c] \in Joining => joinable
         /\ pc[c] \in Joined => ~joinable

\* The schedule the writer walks stays what startAll() built while a caller
\* that could change it is kept out by m_running, or waits in join().
Borrowed ==
    /\ WriterInLoop =>
         /\ schedule # {} /\ schedule \subseteq Live
         /\ running \/ \E c \in Callers : pc[c] \in Stopping
    /\ writer \in {"cycle", "slots"} => walk = schedule
    /\ writer = "slots" => batch \subseteq schedule
    /\ writer # "slots" => batch = {}
    /\ \A c \in Callers :
         pc[c] = "startLaunch" => schedule # {} /\ schedule \subseteq Live

MemInv == TypeOK /\ Handshake /\ Borrowed /\ ~strayAccess /\ ~crashed

\* m_running is up only while the writer is in its loop, or has left it for
\* an elapsed duration that nobody changes before it looks again.
FlagInv ==
    /\ running => WriterInLoop \/ writer = "end"
    /\ running /\ writer \in {"decide", "end"} => Elapsed
    /\ \A c \in Callers : pc[c] # "idle" => ~running

\* The settings are those the run was started with.
Undisturbed == running /\ settled

\* The writer leaves a cycle of an undisturbed run only when its duration has
\* elapsed, and the loop for good only when no repetition is left.
CourseLeft ==
    Undisturbed =>
        /\ WriterInLoop \/ writer = "end"
        /\ writer \in {"decide", "end"} => Elapsed
        /\ writer = "end" => ~AnotherCycle

\* m_repeatCycle counts the cycles behind a run that does not repeat for ever
\* (one that does saturates the bounds), and stays below what was asked for.
Finite == ~(repeatEnabled /\ repeatInfinite)
CourseCount ==
    Undisturbed /\ Finite =>
        /\ sessions = IF writer = "session" THEN repeatCycle ELSE repeatCycle + 1
        /\ repeatCycle = 0 \/ (repeatEnabled /\ repeatCycle < repeatCount)

CourseInv == CourseLeft /\ CourseCount

\* Ids below m_nextId, and only those, have been handed out.
IdsInv == issued = 1 .. nextId - 1 /\ Live \subseteq issued
-----------------------------------------------------------------------------
(* The initial state and every step respect the types of the variables.    *)
LEMMA Zeros ==
    /\ 0 \in 0 .. MaxTime /\ MaxTime \in 0 .. MaxTime
    /\ 0 \in 0 .. MaxCycle /\ 0 \in 0 .. MaxCycle + 1
    /\ 1 \in 1 .. MaxId + 1
  BY ControllerAssumption

LEMMA TypeInit == Init => TypeOK
  <1> SUFFICES ASSUME Init PROVE TypeOK
    OBVIOUS
  <1>1. pubState \in [Ids -> PubStates]
    BY DEF Init, PubStates
  <1>2. pc \in [Callers -> CallerStates] /\ op \in [Callers -> Ops]
    BY DEF Init, CallerStates, Ops
  <1>3. writer \in WriterStates
    BY DEF Init, WriterStates
  <1> QED
    BY <1>1, <1>2, <1>3, Zeros DEF Init, TypeOK

LEMMA TypeCommand ==
    ASSUME TypeOK, NEW c \in Callers, Command(c)
    PROVE  TypeOK'
  <1> USE ControllerAssumption DEF TypeOK, Ids, Calls, Goto, pubVars,
        threadVars, clockVars, settings, PubStates, WriterStates,
        CallerStates, Ops, Callers, Live
  <1>1. CASE AddPublisher(c) BY <1>1 DEF AddPublisher
  <1>2. CASE RemoveAllPublishers(c)
    BY <1>2 DEF RemoveAllPublishers, IdAfterClear
  <1>3. ASSUME NEW p \in Ids, RemovePublisher(c, p) PROVE TypeOK'
    BY <1>3 DEF RemovePublisher
  <1>4. ASSUME NEW p \in Ids, ConfigurePublisher(c, p) PROVE TypeOK'
    BY <1>4 DEF ConfigurePublisher
  <1>5. CASE SetDuration(c)
    <2>1. durationSeconds' \in 0 .. MaxTime /\ repeatCount' \in 0 .. MaxCycle
      BY <1>5 DEF SetDuration
    <2> QED BY ZenonT(30), <1>5, <2>1, Zeros DEF SetDuration
  <1>6. CASE SetInterface(c) BY <1>6 DEF SetInterface
  <1>7. CASE StartCheck(c) BY <1>7 DEF StartCheck
  <1>8. CASE StopBegin(c)
    <2>1. op' \in [Callers -> Ops]
      BY <1>8 DEF StopBegin
    <2>2. pc' \in [Callers -> CallerStates]
      BY <1>8 DEF StopBegin
    <2>3. running' \in BOOLEAN
      BY <1>8 DEF StopBegin
    <2> HIDE DEF PubStates, WriterStates, CallerStates, Ops, Callers, Ids
    <2> QED BY <1>8, <2>1, <2>2, <2>3 DEF StopBegin
  <1>9. CASE ResetBegin(c)
    <2>1. op' \in [Callers -> Ops]
      BY <1>9 DEF ResetBegin
    <2>2. pc' \in [Callers -> CallerStates]
      BY <1>9 DEF ResetBegin
    <2>3. running' \in BOOLEAN
      BY <1>9 DEF ResetBegin
    <2> HIDE DEF PubStates, WriterStates, CallerStates, Ops, Callers, Ids
    <2> QED BY <1>9, <2>1, <2>2, <2>3 DEF ResetBegin
  <1> QED BY <1>1, <1>2, <1>3, <1>4, <1>5, <1>6, <1>7, <1>8, <1>9 DEF Command

LEMMA TypeContinue ==
    ASSUME TypeOK, NEW c \in Callers, Continue(c)
    PROVE  TypeOK'
  <1> USE ControllerAssumption DEF TypeOK, Ids, Goto, pubVars, threadVars,
        clockVars, settings, PubStates, WriterStates, CallerStates, Ops,
        Callers, AtLeastConfigured
  <1>1. CASE StartJoinTest(c) BY <1>1 DEF StartJoinTest, JoinableTest
  <1>2. CASE StartJoin(c) BY ZenonT(30), <1>2 DEF StartJoin, Join
  <1>3. CASE StartFails(c) BY <1>3 DEF StartFails
  <1>4. CASE StartBuild(c) BY <1>4 DEF StartBuild
  <1>5. CASE StartLaunch(c)
    <2>1. pc' \in [Callers -> CallerStates]
      BY <1>5 DEF StartLaunch
    <2> QED BY <1>5, <2>1, Zeros DEF StartLaunch
  <1>6. CASE StopJoinTest(c) BY <1>6 DEF StopJoinTest, JoinableTest
  <1>7. CASE StopJoin(c) BY ZenonT(30), <1>7 DEF StopJoin, Join
  <1>8. CASE StopClearSchedule(c) BY <1>8 DEF StopClearSchedule
  <1>9. CASE StopClearPublishers(c)
    <2>1. pc' \in [Callers -> CallerStates] /\ pubState' \in [Ids -> PubStates]
      BY <1>9 DEF StopClearPublishers
    <2> HIDE DEF PubStates, WriterStates, CallerStates, Ops, Callers, Ids
    <2>2. CASE op[c] = "reset"
      BY <1>9, <2>1, <2>2, Zeros DEF StopClearPublishers
    <2>3. CASE op[c] # "reset"
      BY <1>9, <2>1, <2>3 DEF StopClearPublishers
    <2> QED BY <2>2, <2>3
  <1> QED BY <1>1, <1>2, <1>3, <1>4, <1>5, <1>6, <1>7, <1>8, <1>9 DEF Continue

LEMMA TypeWriter ==
    ASSUME TypeOK, Writer
    PROVE  TypeOK'
  <1> USE ControllerAssumption DEF TypeOK, Ids, callVars, pubVars, settings,
        clockVars, WriterStates, SatInc
  <1>1. CASE WSession BY <1>1 DEF WSession
  <1>2. CASE WCycle BY <1>2 DEF WCycle
  <1>3. CASE WSlot BY <1>3 DEF WSlot
  <1>4. CASE WFlush BY <1>4 DEF WFlush
  <1>5. CASE WSleep BY <1>5 DEF WSleep
  <1>6. CASE WDecide
    <2> HIDE DEF Ids
    <2>1. CASE AnotherCycle
      <3>1. repeatCycle' \in 0 .. MaxCycle /\ writer' \in WriterStates
        BY <1>6, <2>1 DEF WDecide
      <3>2. durationComplete' \in BOOLEAN
        BY <1>6, <2>1 DEF WDecide
      <3> HIDE DEF WriterStates, SatInc
      <3> QED BY <1>6, <2>1, <3>1, <3>2, Zeros DEF WDecide
    <2>2. CASE ~AnotherCycle
      BY <1>6, <2>2 DEF WDecide
    <2> QED BY <2>1, <2>2
  <1>7. CASE WEnd BY ZenonT(30), <1>7 DEF WEnd
  <1>8. CASE WExit BY <1>8 DEF WExit
  <1> QED BY <1>1, <1>2, <1>3, <1>4, <1>5, <1>6, <1>7, <1>8 DEF Writer

LEMMA TypeNext == TypeOK /\ [Next]_vars => TypeOK'
  <1> SUFFICES ASSUME TypeOK, [Next]_vars PROVE TypeOK'
    OBVIOUS
  <1>1. CASE Calling
    BY <1>1, TypeCommand, TypeContinue DEF Calling
  <1>2. CASE Writer BY <1>2, TypeWriter
  <1>3. CASE Tick
    BY <1>3, ControllerAssumption
    DEF Tick, TypeOK, callVars, pubVars, threadVars, settings
  <1>4. CASE UNCHANGED vars
    BY <1>4 DEF TypeOK, vars, pubVars, threadVars, settings, clockVars, Live
  <1> QED BY <1>1, <1>2, <1>3, <1>4 DEF Next

(* Type correctness of the engine's state, whatever the number of threads. *)
THEOREM TypeCorrect == Spec => []TypeOK
  BY TypeInit, TypeNext, PTL DEF Spec
-----------------------------------------------------------------------------
(* Memory safety and the join discipline, for one caller.                  *)
LEMMA MemInit == Init => MemInv
  <1> SUFFICES ASSUME Init PROVE MemInv
    OBVIOUS
  <1>1. Handshake
    BY DEF Init, Handshake, WriterActive, Joining, Joined
  <1>2. Borrowed
    BY DEF Init, Borrowed, WriterInLoop
  <1> QED BY <1>1, <1>2, TypeInit DEF Init, MemInv

\* A publisher that is in use stays live under every command but the two
\* that m_running keeps out, and those find no schedule in use.
LEMMA MemCommand ==
    ASSUME OneCaller, MemInv, TypeOK', NEW c \in Callers, Command(c)
    PROVE  MemInv'
  <1> USE DEF MemInv, Handshake, Borrowed, Calls, Goto, pubVars, threadVars,
        clockVars, Joining, Joined, Stopping, WriterActive, WriterInLoop
  <1>0. pc[c] = "idle" /\ pc \in [Callers -> CallerStates]
        /\ \A a \in Callers : a = c
    BY DEF OneCaller, TypeOK, Command, AddPublisher, RemoveAllPublishers,
       RemovePublisher, ConfigurePublisher, SetDuration, SetInterface,
       StartCheck, StopBegin, ResetBegin
  <1>1. CASE AddPublisher(c)
    <2>1. Live \subseteq Live'
      BY <1>1 DEF AddPublisher, Live, TypeOK
    <2> QED BY <1>0, <1>1, <2>1 DEF AddPublisher
  <1>2. CASE RemoveAllPublishers(c)
    <2>1. ~WriterInLoop
      BY <1>0, <1>2 DEF RemoveAllPublishers, MayRemove
    <2> QED BY <1>0, <1>2, <2>1 DEF RemoveAllPublishers
  <1>3. ASSUME NEW p \in Ids, RemovePublisher(c, p) PROVE MemInv'
    <2>1. ~WriterInLoop
      BY <1>0, <1>3 DEF RemovePublisher, MayRemove
    <2> QED BY <1>0, <1>3, <2>1 DEF RemovePublisher
  <1>4. ASSUME NEW p \in Ids, ConfigurePublisher(c, p) PROVE MemInv'
    <2>1. Live \subseteq Live'
      BY <1>4 DEF ConfigurePublisher, Live, TypeOK
    <2> QED BY <1>0, <1>4, <2>1 DEF ConfigurePublisher
  <1>5. CASE SetDuration(c)
    BY <1>0, <1>5 DEF SetDuration, Live
  <1>6. CASE SetInterface(c)
    BY <1>0, <1>6 DEF SetInterface, Live
  <1>7. CASE StartCheck(c)
    BY <1>0, <1>7 DEF StartCheck, Live
  <1>8. CASE StopBegin(c)
    BY <1>0, <1>8 DEF StopBegin, Live
  <1>9. CASE ResetBegin(c)
    BY <1>0, <1>9 DEF ResetBegin, Live
  <1> QED BY <1>1, <1>2, <1>3, <1>4, <1>5, <1>6, <1>7, <1>8, <1>9 DEF Command

\* Past the join there is no writer; in front of it nothing is taken away.
LEMMA MemContinue ==
    ASSUME OneCaller, MemInv, TypeOK', NEW c \in Callers, Continue(c)
    PROVE  MemInv'
  <1> USE DEF MemInv, Handshake, Borrowed, Goto, pubVars, threadVars,
        clockVars, Joining, Joined, Stopping, WriterActive, WriterInLoop
  <1>0. pc \in [Callers -> CallerStates] /\ \A a \in Callers : a = c
    BY DEF OneCaller, TypeOK
  <1>1. CASE StartJoinTest(c)
    BY <1>0, <1>1 DEF StartJoinTest, JoinableTest, Live
  <1>2. CASE StartJoin(c)
    BY <1>0, <1>2 DEF StartJoin, Join, Live
  <1>3. CASE StartFails(c)
    BY <1>0, <1>3 DEF StartFails
  <1>4. CASE StartBuild(c)
    <2>1. schedule' \subseteq Live'
      BY <1>4 DEF StartBuild, Live, AtLeastConfigured, TypeOK
    <2>2. ~WriterActive
      BY <1>4 DEF StartBuild
    <2>3. pc'[c] = "startLaunch" => schedule' # {}
      BY <1>0, <1>4 DEF StartBuild
    <2> QED BY <1>0, <1>4, <2>1, <2>2, <2>3 DEF StartBuild
  <1>5. CASE StartLaunch(c)
    <2>1. schedule' # {} /\ schedule' \subseteq Live'
      BY <1>5 DEF StartLaunch, Live
    <2>2. batch' = {}
      BY <1>5 DEF StartLaunch
    <2> QED BY <1>0, <1>5, <2>1, <2>2 DEF StartLaunch
  <1>6. CASE StopJoinTest(c)
    BY <1>0, <1>6 DEF StopJoinTest, JoinableTest, Live
  <1>7. CASE StopJoin(c)
    BY <1>0, <1>7 DEF StopJoin, Join, Live
  <1>8. CASE StopClearSchedule(c)
    BY <1>0, <1>8 DEF StopClearSchedule
  <1>9. CASE StopClearPublishers(c)
    BY <1>0, <1>9 DEF StopClearPublishers
  <1> QED BY <1>1, <1>2, <1>3, <1>4, <1>5, <1>6, <1>7, <1>8, <1>9 DEF Continue

\* What the writer touches is in the schedule it captured, which is still
\* there and whose publishers are live.
LEMMA MemWriter ==
    ASSUME MemInv, TypeOK', Writer
    PROVE  MemInv'
  <1> USE DEF MemInv, Handshake, Borrowed, callVars, pubVars, clockVars,
        WriterActive, WriterInLoop, Live
  <1>1. CASE WSession BY <1>1 DEF WSession
  <1>2. CASE WCycle BY <1>2 DEF WCycle
  <1>3. CASE WSlot
    <2>1. walk # {} /\ walk = schedule /\ schedule \subseteq Live
      BY <1>3 DEF WSlot
    <2>2. PICK p \in walk :
            /\ batch' = batch \cup {p}
            /\ strayAccess' = (strayAccess \/ p \notin walk \cap schedule \cap Live)
      BY <1>3, <2>1 DEF WSlot
    <2>3. ~strayAccess' /\ batch' \subseteq schedule
      BY <1>3, <2>1, <2>2 DEF WSlot
    <2> QED BY <1>3, <2>3 DEF WSlot
  <1>4. CASE WFlush
    <2>1. batch \subseteq Live
      BY <1>4 DEF WFlush
    <2> QED BY <1>4, <2>1 DEF WFlush
  <1>5. CASE WSleep BY <1>5 DEF WSleep
  <1>6. CASE WDecide BY <1>6 DEF WDecide
  <1>7. CASE WEnd BY <1>7 DEF WEnd
  <1>8. CASE WExit BY <1>8 DEF WExit
  <1> QED BY <1>1, <1>2, <1>3, <1>4, <1>5, <1>6, <1>7, <1>8 DEF Writer

LEMMA MemNext ==
    ASSUME OneCaller, MemInv, [Next]_vars
    PROVE  MemInv'
  <1>0. TypeOK'
    BY TypeNext DEF MemInv
  <1>1. CASE Calling
    BY <1>0, <1>1, MemCommand, MemContinue DEF Calling
  <1>2. CASE Writer
    BY <1>0, <1>2, MemWriter
  <1>3. CASE Tick
    BY <1>0, <1>3 DEF Tick, callVars, pubVars, threadVars, MemInv, Handshake,
       Borrowed, WriterActive, WriterInLoop, Live
  <1>4. CASE UNCHANGED vars
    BY <1>0, <1>4 DEF vars, pubVars, threadVars, MemInv, Handshake, Borrowed,
       WriterActive, WriterInLoop, Live
  <1> QED BY <1>1, <1>2, <1>3, <1>4 DEF Next

(* With one thread of control the writer never touches a publisher or a    *)
(* schedule that has been taken away, and the program never terminates for *)
(* a thread joined twice, overwritten or destroyed unjoined.               *)
THEOREM MemorySafety ==
    ASSUME OneCaller
    PROVE  Spec => []WriterMemorySafe
  <1>1. MemInv /\ [Next]_vars => MemInv'
    BY MemNext
  <1>2. MemInv => WriterMemorySafe
    BY DEF MemInv, WriterMemorySafe
  <1> QED BY <1>1, <1>2, MemInit, PTL DEF Spec
(* The schedule does not change while the writer is in its loop.           *)
THEOREM FrozenSchedule ==
    ASSUME OneCaller
    PROVE  Spec => ScheduleFrozen
  <1>1. ASSUME MemInv, [Next]_vars, WriterInLoop
        PROVE  schedule' = schedule
    <2> USE DEF MemInv, Handshake, Borrowed, WriterInLoop, WriterActive
    <2>1. ASSUME NEW c \in Callers, Command(c)
          PROVE  schedule' = schedule
      <3> USE DEF Calls, pubVars
      <3>1. ASSUME RemoveAllPublishers(c) PROVE FALSE
        BY <1>1, <3>1 DEF RemoveAllPublishers, MayRemove, OneCaller, Stopping
      <3> QED
        BY <2>1, <3>1 DEF Command, AddPublisher, RemovePublisher,
           ConfigurePublisher, SetDuration, SetInterface, StartCheck,
           StopBegin, ResetBegin
    <2>2. ASSUME NEW c \in Callers, Continue(c)
          PROVE  schedule' = schedule
      <3>1. ASSUME StartBuild(c) \/ StopClearSchedule(c) PROVE FALSE
        BY <1>1, <3>1 DEF StartBuild, StopClearSchedule, Joined
      <3> QED
        BY <2>2, <3>1 DEF Continue, StartJoinTest, StopJoinTest, JoinableTest,
           StartJoin, StopJoin, Join, StartFails, StartLaunch,
           StopClearPublishers
    <2>3. CASE Writer
      BY <2>3 DEF Writer, WSession, WCycle, WSlot, WFlush, WSleep, WDecide,
         WEnd, WExit, callVars
    <2>4. CASE Tick BY <2>4 DEF Tick, callVars
    <2>5. CASE UNCHANGED vars BY <2>5 DEF vars
    <2> QED BY <1>1, <2>1, <2>2, <2>3, <2>4, <2>5 DEF Next, Calling
  <1>2. MemInv /\ [Next]_vars => MemInv'
    BY MemNext
  <1>3. MemInv /\ [Next]_vars => [WriterInLoop => schedule' = schedule]_vars
    BY <1>1
  <1> QED BY <1>2, <1>3, MemInit, PTL DEF Spec, ScheduleFrozen

-----------------------------------------------------------------------------
(* m_running and the writer, for one caller that leaves the duration alone *)
(* during a run.                                                           *)
LEMMA FlagNext ==
    ASSUME OneCaller, ~RetuneWhileRunning, TypeOK, FlagInv, [Next]_vars
    PROVE  FlagInv'
  <1> USE DEF FlagInv, WriterInLoop
  <1>1. ASSUME NEW c \in Callers, Command(c)
        PROVE  FlagInv'
    <2> USE DEF Calls, Goto, pubVars, threadVars, clockVars, settings
    <2>0. pc \in [Callers -> CallerStates] /\ \A a \in Callers : a = c
      BY DEF OneCaller, TypeOK
    <2>1. CASE AddPublisher(c) BY <2>1 DEF AddPublisher, Elapsed
    <2>2. CASE RemoveAllPublishers(c) BY <2>2 DEF RemoveAllPublishers, Elapsed
    <2>3. ASSUME NEW p \in Ids, RemovePublisher(c, p) PROVE FlagInv'
      BY <2>3 DEF RemovePublisher, Elapsed
    <2>4. ASSUME NEW p \in Ids, ConfigurePublisher(c, p) PROVE FlagInv'
      BY <2>4 DEF ConfigurePublisher, Elapsed
    <2>5. CASE SetDuration(c)
      <3>1. ~running
        BY <2>5 DEF SetDuration, WriterActive
      <3> QED BY <2>5, <3>1 DEF SetDuration
    <2>6. CASE SetInterface(c) BY <2>6 DEF SetInterface, Elapsed
    <2>7. CASE StartCheck(c) BY <2>0, <2>7 DEF StartCheck
    <2>8. CASE StopBegin(c) BY <2>0, <2>8 DEF StopBegin
    <2>9. CASE ResetBegin(c) BY <2>0, <2>9 DEF ResetBegin
    <2> QED
      BY <1>1, <2>1, <2>2, <2>3, <2>4, <2>5, <2>6, <2>7, <2>8, <2>9
      DEF Command
  <1>2. ASSUME NEW c \in Callers, Continue(c)
        PROVE  FlagInv'
    <2> USE DEF Goto, threadVars
    <2>0. pc \in [Callers -> CallerStates] /\ \A a \in Callers : a = c
      BY DEF OneCaller, TypeOK
    <2>1. CASE StartLaunch(c)
      BY <2>0, <2>1 DEF StartLaunch
    <2>2. CASE ~StartLaunch(c)
      <3>1. ~running /\ running' = running
        BY <1>2, <2>2 DEF Continue, StartJoinTest, StopJoinTest, JoinableTest,
           StartJoin, StopJoin, Join, StartFails, StartBuild,
           StopClearSchedule, StopClearPublishers
      <3> QED BY <3>1
    <2> QED BY <2>1, <2>2
  <1>3. CASE Writer
    <2> USE <1>3 DEF callVars, settings, clockVars
    <2>1. CASE WSession BY <2>1 DEF WSession
    <2>2. CASE WCycle BY <2>2 DEF WCycle, KeepGoing, Elapsed
    <2>3. CASE WSlot BY <2>3 DEF WSlot
    <2>4. CASE WFlush BY <2>4 DEF WFlush
    <2>5. CASE WSleep BY <2>5 DEF WSleep
    <2>6. CASE WDecide BY <2>6 DEF WDecide, Elapsed
    <2>7. CASE WEnd BY <2>7 DEF WEnd
    <2>8. CASE WExit BY <2>8 DEF WExit
    <2> QED BY <2>1, <2>2, <2>3, <2>4, <2>5, <2>6, <2>7, <2>8 DEF Writer
  <1>4. CASE Tick
    <2>1. Elapsed => Elapsed'
      BY <1>4, ControllerAssumption DEF Tick, Elapsed, settings, TypeOK
    <2> QED BY <1>4, <2>1 DEF Tick, callVars, threadVars
  <1>5. CASE UNCHANGED vars
    BY <1>5 DEF vars, threadVars, clockVars, settings, Elapsed
  <1> QED BY <1>1, <1>2, <1>3, <1>4, <1>5 DEF Next, Calling

(* m_running says truly that there is a writer, as long as setDuration()   *)
(* is not called during a run (PublisherController_retune.cfg shows what   *)
(* happens when it is).                                                    *)
THEOREM RunningIsTrue ==
    ASSUME OneCaller, ~RetuneWhileRunning
    PROVE  Spec => []RunningHasWriter
  <1>1. Init => FlagInv
    BY DEF Init, FlagInv
  <1>2. TypeOK /\ FlagInv /\ [Next]_vars => FlagInv'
    BY FlagNext
  <1>3. FlagInv => RunningHasWriter
    BY DEF FlagInv, RunningHasWriter, WriterInLoop
  <1> QED BY <1>1, <1>2, <1>3, TypeCorrect, PTL DEF Spec

-----------------------------------------------------------------------------
\* What the course of a run depends on.
courseVars == <<running, settled, writer, settings, sinceStart, sessions,
                repeatCycle>>

LEMMA CourseKept ==
    ASSUME CourseInv, UNCHANGED courseVars
    PROVE  CourseInv'
  BY DEF CourseInv, CourseLeft, CourseCount, courseVars, Undisturbed, Finite,
     WriterInLoop, Elapsed, AnotherCycle, settings

\* A caller ends the run, starts one, or leaves its course alone.
LEMMA CourseCalling ==
    ASSUME CourseInv, Calling
    PROVE  CourseInv'
  <1> USE DEF CourseInv, CourseLeft, CourseCount, Undisturbed
  <1>1. ASSUME ~running' \/ ~settled'
        PROVE  CourseInv'
    BY <1>1
  <1>2. ASSUME NEW c \in Callers, Command(c)
        PROVE  CourseInv'
    <2>1. CASE SetDuration(c) \/ StopBegin(c) \/ ResetBegin(c)
      BY <1>1, <2>1 DEF SetDuration, StopBegin, ResetBegin
    <2>2. CASE ~(SetDuration(c) \/ StopBegin(c) \/ ResetBegin(c))
      <3>1. UNCHANGED courseVars
        BY <1>2, <2>2 DEF Command, AddPublisher, RemoveAllPublishers,
           RemovePublisher, ConfigurePublisher, SetInterface, StartCheck,
           threadVars, clockVars, courseVars
      <3> QED BY <3>1, CourseKept
    <2> QED BY <2>1, <2>2
  <1>3. ASSUME NEW c \in Callers, Continue(c)
        PROVE  CourseInv'
    <2>1. CASE StartLaunch(c)
      BY <2>1 DEF StartLaunch, WriterInLoop
    <2>2. CASE StopClearPublishers(c)
      <3>1. CASE op[c] = "reset"
        BY <1>1, <2>2, <3>1 DEF StopClearPublishers
      <3>2. CASE op[c] # "reset"
        <4>1. UNCHANGED courseVars
          BY <2>2, <3>2 DEF StopClearPublishers, threadVars, courseVars
        <4> QED BY <4>1, CourseKept
      <3> QED BY <3>1, <3>2
    <2>3. CASE ~(StartLaunch(c) \/ StopClearPublishers(c))
      <3>1. UNCHANGED courseVars
        BY <1>3, <2>3 DEF Continue, StartJoinTest, StopJoinTest, JoinableTest,
           StartJoin, StopJoin, Join, StartFails, StartBuild,
           StopClearSchedule, threadVars, clockVars, courseVars
      <3> QED BY <3>1, CourseKept
    <2> QED BY <2>1, <2>2, <2>3
  <1> QED BY <1>2, <1>3 DEF Calling

\* Each cycle is counted when the writer enters it and when it decides to
\* play another.
LEMMA CourseWriter ==
    ASSUME TypeOK, CourseInv, Writer
    PROVE  CourseInv'
  <1> USE DEF CourseInv, CourseLeft, CourseCount, Undisturbed, Finite,
        callVars, settings, clockVars, WriterInLoop
  <1>1. CASE WSession
    <2>1. Undisturbed /\ Finite => sessions' = repeatCycle + 1
      BY <1>1, ControllerAssumption DEF WSession, SatInc, TypeOK
    <2> QED BY <1>1, <2>1 DEF WSession
  <1>2. CASE WCycle
    BY <1>2 DEF WCycle, KeepGoing, Elapsed
  <1>3. CASE WSlot
    BY <1>3 DEF WSlot
  <1>4. CASE WFlush
    BY <1>4 DEF WFlush
  <1>5. CASE WSleep
    BY <1>5 DEF WSleep
  <1>6. CASE WDecide
    <2>1. CASE AnotherCycle
      <3>1. Undisturbed /\ Finite =>
              repeatCycle + 1 < repeatCount /\ repeatCycle' = repeatCycle + 1
        BY <1>6, <2>1, ControllerAssumption
        DEF WDecide, AnotherCycle, SatInc, TypeOK
      <3> QED BY <1>6, <2>1, <3>1 DEF WDecide, AnotherCycle
    <2>2. CASE ~AnotherCycle
      BY <1>6, <2>2 DEF WDecide, Elapsed, AnotherCycle
    <2> QED BY <2>1, <2>2
  <1>7. CASE WEnd
    BY <1>7 DEF WEnd
  <1>8. CASE WExit
    BY <1>8 DEF WExit
  <1> QED BY <1>1, <1>2, <1>3, <1>4, <1>5, <1>6, <1>7, <1>8 DEF Writer

LEMMA CourseNext ==
    ASSUME TypeOK, CourseInv, [Next]_vars
    PROVE  CourseInv'
  <1>1. CASE Calling
    BY <1>1, CourseCalling
  <1>2. CASE Writer
    BY <1>2, CourseWriter
  <1>3. CASE Tick
    <2>1. Elapsed => Elapsed'
      BY <1>3, ControllerAssumption DEF Tick, Elapsed, settings, TypeOK
    <2> QED
      BY <1>3, <2>1 DEF Tick, callVars, threadVars, settings, CourseInv,
         CourseLeft, CourseCount, Undisturbed, Finite, WriterInLoop,
         AnotherCycle
  <1>4. CASE UNCHANGED vars
    BY <1>4, CourseKept DEF vars, threadVars, clockVars, courseVars
  <1> QED BY <1>1, <1>2, <1>3, <1>4 DEF Next

(* A run that ends by itself has played its duration as often as           *)
(* setDuration() asked, whatever threads call the engine meanwhile: they   *)
(* end the run or leave the count and the clock of WDecide alone.          *)
THEOREM CourseIsFull == Spec => []FullCourse
  <1>1. Init => CourseInv
    BY DEF Init, CourseInv, CourseLeft, CourseCount, Undisturbed
  <1>2. TypeOK /\ CourseInv /\ [Next]_vars => CourseInv'
    BY CourseNext
  <1>3. TypeOK /\ CourseInv => FullCourse
    <2> SUFFICES ASSUME TypeOK, CourseInv, writer = "end", Undisturbed
                 PROVE  ~(repeatEnabled /\ repeatInfinite)
                        /\ sessions = PlaysAskedFor
      BY DEF FullCourse, Undisturbed
    <2>1. Finite
      BY DEF CourseInv, CourseLeft, AnotherCycle, Finite
    <2>2. sessions = repeatCycle + 1
          /\ (repeatCycle = 0 \/ (repeatEnabled /\ repeatCycle < repeatCount))
          /\ (repeatEnabled => ~(repeatCycle + 1 < repeatCount))
      BY <2>1 DEF CourseInv, CourseLeft, CourseCount, AnotherCycle
    <2>3. repeatCycle \in Nat /\ repeatCount \in Nat
      BY ControllerAssumption DEF TypeOK
    <2>4. sessions = PlaysAskedFor
      BY <2>2, <2>3 DEF PlaysAskedFor
    <2> QED BY <2>1, <2>4 DEF Finite
  <1> QED BY <1>1, <1>2, <1>3, TypeCorrect, PTL DEF Spec

-----------------------------------------------------------------------------
\* m_nextId only grows, so the ids handed out are those below it.
LEMMA IdsNext ==
    ASSUME TypeOK, IdsInv, [Next]_vars
    PROVE  /\ IdsInv'
           /\ \A p \in Ids : p \in Live' \ Live => p \notin issued
  <1> USE DEF IdsInv, Live, TypeOK, PubStates
  <1>1. ASSUME NEW c \in Callers, AddPublisher(c)
        PROVE  /\ IdsInv'
               /\ \A p \in Ids : p \in Live' \ Live => p \notin issued
    <2>1. /\ issued' = 1 .. nextId' - 1 /\ nextId \notin issued
          /\ nextId \in issued'
      BY <1>1, ControllerAssumption DEF AddPublisher, Ids
    <2>2. Live' \subseteq Live \cup {nextId} /\ issued \subseteq issued'
      BY <1>1 DEF AddPublisher
    <2> QED BY <2>1, <2>2
  <1>2. ASSUME issued' = issued, nextId' = nextId, Live' \subseteq Live
        PROVE  /\ IdsInv'
               /\ \A p \in Ids : p \in Live' \ Live => p \notin issued
    BY <1>2
  <1>3. ASSUME NEW c \in Callers, Command(c), ~AddPublisher(c)
        PROVE  issued' = issued /\ nextId' = nextId /\ Live' \subseteq Live
    BY <1>3 DEF Command, RemoveAllPublishers, IdAfterClear, RemovePublisher,
       ConfigurePublisher, SetDuration, SetInterface, StartCheck, StopBegin,
       ResetBegin, pubVars
  <1>4. ASSUME NEW c \in Callers, Continue(c)
        PROVE  issued' = issued /\ nextId' = nextId /\ Live' \subseteq Live
    BY <1>4 DEF Continue, StartJoinTest, StopJoinTest, JoinableTest,
       StartJoin, StopJoin, Join, StartFails, StartBuild, StartLaunch,
       StopClearSchedule, StopClearPublishers, pubVars, AtLeastConfigured
  <1>5. CASE Writer \/ Tick
    BY <1>2, <1>5 DEF Writer, WSession, WCycle, WSlot, WFlush, WSleep,
       WDecide, WEnd, WExit, Tick, callVars, pubVars
  <1>6. CASE UNCHANGED vars
    BY <1>2, <1>6 DEF vars, pubVars
  <1> QED
    BY <1>1, <1>2, <1>3, <1>4, <1>5, <1>6 DEF Next, Calling

(* No id is handed out twice in the life of the process, whatever threads  *)
(* call: clearing the publishers does not restart m_nextId.                *)
THEOREM IdsAreFresh == Spec => FreshIds
  <1>1. Init => IdsInv
    BY DEF Init, IdsInv, Live
  <1>2. TypeOK /\ IdsInv /\ [Next]_vars => IdsInv'
    BY IdsNext
  <1>3. TypeOK /\ IdsInv /\ [Next]_vars =>
          [\A p \in Ids : pubState[p] = "absent" /\ pubState'[p] # "absent"
             => p \notin issued]_vars
    BY IdsNext DEF Live
  <1> QED BY <1>1, <1>2, <1>3, TypeCorrect, PTL DEF Spec, FreshIds
=============================================================================
