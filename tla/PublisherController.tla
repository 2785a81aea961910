------------------------- MODULE PublisherController -------------------------
(***************************************************************************)
(* The lifecycle of the native publishing engine: the singleton            *)
(* PublisherController (native/src/PublisherController.cc), the merged     *)
(* schedule it hands to its writer thread (SharedBuffer) and that thread.  *)
(*                                                                         *)
(* Threads.  A client thread runs the API commands one after the other:    *)
(* the uWS event loop in the application and in the headless service, the  *)
(* host's main thread in a program that links the kit.  An exiter is the   *)
(* main thread of the service: when main() returns, the static destructor  *)
(* ~PublisherController runs stopAll() on it, while the detached event     *)
(* loop thread is still there.  The writer thread is spawned by startAll() *)
(* and joined by stopAll(), resetAll() or the next startAll().             *)
(*                                                                         *)
(* Abstractions.  A publisher is its id and the state of its frame cache.  *)
(* A schedule is the set of publishers it borrows frames from: which slot  *)
(* the writer visits next, how many slots a cycle has and where a batch is *)
(* cut are left open, so every split the code can make is one of the       *)
(* model's.  Time is counted in whole seconds since m_startTimeMs and      *)
(* saturates at MaxTime, which no duration exceeds.                        *)
(***************************************************************************)
EXTENDS Naturals

CONSTANTS
    Clients,             \* threads that call the API
    Exiters,             \* threads that run ~PublisherController
    MaxId,               \* bound: the largest publisher id handed out
    Durations,           \* the values of m_durationSeconds clients set
    RepeatCounts,        \* the values of m_repeatCount clients set
    MaxTime,             \* bound: seconds counted since m_startTimeMs
    MaxCycle,            \* bound: m_repeatCycle saturates here
    RetuneWhileRunning,  \* do clients call setDuration() during a run?
    NoOne                \* no thread holds m_mutex

ASSUME ControllerAssumption ==
    /\ MaxId \in Nat /\ MaxTime \in Nat /\ MaxCycle \in Nat
    /\ Durations \subseteq 0 .. MaxTime
    /\ RepeatCounts \subseteq 0 .. MaxCycle
    /\ RetuneWhileRunning \in BOOLEAN
    /\ Clients \cap Exiters = {}
    /\ NoOne \notin Clients \cup Exiters

VARIABLES
    pubState,          \* id -> "absent" or SvPublisherInstance::m_state
    nextId,            \* m_nextId
    lock,              \* owner of m_mutex
    schedule,          \* publishers m_sharedBuffer holds pointers into
    running,           \* m_running
    joinable,          \* m_writerThread.joinable()
    writer,            \* where the writer thread is
    walk,              \* the schedule as the writer captured it (schedSize)
    batch,             \* publishers whose frames wait in batch_data
    ifaceOpen,         \* npcap_is_open()
    durationSeconds, repeatEnabled, repeatInfinite, repeatCount,
    repeatCycle, durationComplete,
    sinceStart,        \* seconds since m_startTimeMs
    pc,                \* where each calling thread is
    op                 \* which of stopAll(), resetAll(), destructor it runs

VARIABLES              \* history, read by the properties only
    issued,            \* ids addPublisher() has returned
    sessions,          \* duration cycles entered since the last start
    settled,           \* no setDuration() since the last start
    strayAccess,       \* the writer has used freed or unscheduled memory
    crashed            \* std::terminate()

settings == <<durationSeconds, repeatEnabled, repeatInfinite, repeatCount>>
pubVars == <<pubState, nextId, issued>>
threadVars == <<running, joinable, writer, walk, batch, strayAccess>>
clockVars == <<repeatCycle, durationComplete, sinceStart, sessions, settled>>
vars == <<pubVars, lock, schedule, threadVars, ifaceOpen, settings,
          clockVars, pc, op, crashed>>

Callers == Clients \cup Exiters
Ids == 1 .. MaxId
PubStates == {"absent", "idle", "configured", "ready", "failed"}
WriterStates == {"none", "session", "cycle", "slots", "decide", "end",
                 "exit", "done"}
CallerStates == {"idle", "startJoin", "startJoining", "startBuild",
                 "startLaunch", "stopJoin", "stopJoining", "stopSchedule",
                 "stopPublishers", "exited"}
Ops == {"stop", "reset", "exit"}

Live == {p \in Ids : pubState[p] # "absent"}
AtLeastConfigured == {p \in Ids : pubState[p] \in {"configured", "ready", "failed"}}

WriterActive == writer \notin {"none", "done"}

\* checkDurationElapsed()
Elapsed == durationSeconds # 0 /\ sinceStart >= durationSeconds

\* The process is there to take another step.
Up == ~crashed /\ \A x \in Exiters : pc[x] # "exited"

SatInc(n, bound) == IF n < bound THEN n + 1 ELSE bound

\* Mutant: publishers may be removed during a run.
MayRemove_Always == TRUE
\* removePublisher() and removeAllPublishers() are refused during a run.
MayRemove == ~running

\* Mutant: clearing the publishers starts the ids at zero.
IdAfterClear_Zero == 0
\* m_nextId is intentionally not reset when the publishers are cleared.
IdAfterClear == nextId

Init ==
    /\ pubState = [p \in Ids |-> "absent"]
    /\ nextId = 1
    /\ lock = NoOne
    /\ schedule = {}
    /\ running = FALSE /\ joinable = FALSE /\ writer = "none"
    /\ walk = {} /\ batch = {}
    /\ ifaceOpen = FALSE
    /\ durationSeconds = 0 /\ repeatCount = 0
    /\ repeatEnabled = FALSE /\ repeatInfinite = FALSE
    /\ repeatCycle = 0 /\ durationComplete = FALSE
    /\ sinceStart = MaxTime
    /\ pc = [c \in Callers |-> "idle"]
    /\ op = [c \in Callers |-> "stop"]
    /\ issued = {} /\ sessions = 0 /\ settled = FALSE
    /\ strayAccess = FALSE /\ crashed = FALSE

-----------------------------------------------------------------------------
(* Commands that hold m_mutex for their whole body, or take no lock.       *)

Goto(c, label) == pc' = [pc EXCEPT ![c] = label]

\* A client between two commands, for a command that returns at once.
Calls(c) == c \in Clients /\ pc[c] = "idle" /\ UNCHANGED <<pc, op, crashed>>

\* addPublisher() does not look at m_running.
AddPublisher(c) ==
    /\ Calls(c) /\ lock = NoOne
    /\ nextId <= MaxId
    /\ pubState' = [pubState EXCEPT ![nextId] = "idle"]
    /\ issued' = issued \cup {nextId}
    /\ nextId' = nextId + 1
    /\ UNCHANGED <<lock, schedule, threadVars, ifaceOpen, settings, clockVars>>

\* removePublisher() leaves m_sharedBuffer as it is.
RemovePublisher(c, p) ==
    /\ Calls(c) /\ lock = NoOne
    /\ MayRemove
    /\ p \in Live
    /\ pubState' = [pubState EXCEPT ![p] = "absent"]
    /\ UNCHANGED <<nextId, issued, lock, schedule, threadVars, ifaceOpen,
                   settings, clockVars>>

RemoveAllPublishers(c) ==
    /\ Calls(c) /\ lock = NoOne
    /\ MayRemove
    /\ pubState' = [p \in Ids |-> "absent"]
    /\ schedule' = {}
    /\ nextId' = IdAfterClear
    /\ UNCHANGED <<issued, lock, threadVars, ifaceOpen, settings, clockVars>>

\* configurePublisher() is not refused during a run: SvPublisherInstance
\* ::configure() takes a READY publisher back to CONFIGURED.
ConfigurePublisher(c, p) ==
    /\ Calls(c) /\ lock = NoOne
    /\ p \in Live
    /\ pubState' = [pubState EXCEPT ![p] = "configured"]
    /\ UNCHANGED <<nextId, issued, lock, schedule, threadVars, ifaceOpen,
                   settings, clockVars>>

\* setDuration(): plain stores, no lock.
SetDuration(c) ==
    /\ Calls(c)
    /\ RetuneWhileRunning \/ ~WriterActive
    /\ durationSeconds' \in Durations
    /\ repeatEnabled' \in BOOLEAN
    /\ repeatInfinite' \in BOOLEAN
    /\ repeatCount' \in RepeatCounts
    /\ repeatCycle' = 0
    /\ settled' = FALSE
    /\ UNCHANGED <<pubVars, lock, schedule, threadVars, ifaceOpen,
                   durationComplete, sinceStart, sessions>>

\* open_interface and close_interface: no look at m_running either.
SetInterface(c) ==
    /\ Calls(c)
    /\ ifaceOpen' = ~ifaceOpen
    /\ UNCHANGED <<pubVars, lock, schedule, threadVars, settings, clockVars>>

-----------------------------------------------------------------------------
(* startAll().                                                             *)

\* The two checks made before the lock is taken.
StartCheck(c) ==
    /\ c \in Clients /\ pc[c] = "idle"
    /\ ~running /\ ifaceOpen
    /\ Goto(c, "startJoin")
    /\ UNCHANGED <<pubVars, lock, schedule, threadVars, ifaceOpen, settings,
                   clockVars, op, crashed>>

\* if (m_writerThread.joinable()) ... in front of a join().
JoinableTest(c, from, yes, no) ==
    /\ pc[c] = from
    /\ Goto(c, IF joinable THEN yes ELSE no)
    /\ UNCHANGED <<pubVars, lock, schedule, threadVars, ifaceOpen, settings,
                   clockVars, op, crashed>>

\* join() returns once the thread function has; joining a thread that
\* another caller has joined already terminates the program.
Join(c, from, to) ==
    /\ pc[c] = from
    /\ writer \in {"none", "done"}
    /\ joinable' = FALSE
    /\ crashed' = ~joinable
    /\ Goto(c, to)
    /\ UNCHANGED <<pubVars, lock, schedule, running, writer, walk, batch,
                   strayAccess, ifaceOpen, settings, clockVars, op>>

StartJoinTest(c) == JoinableTest(c, "startJoin", "startJoining", "startBuild")
StartJoin(c) == Join(c, "startJoining", "startBuild")

\* No publishers, or a publisher f whose prebuildFrames() fails: those before
\* f in the list (the list is in id order) have been rebuilt by then.
StartFails(c) ==
    /\ pc[c] = "startBuild" /\ lock = NoOne
    /\ \/ Live = {} /\ UNCHANGED pubState
       \/ \E f \in AtLeastConfigured :
            pubState' = [p \in Ids |->
                IF p = f THEN "failed"
                ELSE IF p < f /\ p \in AtLeastConfigured THEN "ready"
                ELSE pubState[p]]
    /\ Goto(c, "idle")
    /\ UNCHANGED <<nextId, issued, lock, schedule, threadVars, ifaceOpen,
                   settings, clockVars, op, crashed>>

\* Prebuild every configured publisher and merge: idle ones are skipped, an
\* empty merge ends the call, otherwise m_mutex stays held.
StartBuild(c) ==
    /\ pc[c] = "startBuild" /\ lock = NoOne
    /\ Live # {}
    /\ pubState' = [p \in Ids |->
           IF p \in AtLeastConfigured THEN "ready" ELSE pubState[p]]
    /\ schedule' = AtLeastConfigured
    /\ IF AtLeastConfigured = {}
       THEN Goto(c, "idle") /\ UNCHANGED lock
       ELSE Goto(c, "startLaunch") /\ lock' = c
    /\ UNCHANGED <<nextId, issued, threadVars, ifaceOpen, settings, clockVars,
                   op, crashed>>

\* Reset the clock and the flags, raise m_running, assign m_writerThread:
\* assigning over a joinable thread terminates the program.
StartLaunch(c) ==
    /\ pc[c] = "startLaunch"
    /\ sinceStart' = 0 /\ durationComplete' = FALSE /\ repeatCycle' = 0
    /\ running' = TRUE
    /\ joinable' = TRUE /\ writer' = "session"
    /\ crashed' = joinable
    /\ lock' = NoOne
    /\ sessions' = 0 /\ settled' = TRUE
    /\ Goto(c, "idle")
    /\ UNCHANGED <<pubVars, schedule, walk, batch, strayAccess, ifaceOpen,
                   settings, op>>

-----------------------------------------------------------------------------
(* stopAll(), resetAll() and the destructor, which calls stopAll().        *)

StopBegin(c) ==
    /\ pc[c] = "idle"
    /\ running' = FALSE
    /\ op' = [op EXCEPT ![c] = IF c \in Exiters THEN "exit" ELSE "stop"]
    /\ Goto(c, "stopJoin")
    /\ UNCHANGED <<pubVars, lock, schedule, joinable, writer, walk, batch,
                   strayAccess, ifaceOpen, settings, clockVars, crashed>>

ResetBegin(c) ==
    /\ c \in Clients /\ pc[c] = "idle"
    /\ running' = FALSE
    /\ op' = [op EXCEPT ![c] = "reset"]
    /\ Goto(c, "stopJoin")
    /\ UNCHANGED <<pubVars, lock, schedule, joinable, writer, walk, batch,
                   strayAccess, ifaceOpen, settings, clockVars, crashed>>

StopJoinTest(c) == JoinableTest(c, "stopJoin", "stopJoining", "stopSchedule")
StopJoin(c) == Join(c, "stopJoining", "stopSchedule")

\* m_sharedBuffer.clear(), without the lock.
StopClearSchedule(c) ==
    /\ pc[c] = "stopSchedule"
    /\ schedule' = {}
    /\ Goto(c, "stopPublishers")
    /\ UNCHANGED <<pubVars, lock, threadVars, ifaceOpen, settings, clockVars,
                   op, crashed>>

\* m_publishers.clear() under the lock; resetAll() goes on to the settings,
\* the destructor to the members: a std::thread that is still joinable
\* terminates the program.
StopClearPublishers(c) ==
    /\ pc[c] = "stopPublishers" /\ lock = NoOne
    /\ pubState' = [p \in Ids |-> "absent"]
    /\ IF op[c] = "reset"
       THEN /\ durationSeconds' = 0 /\ repeatCount' = 0
            /\ repeatEnabled' = FALSE /\ repeatInfinite' = FALSE
            /\ repeatCycle' = 0 /\ durationComplete' = FALSE
            /\ sinceStart' = MaxTime      \* m_startTimeMs = 0: long ago
            /\ settled' = FALSE
       ELSE UNCHANGED <<settings, repeatCycle, durationComplete, sinceStart,
                        settled>>
    /\ Goto(c, IF op[c] = "exit" THEN "exited" ELSE "idle")
    /\ crashed' = (op[c] = "exit" /\ joinable)
    /\ UNCHANGED <<nextId, issued, lock, schedule, threadVars, ifaceOpen,
                   sessions, op>>

-----------------------------------------------------------------------------
(* writerLoopImmediate().                                                  *)

callVars == <<pubVars, lock, schedule, ifaceOpen, pc, op, crashed>>

\* Top of the outer loop: stats reset, schedSize captured.
WSession ==
    /\ writer = "session"
    /\ walk' = schedule
    /\ sessions' = SatInc(sessions, MaxCycle + 1)
    /\ writer' = "cycle"
    /\ UNCHANGED <<callVars, running, joinable, batch, strayAccess, settings,
                   repeatCycle, durationComplete, sinceStart, settled>>

\* Mutant: the writer looks at the clock only.
KeepGoing_Unstoppable == ~Elapsed
KeepGoing == running /\ ~Elapsed

\* while (m_running && !checkDurationElapsed())
WCycle ==
    /\ writer = "cycle"
    /\ writer' = IF KeepGoing THEN "slots" ELSE "decide"
    /\ UNCHANGED <<callVars, running, joinable, walk, batch, strayAccess,
                   settings, clockVars>>

\* One slot of the for loop: dereference the entry and its publisher, put the
\* frame pointer in the batch.  An empty walk is an index modulo zero.
WSlot ==
    /\ writer = "slots" /\ KeepGoing
    /\ \E p \in (IF walk = {} THEN Ids ELSE walk) :
         /\ batch' = batch \cup {p}
         /\ strayAccess' = (strayAccess \/ p \notin walk \cap schedule \cap Live)
    /\ UNCHANGED <<callVars, running, joinable, writer, walk, settings,
                   clockVars>>

\* flush_batch(): npcap_send_packet_batch() reads every frame in the batch.
WFlush ==
    /\ writer = "slots" /\ batch # {}
    /\ strayAccess' = (strayAccess \/ ~(batch \subseteq Live))
    /\ batch' = {}
    /\ UNCHANGED <<callVars, running, joinable, writer, walk, settings,
                   clockVars>>

\* The tail has been flushed: sleep CYCLE_SLEEP, next cycle.
WSleep ==
    /\ writer = "slots" /\ batch = {}
    /\ writer' = "cycle"
    /\ UNCHANGED <<callVars, running, joinable, walk, batch, strayAccess,
                   settings, clockVars>>

\* Mutant: one repetition too many.
AnotherCycle_OneMore ==
    /\ Elapsed /\ repeatEnabled
    /\ repeatInfinite \/ repeatCycle < repeatCount
\* Mutant: the count is not looked at.
AnotherCycle_Forever == Elapsed /\ repeatEnabled
AnotherCycle ==
    /\ Elapsed /\ repeatEnabled
    /\ repeatInfinite \/ repeatCycle + 1 < repeatCount

\* The decision at the bottom of the outer loop.
WDecide ==
    /\ writer = "decide"
    /\ IF AnotherCycle
       THEN /\ repeatCycle' = SatInc(repeatCycle, MaxCycle)
            /\ sinceStart' = 0 /\ durationComplete' = FALSE
            /\ writer' = "session"
       ELSE /\ writer' = "end"
            /\ UNCHANGED <<repeatCycle, sinceStart, durationComplete>>
    /\ UNCHANGED <<callVars, running, joinable, walk, batch, strayAccess,
                   settings, sessions, settled>>

\* Mutant: the writer leaves m_running to the callers.
WEnd_StaysRunning ==
    /\ writer = "end"
    /\ durationComplete' = Elapsed
    /\ writer' = "exit"
    /\ UNCHANGED <<callVars, running, joinable, walk, batch, strayAccess,
                   settings, repeatCycle, sinceStart, sessions, settled>>
\* After the loop: a duration that has elapsed lowers m_running.
WEnd ==
    /\ writer = "end"
    /\ IF Elapsed
       THEN durationComplete' = TRUE /\ running' = FALSE
       ELSE UNCHANGED <<durationComplete, running>>
    /\ writer' = "exit"
    /\ UNCHANGED <<callVars, joinable, walk, batch, strayAccess, settings,
                   repeatCycle, sinceStart, sessions, settled>>

\* The thread function returns.
WExit ==
    /\ writer = "exit"
    /\ writer' = "done"
    /\ UNCHANGED <<callVars, running, joinable, walk, batch, strayAccess,
                   settings, clockVars>>

Writer == WSession \/ WCycle \/ WSlot \/ WFlush \/ WSleep \/ WDecide \/ WEnd
              \/ WExit

-----------------------------------------------------------------------------
\* One second passes.
Tick ==
    /\ sinceStart < MaxTime
    /\ sinceStart' = sinceStart + 1
    /\ UNCHANGED <<callVars, threadVars, settings, repeatCycle,
                   durationComplete, sessions, settled>>

\* What a thread inside startAll() or stopAll() does next.
Continue(c) ==
    \/ StartJoinTest(c) \/ StartJoin(c)
    \/ StartFails(c) \/ StartBuild(c) \/ StartLaunch(c)
    \/ StopJoinTest(c) \/ StopJoin(c)
    \/ StopClearSchedule(c) \/ StopClearPublishers(c)

Command(c) ==
    \/ AddPublisher(c) \/ RemoveAllPublishers(c)
    \/ \E p \in Ids : RemovePublisher(c, p) \/ ConfigurePublisher(c, p)
    \/ SetDuration(c) \/ SetInterface(c)
    \/ StartCheck(c) \/ StopBegin(c) \/ ResetBegin(c)

Calling == \E c \in Callers : Command(c) \/ Continue(c)

Next == Up /\ (Calling \/ Writer \/ Tick)

Spec == Init /\ [][Next]_vars

(***************************************************************************)
(* For liveness.  The writer is scheduled (it asks for a real-time class)  *)
(* and a thread inside a call goes on with it.  Strong fairness of the     *)
(* clock stands for the bound packets_per_cycle of the for loop: the       *)
(* writer sleeps again and again, and seconds pass meanwhile.              *)
(***************************************************************************)
Timely == ~WriterActive \/ (writer = "slots" /\ batch = {})

FairSpec ==
    /\ Spec
    /\ WF_vars(Up /\ Writer)
    /\ SF_vars(Up /\ Timely /\ Tick)
    /\ \A c \in Callers : WF_vars(Up /\ Continue(c))

\* From some point on seconds pass only while the writer sleeps between
\* cycles or is not there: the code between two sleeps takes microseconds, a
\* duration at least a second.
TimelyClock == <>[][sinceStart' > sinceStart => Timely]_vars
-----------------------------------------------------------------------------
TypeOK ==
    /\ pubState \in [Ids -> PubStates]
    /\ nextId \in 1 .. MaxId + 1
    /\ lock \in Callers \cup {NoOne}
    /\ schedule \subseteq Ids /\ walk \subseteq Ids /\ batch \subseteq Ids
    /\ running \in BOOLEAN /\ joinable \in BOOLEAN /\ ifaceOpen \in BOOLEAN
    /\ writer \in WriterStates
    /\ durationSeconds \in 0 .. MaxTime /\ repeatCount \in 0 .. MaxCycle
    /\ repeatEnabled \in BOOLEAN /\ repeatInfinite \in BOOLEAN
    /\ repeatCycle \in 0 .. MaxCycle /\ durationComplete \in BOOLEAN
    /\ sinceStart \in 0 .. MaxTime
    /\ pc \in [Callers -> CallerStates] /\ op \in [Callers -> Ops]
    /\ issued \subseteq Ids /\ sessions \in 0 .. MaxCycle + 1
    /\ settled \in BOOLEAN /\ strayAccess \in BOOLEAN /\ crashed \in BOOLEAN

(* The writer never dereferences a schedule entry whose publisher has been  *)
(* destroyed, nor indexes a schedule that was cleared or rebuilt under it:  *)
(* SharedBuffer borrows raw pointers, and only the order of m_running, the  *)
(* join and the clears in removePublisher(), stopAll() and resetAll() keeps *)
(* them valid.  Nor does a call sequence reach std::terminate(): startAll() *)
(* never assigns over a joinable m_writerThread, also after a run that      *)
(* ended by itself, and no thread is joined twice or destroyed unjoined.    *)
WriterMemorySafe == ~strayAccess /\ ~crashed

(* "1 if the multi-publisher writer thread is running, 0 otherwise":        *)
(* m_running does not stay up once the writer has left its loop for good,   *)
(* or startAll() would be refused for ever while nothing is sent.           *)
RunningHasWriter == running => writer \notin {"none", "exit", "done"}

(* A run that ends by itself has played its duration exactly as often as    *)
(* setDuration() asked: once, or m_repeatCount times when repetition is on, *)
(* and never when it is infinite.                                           *)
PlaysAskedFor == IF repeatEnabled /\ repeatCount > 1 THEN repeatCount ELSE 1
FullCourse ==
    (writer = "end" /\ running /\ settled) =>
        ~(repeatEnabled /\ repeatInfinite) /\ sessions = PlaysAskedFor

(* An id that becomes live was never handed out before: a stale handle is   *)
(* never silently bound to a different stream.                              *)
FreshIds ==
    [][\A p \in Ids :
         pubState[p] = "absent" /\ pubState'[p] # "absent" => p \notin issued]_vars

(* "Built once at start; immutable while the writer is running": no call    *)
(* changes the schedule between the writer's first and last use of it.      *)
WriterInLoop == writer \in {"session", "cycle", "slots", "decide"}
ScheduleFrozen == [][WriterInLoop => schedule' = schedule]_vars

(* stopAll() and resetAll() return: the writer they wait for always leaves  *)
(* its loop, whatever the duration and repeat settings.                     *)
StopReturns ==
    TimelyClock => \A c \in Clients : (pc[c] = "stopJoin") ~> (pc[c] = "idle")

(* A run with a duration that does not repeat for ever ends by itself, or   *)
(* is ended by a caller.                                                    *)
NaturalEnd ==
    TimelyClock =>
        ((running /\ durationSeconds # 0 /\ ~(repeatEnabled /\ repeatInfinite))
            ~> ~running)
=============================================================================
