------------------------------- MODULE GooseTx -------------------------------
(***************************************************************************)
(* One GOOSE transmit stream: the service calls that start and stop it     *)
(* (GooseService), the scheduler thread with its retransmission ramp       *)
(* (GooseTxScheduler), the inbound queue and the latch of SpscBridge it    *)
(* reads its Boolean from, and the program that pushes the values.         *)
(*                                                                         *)
(* Threads.  One thread pushes values (goose::setValue() or the ingest     *)
(* worker), one calls the service (the kit's threading contract), one is   *)
(* the scheduler's.  A message is its index among the accepted ones, so    *)
(* that the model can tell which push a frame shows.                       *)
(*                                                                         *)
(* Time is counted in milliseconds.  It passes only while the scheduler    *)
(* sleeps: the code between two sleeps takes microseconds.  sleep_for(1ms) *)
(* may oversleep by up to Jitter.                                          *)
(***************************************************************************)
EXTENDS Naturals, Sequences

CONSTANTS
    Depth,           \* DEFAULT_DEPTH of the inbound ring
    FirstRetx,       \* Settings::firstRetx_ms  } any pair of positive numbers:
    Heartbeat,       \* Settings::heartbeat_ms  } the service replaces zeros only
    Jitter,          \* how long sleep_for(1 ms) may oversleep
    MaxPush,         \* bound: messages the ring accepts
    MaxRuns,         \* bound: schedulers started
    MaxSq            \* bound: sqNum saturates here

ASSUME GooseAssumption ==
    /\ Depth \in Nat \ {0} /\ MaxPush \in Nat /\ MaxRuns \in Nat
    /\ FirstRetx \in Nat \ {0} /\ Heartbeat \in Nat \ {0}
    /\ Jitter \in Nat /\ MaxSq \in Nat \ {0}

VARIABLES
    configured,      \* configureTx() has been called: queue and txConfig
    accepted,        \* the messages the ring has accepted, in order
    inbound,         \* StreamPair::inbound
    latched,         \* StreamPair::last_value, 0 while !has_value
    ifaceOpen,       \* npcap_send_packet() succeeds
    entry,           \* the service's map holds a scheduler for the stream
    running,         \* m_running of the scheduler
    thread,          \* where the scheduler thread is
    cached,          \* the message cachedBool was taken from, 0: !hasCached
    stNum, sqNum, nextInterval,
    waitMs,          \* the argument of waitOrChange()
    call             \* where the service's caller is

VARIABLES
    clock,           \* waited: ms in this wait, slept: ms in this sleep,
                     \* age: ms since the last frame of this scheduler,
                     \* lag: ms the newest message has not been taken up
    tal,             \* timeAllowedToLive of the last frame
    wire,            \* the last frame the interface has taken, this run
    runs             \* schedulers started so far

bridgeVars == <<configured, accepted, inbound, latched>>
serviceVars == <<entry, call, runs>>
ramp == <<cached, stNum, sqNum, nextInterval>>
vars == <<bridgeVars, ifaceOpen, serviceVars, running, thread, ramp, waitMs,
          clock, tal, wire>>

Silent == [n |-> 0, st |-> 0, sq |-> 0]
ThreadStates == {"none", "top", "fire", "wait", "sleep", "done"}

\* The longest interval: a ramp that starts above the heartbeat stays there.
Longest == IF FirstRetx > Heartbeat THEN FirstRetx ELSE Heartbeat

\* Bounds on the clock: no wait, sleep or gap is longer.
MaxAge == 2 * Longest + Jitter + 2
SatInc(n, bound) == IF n < bound THEN n + 1 ELSE bound

Value(n) == accepted[n]
Newest == Len(accepted)
Alive == thread \notin {"none", "done"}

Init ==
    /\ configured = FALSE
    /\ accepted = <<>> /\ inbound = <<>> /\ latched = 0
    /\ ifaceOpen = TRUE
    /\ entry = FALSE /\ running = FALSE /\ thread = "none"
    /\ cached = 0 /\ stNum = 0 /\ sqNum = 0
    /\ nextInterval = FirstRetx /\ waitMs = 0
    /\ call = "idle"
    /\ clock = [waited |-> 0, slept |-> 0, age |-> 0, lag |-> 0]
    /\ tal = 0 /\ wire = Silent /\ runs = 0

-----------------------------------------------------------------------------
(* The program that feeds the stream, and the interface.                   *)

\* Mutant: the ring is never full.
Enqueue_Unbounded(m) == inbound' = Append(inbound, m)
\* Mutant: the ring hands out the newest message first.
Enqueue_InFront(m) == Len(inbound) < Depth /\ inbound' = <<m>> \o inbound
\* SPSCQueue::try_push() on a ring that is not full.
Enqueue(m) == Len(inbound) < Depth /\ inbound' = Append(inbound, m)

\* SpscBridge::push(): a message that finds the ring full is counted and
\* forgotten; one that the ring takes is an accepted one.
Push(value) ==
    /\ configured /\ Newest < MaxPush
    /\ Enqueue(Newest + 1)
    /\ accepted' = Append(accepted, value)
    /\ UNCHANGED <<configured, latched, ifaceOpen, serviceVars, running,
                   thread, ramp, waitMs, clock, tal, wire>>

ToggleInterface ==
    /\ ifaceOpen' = ~ifaceOpen
    /\ UNCHANGED <<bridgeVars, serviceVars, running, thread, ramp, waitMs,
                   clock, tal, wire>>

-----------------------------------------------------------------------------
(* The service.                                                            *)

schedulerVars == <<running, thread, ramp, waitMs, clock, tal, wire>>

\* configureTx(): registers the queue pair, stores the configuration.
ConfigureTx ==
    /\ call = "idle"
    /\ configured' = TRUE
    /\ UNCHANGED <<accepted, inbound, latched, ifaceOpen, entry, call, runs,
                   schedulerVars>>

\* sv_goose_start_tx(): a new scheduler with its thread at the top of loop().
\* For a stream that is not configured, or runs, it returns without effect.
StartTx ==
    /\ call = "idle" /\ configured /\ ~(entry /\ running)
    /\ runs < MaxRuns
    /\ runs' = runs + 1
    /\ entry' = TRUE /\ running' = TRUE /\ thread' = "top"
    /\ cached' = 0 /\ stNum' = 0 /\ sqNum' = 0
    /\ nextInterval' = FirstRetx /\ waitMs' = 0
    /\ clock' = [waited |-> 0, slept |-> 0, age |-> 0, lag |-> 0]
    /\ tal' = 0 /\ wire' = Silent
    /\ UNCHANGED <<bridgeVars, ifaceOpen, call>>

\* Mutant: the scheduler is not told to stop.
StopTx_KeepsRunning ==
    /\ call = "idle" /\ entry
    /\ entry' = FALSE
    /\ call' = "join"
    /\ UNCHANGED <<bridgeVars, ifaceOpen, runs, schedulerVars>>
\* sv_goose_stop_tx(), sv_goose_stop_all_tx(): the scheduler leaves the map
\* and is destroyed outside the lock; its stop() lowers m_running ...
StopTx ==
    /\ call = "idle" /\ entry
    /\ entry' = FALSE /\ running' = FALSE
    /\ call' = "join"
    /\ UNCHANGED <<bridgeVars, ifaceOpen, runs, thread, ramp, waitMs,
                   clock, tal, wire>>

\* Mutant: the thread is not waited for.
StopJoin_Detaches ==
    /\ call = "join"
    /\ call' = "idle"
    /\ UNCHANGED <<bridgeVars, ifaceOpen, entry, runs, schedulerVars>>
\* ... and joins the thread.
StopJoin ==
    /\ call = "join" /\ thread = "done"
    /\ call' = "idle"
    /\ UNCHANGED <<bridgeVars, ifaceOpen, entry, runs, schedulerVars>>

-----------------------------------------------------------------------------
(* The scheduler thread.                                                   *)

\* SpscBridge::sampleAt() empties the ring and latches the last message.
Drain ==
    /\ latched' = IF inbound = <<>> THEN latched ELSE inbound[Len(inbound)]
    /\ inbound' = <<>>

\* A value is there and is not the one on the air.
Changed(n, shown) == n # 0 /\ (shown = 0 \/ Value(n) # Value(shown))

\* The clock of a change the scheduler has looked for and not found is off.
Behind(shown) == IF Changed(Newest, shown) THEN clock.lag ELSE 0

\* Mutant: a change is sent under the old number.
NextState_Same(st, first) == IF first THEN 1 ELSE st
\* stNum of a new state: 1 for the first, one more for the others.
NextState(st, first) == IF first THEN 1 ELSE st + 1

\* The top of loop(): a changed value restarts the ramp, an unchanged one is
\* repeated, and without any value the thread idles for a heartbeat.
Poll ==
    /\ thread = "top" /\ running
    /\ Drain
    /\ IF Changed(latched', cached)
       THEN /\ cached' = latched'
            /\ stNum' = NextState(stNum, cached = 0) /\ sqNum' = 0
            /\ nextInterval' = FirstRetx
            /\ thread' = "fire" /\ UNCHANGED waitMs
       ELSE /\ UNCHANGED <<cached, stNum, nextInterval>>
            /\ IF cached = 0
               THEN thread' = "wait" /\ waitMs' = Heartbeat /\ UNCHANGED sqNum
               ELSE /\ thread' = "fire" /\ UNCHANGED waitMs
                    /\ sqNum' = SatInc(sqNum, MaxSq)
    /\ clock' = [clock EXCEPT !.waited = 0, !.lag = Behind(cached')]
    /\ UNCHANGED <<configured, accepted, ifaceOpen, serviceVars, running, tal,
                   wire>>

\* The interval doubles up to the heartbeat; one that is longer is kept.
Ramped(ms) ==
    IF ms >= Heartbeat THEN ms
    ELSE IF 2 * ms > Heartbeat THEN Heartbeat ELSE 2 * ms

\* fire(), and the ramp step that follows a repetition.
Fire ==
    /\ thread = "fire"
    /\ tal' = 2 * nextInterval
    /\ wire' = IF ifaceOpen THEN [n |-> cached, st |-> stNum, sq |-> sqNum]
               ELSE wire
    /\ nextInterval' = IF sqNum = 0 THEN nextInterval ELSE Ramped(nextInterval)
    /\ waitMs' = nextInterval'
    /\ clock' = [clock EXCEPT !.age = 0]
    /\ thread' = "wait"
    /\ UNCHANGED <<bridgeVars, ifaceOpen, serviceVars, running, cached, stNum,
                   sqNum>>

\* Mutant: the wait is a plain sleep.
WakesFor_Nothing(n) == FALSE
\* waitOrChange() returns early for a value other than the cached one.
WakesFor(n) == Changed(n, cached)

\* One turn of the loop in waitOrChange().
WaitEnds ==
    /\ thread = "wait"
    /\ ~running \/ clock.waited >= waitMs
    /\ thread' = "top"
    /\ UNCHANGED <<bridgeVars, ifaceOpen, serviceVars, running, ramp, waitMs,
                   clock, tal, wire>>

WaitPolls ==
    /\ thread = "wait"
    /\ running /\ clock.waited < waitMs
    /\ Drain
    /\ thread' = IF WakesFor(latched') THEN "top" ELSE "sleep"
    /\ clock' = [clock EXCEPT !.slept = 0, !.lag = Behind(cached)]
    /\ UNCHANGED <<configured, accepted, ifaceOpen, serviceVars, running, ramp,
                   waitMs, tal, wire>>

Wake ==
    /\ thread = "sleep" /\ clock.slept >= 1
    /\ thread' = "wait"
    /\ UNCHANGED <<bridgeVars, ifaceOpen, serviceVars, running, ramp, waitMs,
                   clock, tal, wire>>

\* loop() returns.
LoopEnds ==
    /\ thread = "top" /\ ~running
    /\ thread' = "done"
    /\ UNCHANGED <<bridgeVars, ifaceOpen, serviceVars, running, ramp, waitMs,
                   clock, tal, wire>>

Scheduler == Poll \/ Fire \/ WaitEnds \/ WaitPolls \/ Wake \/ LoopEnds

-----------------------------------------------------------------------------
\* A millisecond passes.
Tick ==
    /\ ~Alive \/ (thread = "sleep" /\ clock.slept <= Jitter)
    /\ clock' = IF ~Alive THEN clock
                ELSE [waited |-> SatInc(clock.waited, MaxAge),
                      slept |-> clock.slept + 1,
                      age |-> IF cached = 0 THEN 0 ELSE SatInc(clock.age, MaxAge),
                      lag |-> IF Changed(Newest, cached)
                              THEN SatInc(clock.lag, MaxAge) ELSE 0]
    /\ UNCHANGED <<bridgeVars, ifaceOpen, serviceVars, running, thread, ramp,
                   waitMs, tal, wire>>

Service == ConfigureTx \/ StartTx \/ StopTx \/ StopJoin

Next ==
    \/ \E value \in BOOLEAN : Push(value)
    \/ ToggleInterface \/ Service \/ Scheduler \/ Tick

Spec == Init /\ [][Next]_vars

\* The threads are scheduled and time passes.
FairSpec ==
    /\ Spec
    /\ WF_vars(Scheduler) /\ WF_vars(Tick) /\ WF_vars(StopJoin)

-----------------------------------------------------------------------------
TypeOK ==
    /\ configured \in BOOLEAN /\ ifaceOpen \in BOOLEAN
    /\ accepted \in Seq(BOOLEAN) /\ Len(accepted) <= MaxPush
    /\ inbound \in Seq(1 .. MaxPush) /\ Len(inbound) <= Depth
    /\ latched \in 0 .. MaxPush /\ cached \in 0 .. MaxPush
    /\ entry \in BOOLEAN /\ running \in BOOLEAN
    /\ thread \in ThreadStates
    /\ stNum \in 0 .. MaxPush /\ sqNum \in 0 .. MaxSq
    /\ nextInterval \in FirstRetx .. Longest
    /\ waitMs \in 0 .. Longest
    /\ call \in {"idle", "join"} 
    /\ clock \in [waited : 0 .. MaxAge, slept : 0 .. Jitter + 1,
                  age : 0 .. MaxAge, lag : 0 .. MaxAge]
    /\ tal \in 0 .. 2 * Longest
    /\ wire \in [n : 0 .. MaxPush, st : 0 .. MaxPush, sq : 0 .. MaxSq]
    /\ runs \in 0 .. MaxRuns

(* The three timers of the stream, whatever the order of changes, stops and *)
(* lost frames.  A change goes out "within a few ms": from the moment the   *)
(* ring takes a value that differs from the one on the air, the scheduler   *)
(* takes it up after at most one sleep, whatever the heartbeat.  The ramp   *)
(* never stretches the gap between frames beyond the heartbeat, or beyond   *)
(* the first interval if that is the longer.  And a subscriber that         *)
(* waits as long as timeAllowedToLive of the last frame says sees the next  *)
(* one in time, but for what the last sleep lasts too long: in the ramp the *)
(* time allowed is exactly the gap the scheduler then leaves.               *)
PromptChange == Alive => clock.lag <= 1 + Jitter
GapKept == (Alive /\ cached # 0) => clock.age <= Longest + Jitter
TimeAllowedKept == (Alive /\ running /\ cached # 0) => clock.age <= tal + Jitter
InTime == PromptChange /\ GapKept /\ TimeAllowedKept

(* Once sv_goose_stop_tx() has returned the stream is silent: no thread is  *)
(* left behind that could send another frame, and none is running while no  *)
(* scheduler is in the map.                                                 *)
StoppedMeansSilent == (call = "idle" /\ ~entry) => ~Alive

(* Frames as StateBroadcast has them: a sampling of the accepted values     *)
(* that never goes back, a higher stNum for every change and a growing      *)
(* sqNum for every repetition, whatever is lost at the interface.           *)
Broadcast == INSTANCE StateBroadcast WITH
    MaxSt <- MaxPush,
    history <- accepted
BroadcastSpec == Broadcast!Spec

(* Every stop returns.                                                      *)
StopReturns == (call = "join") ~> (call = "idle")

(* A stream that stays up shows, for good, the newest value it accepted     *)
(* once no more come.                                                       *)
Serving == running /\ ifaceOpen /\ accepted # <<>>
ShowsNewest == wire.n # 0 /\ Value(wire.n) = Value(Newest)
NewestIsShown == <>[]Serving => <>[]ShowsNewest
=============================================================================
