---------------------------- MODULE GooseTx_proofs ----------------------------
(***************************************************************************)
(* Type correctness, silence after a stop, the three timers and the        *)
(* refinement of StateBroadcast for a GOOSE stream, for any ring, first    *)
(* interval, heartbeat and jitter and any number of messages and           *)
(* schedulers.                                                             *)
(***************************************************************************)
EXTENDS GooseTx, TLAPS

\* The messages of the ring are the accepted ones after the latched one, in
\* order: nothing that was accepted is lost between ring and latch.
Bridge ==
    /\ configured \in BOOLEAN
    /\ accepted \in Seq(BOOLEAN) /\ Len(accepted) <= MaxPush
    /\ inbound \in Seq(Nat) /\ Len(inbound) <= Depth
    /\ latched \in Nat /\ latched + Len(inbound) = Newest
    /\ \A i \in 1 .. Len(inbound) : inbound[i] = latched + i

\* The service, the flag and the thread of the scheduler go hand in hand.
Handshake ==
    /\ entry \in BOOLEAN /\ running = entry
    /\ call \in {"idle", "join"} /\ thread \in ThreadStates
    /\ entry => Alive /\ call = "idle"
    /\ (call = "idle" /\ ~entry) => ~Alive

\* What has been taken up is among what was latched; stNum counts it.
Numbers ==
    /\ cached \in 0 .. latched /\ stNum \in 0 .. cached
    /\ cached # 0 => stNum # 0
    /\ thread = "fire" => cached # 0
    /\ sqNum \in 0 .. MaxSq

\* The intervals, and the clocks against them.  A sleep is the only place where
\* time passes, so a change waits no longer than one; what is waited for is
\* never more than what the last frame has announced.
Timers ==
    /\ nextInterval \in FirstRetx .. Longest
    /\ waitMs \in 0 .. Longest /\ tal \in 0 .. 2 * Longest
    /\ clock \in [waited : 0 .. MaxAge, slept : 0 .. Jitter + 1,
                  age : 0 .. MaxAge, lag : 0 .. MaxAge]
    /\ Alive => clock.lag <= 1 + Jitter
    /\ thread = "sleep" => clock.lag <= clock.slept
    /\ thread = "sleep" => clock.waited < waitMs + clock.slept
    /\ thread \in {"wait", "top"} => clock.waited <= waitMs + Jitter
    /\ thread = "fire" => clock.waited = 0
    /\ cached = 0 => clock.age = 0
    /\ (cached # 0 /\ thread \in {"wait", "sleep", "top"}) =>
         clock.age <= clock.waited /\ waitMs <= tal
    /\ thread = "fire" =>
         clock.age <= tal + Jitter /\ clock.age <= Longest + Jitter

\* The last frame shows what is cached under the current number, with no later
\* a repetition than the next one, or an older value under a smaller number.
OnAir ==
    \/ wire = Silent
    \/ /\ wire \in [n : 1 .. cached, st : 1 .. stNum, sq : 0 .. MaxSq]
       /\ wire.n < cached => wire.st < stNum
       /\ wire.n = cached => wire.st = stNum /\ wire.sq <= sqNum
       /\ (wire.n = cached /\ thread = "fire") =>
            wire.sq < sqNum \/ sqNum = MaxSq

Counts == ifaceOpen \in BOOLEAN /\ runs \in 0 .. MaxRuns

IInv == Bridge /\ Handshake /\ Numbers /\ Timers /\ OnAir /\ Counts

USE GooseAssumption

LEMMA LongestBounds ==
    /\ Longest \in Nat /\ FirstRetx <= Longest /\ Heartbeat <= Longest
    /\ MaxAge \in Nat /\ MaxAge = 2 * Longest + Jitter + 2
BY DEF Longest, MaxAge

LEMMA IInvInit == Init => IInv
<1> SUFFICES ASSUME Init PROVE IInv OBVIOUS
<1>1. Bridge
  <2>1. accepted = <<>> /\ inbound = <<>> BY DEF Init
  <2>2. /\ accepted \in Seq(BOOLEAN) /\ Len(accepted) = 0
        /\ inbound \in Seq(Nat) /\ Len(inbound) = 0
    BY <2>1
  <2>3. configured \in BOOLEAN /\ latched = 0 BY DEF Init
  <2> HIDE DEF Init
  <2> QED BY <2>2, <2>3 DEF Bridge, Newest
<1>2. Handshake BY DEF Init, Handshake, Alive, ThreadStates
<1>3. Numbers BY DEF Init, Numbers
<1>4. Timers
  <2>1. clock \in [waited : 0 .. MaxAge, slept : 0 .. Jitter + 1,
                   age : 0 .. MaxAge, lag : 0 .. MaxAge]
    BY LongestBounds DEF Init
  <2> QED BY <2>1, LongestBounds DEF Init, Timers, Alive
<1>5. OnAir /\ Counts BY DEF Init, OnAir, Counts
<1> QED BY <1>1, <1>2, <1>3, <1>4, <1>5 DEF IInv


\* Emptying the ring latches the newest message.
LEMMA DrainLatches ==
    ASSUME Bridge, Drain
    PROVE  latched' = Newest /\ inbound' = <<>>
<1>1. CASE inbound = <<>> BY <1>1 DEF Drain, Bridge, Newest
<1>2. CASE inbound # <<>>
  <2>1. Len(inbound) \in 1 .. Len(inbound) BY <1>2 DEF Bridge
  <2> QED BY <1>2, <2>1 DEF Drain, Bridge, Newest
<1> QED BY <1>1, <1>2

\* The latch never goes back.
LEMMA BridgeStep ==
    ASSUME Bridge, [Next]_vars
    PROVE  Bridge' /\ latched' >= latched
<1>1. ASSUME NEW value \in BOOLEAN, Push(value)
      PROVE  Bridge' /\ latched' = latched
  <2>1. /\ accepted' \in Seq(BOOLEAN) /\ Len(accepted') = Len(accepted) + 1
        /\ Len(accepted') <= MaxPush
    BY <1>1 DEF Push, Bridge, Newest
  <2>2. /\ inbound' \in Seq(Nat) /\ Len(inbound') = Len(inbound) + 1
        /\ Len(inbound') <= Depth
        /\ inbound' = Append(inbound, Newest + 1)
    BY <1>1 DEF Push, Enqueue, Bridge, Newest
  <2>3. ASSUME NEW i \in 1 .. Len(inbound') PROVE inbound'[i] = latched + i
    BY <2>2 DEF Bridge, Newest
  <2> QED BY <1>1, <2>1, <2>2, <2>3 DEF Push, Bridge, Newest
<1>2. CASE Drain /\ UNCHANGED <<configured, accepted>>
  <2>1. inbound' \in Seq(Nat) /\ Len(inbound') = 0 BY <1>2, DrainLatches
  <2> QED BY <1>2, <2>1, DrainLatches DEF Bridge, Newest
<1>3. CASE UNCHANGED <<accepted, inbound, latched>> /\ configured' \in BOOLEAN
  BY <1>3 DEF Bridge, Newest
<1>4. Poll \/ WaitPolls => Drain /\ UNCHANGED <<configured, accepted>>
  BY DEF Poll, WaitPolls
<1>5. Service => UNCHANGED <<accepted, inbound, latched>> /\ configured' \in BOOLEAN
  BY DEF Service, ConfigureTx, StartTx, StopTx, StopJoin, bridgeVars, Bridge
<1>6. Fire \/ WaitEnds \/ Wake \/ LoopEnds \/ Tick \/ ToggleInterface
           \/ UNCHANGED vars
        => UNCHANGED <<accepted, inbound, latched>> /\ configured' \in BOOLEAN
  BY DEF Fire, WaitEnds, Wake, LoopEnds, Tick, ToggleInterface, vars,
     bridgeVars, Bridge
<1>7. latched \in Nat BY DEF Bridge
<1> QED BY <1>1, <1>2, <1>3, <1>4, <1>5, <1>6, <1>7 DEF Next, Scheduler

LEMMA HandshakeStep ==
    ASSUME Handshake, [Next]_vars
    PROVE  Handshake'
<1> USE DEF Handshake, Alive, ThreadStates
<1>1. CASE Service
  <2>1. CASE ConfigureTx BY <2>1 DEF ConfigureTx, schedulerVars
  <2>2. CASE StartTx BY <2>2 DEF StartTx
  <2>3. CASE StopTx BY <2>3 DEF StopTx
  <2>4. CASE StopJoin BY <2>4 DEF StopJoin, schedulerVars
  <2> QED BY <1>1, <2>1, <2>2, <2>3, <2>4 DEF Service
<1>2. CASE Scheduler
  BY <1>2 DEF Scheduler, Poll, Fire, WaitEnds, WaitPolls, Wake, LoopEnds,
     serviceVars
<1>3. CASE ToggleInterface \/ Tick \/ (\E value \in BOOLEAN : Push(value))
           \/ UNCHANGED vars
  BY <1>3 DEF ToggleInterface, Tick, Push, vars, serviceVars
<1> QED BY <1>1, <1>2, <1>3 DEF Next

LEMMA NumbersStep ==
    ASSUME Bridge, Numbers, [Next]_vars
    PROVE  Numbers'
<1>1. Bridge' /\ latched' >= latched /\ latched \in Nat /\ latched' \in Nat
  BY BridgeStep DEF Bridge
<1>2. CASE Poll
  <2>1. CASE Changed(latched', cached)
    <3>1. cached' = latched' /\ latched' # cached /\ latched' # 0
      BY <1>2, <2>1 DEF Poll, Changed
    <3>2. stNum' = NextState(stNum, cached = 0) /\ sqNum' = 0
      BY <1>2, <2>1 DEF Poll
    <3>3. latched' > cached BY <1>1, <3>1 DEF Numbers
    <3> QED BY <1>1, <3>1, <3>2, <3>3 DEF Numbers, NextState
  <2>2. CASE ~Changed(latched', cached)
    <3>1. UNCHANGED <<cached, stNum>> /\ (thread' = "fire" => cached # 0)
      BY <1>2, <2>2 DEF Poll
    <3>2. sqNum' \in {sqNum, SatInc(sqNum, MaxSq)}
      BY <1>2, <2>2 DEF Poll
    <3> QED BY <1>1, <3>1, <3>2 DEF Numbers, SatInc
  <2> QED BY <2>1, <2>2
<1>3. CASE StartTx
  BY <1>1, <1>3 DEF StartTx, Numbers
<1>4. CASE ~Poll /\ ~StartTx
  <2>1. UNCHANGED <<cached, stNum, sqNum>> /\ (thread' = "fire" => thread = "fire")
    BY <1>4 DEF Next, Service, Scheduler, ConfigureTx, StopTx, StopJoin, Fire,
       WaitEnds, WaitPolls, Wake, LoopEnds, Tick, ToggleInterface, Push,
       schedulerVars, ramp, vars
  <2> QED BY <1>1, <2>1 DEF Numbers
<1> QED BY <1>2, <1>3, <1>4

LEMMA RampedBounds ==
    ASSUME NEW ms \in FirstRetx .. Longest
    PROVE  Ramped(ms) \in FirstRetx .. Longest /\ Ramped(ms) <= 2 * ms
BY DEF Ramped, Longest

LEMMA TimersStep ==
    ASSUME Bridge, Numbers, Timers, [Next]_vars
    PROVE  Timers'
<1> DEFINE Clocks == [waited : 0 .. MaxAge, slept : 0 .. Jitter + 1,
                      age : 0 .. MaxAge, lag : 0 .. MaxAge]
<1> USE DEF Alive
<1>1. /\ MaxAge \in Nat /\ MaxAge = 2 * Longest + Jitter + 2
      /\ Longest \in Nat /\ FirstRetx <= Longest /\ Heartbeat <= Longest
  BY LongestBounds
<1>2. CASE Poll
  <2>1. /\ clock' = [clock EXCEPT !.waited = 0, !.lag = Behind(cached')]
        /\ UNCHANGED tal
    BY <1>2 DEF Poll
  <2>2. Behind(cached') = 0
    <3>1. Drain BY <1>2 DEF Poll
    <3>2. latched' = Newest BY <3>1, DrainLatches
    <3> QED BY <1>2, <3>2 DEF Poll, Behind, Changed
  <2>3. /\ clock.age <= tal + Jitter /\ clock.age <= Longest + Jitter
    BY <1>1, <1>2 DEF Poll, Timers
  <2>4. /\ clock' \in Clocks
        /\ clock'.waited = 0 /\ clock'.lag = 0 /\ clock'.age = clock.age
    <3>1. clock' = [clock EXCEPT !.waited = 0, !.lag = 0] BY <2>1, <2>2
    <3>2. clock \in Clocks /\ 0 \in 0 .. MaxAge BY <1>1 DEF Timers
    <3>3. clock' \in Clocks BY <3>1, <3>2
    <3>4. clock'.waited = 0 /\ clock'.lag = 0 /\ clock'.age = clock.age
      BY <3>1, <3>2
    <3> QED BY <3>3, <3>4
  <2>5. /\ nextInterval' \in FirstRetx .. Longest /\ waitMs' \in 0 .. Longest
        /\ thread' \in {"fire", "wait"}
        /\ thread' = "wait" => cached' = 0
        /\ cached' = 0 => cached = 0
    BY <1>1, <1>2 DEF Poll, Timers, Changed
  <2> QED BY <2>1, <2>3, <2>4, <2>5 DEF Timers
<1>3. CASE Fire
  <2>1. /\ nextInterval' \in FirstRetx .. Longest
        /\ nextInterval' <= 2 * nextInterval
    BY <1>3, RampedBounds DEF Fire, Timers
  <2>2. /\ clock' \in Clocks
        /\ clock'.waited = 0 /\ clock'.lag = clock.lag /\ clock'.age = 0
    BY <1>1, <1>3 DEF Fire, Timers
  <2>3. /\ thread' = "wait" /\ waitMs' = nextInterval'
        /\ tal' = 2 * nextInterval /\ UNCHANGED cached
    BY <1>3 DEF Fire
  <2> QED BY <1>1, <1>3, <2>1, <2>2, <2>3 DEF Timers, Fire
<1>4. CASE WaitPolls
  <2>1. /\ thread = "wait" /\ clock.waited < waitMs
        /\ clock' = [clock EXCEPT !.slept = 0, !.lag = Behind(cached)]
        /\ thread' = IF WakesFor(latched') THEN "top" ELSE "sleep"
        /\ UNCHANGED <<cached, nextInterval, waitMs, tal>>
    BY <1>4 DEF WaitPolls, ramp
  <2>2. latched' = Newest BY <1>4, DrainLatches DEF WaitPolls
  <2>3. /\ Behind(cached) \in {0, clock.lag}
        /\ thread' = "sleep" => Behind(cached) = 0
    BY <2>1, <2>2 DEF Behind, WakesFor
  <2>4. /\ clock' \in Clocks
        /\ clock'.waited = clock.waited /\ clock'.age = clock.age
        /\ clock'.lag = Behind(cached) /\ clock'.slept = 0
    <3>1. clock \in Clocks /\ 0 \in 0 .. Jitter + 1
          /\ Behind(cached) \in 0 .. MaxAge
      BY <1>1, <2>3 DEF Timers
    <3>2. clock' \in Clocks BY <2>1, <3>1
    <3>3. /\ clock'.waited = clock.waited /\ clock'.age = clock.age
          /\ clock'.lag = Behind(cached) /\ clock'.slept = 0
      BY <2>1, <3>1
    <3> QED BY <3>2, <3>3
  <2> QED BY <2>1, <2>3, <2>4 DEF Timers
<1>5. CASE Tick /\ Alive
  <2>1. /\ thread = "sleep" /\ clock.slept <= Jitter
        /\ UNCHANGED <<thread, cached, nextInterval, waitMs, tal>>
    BY <1>5 DEF Tick, ramp
  <2>2. /\ clock'.waited = SatInc(clock.waited, MaxAge)
        /\ clock'.slept = clock.slept + 1
        /\ clock'.age = IF cached = 0 THEN 0 ELSE SatInc(clock.age, MaxAge)
        /\ clock'.lag \in {SatInc(clock.lag, MaxAge), 0}
        /\ clock' \in Clocks
    BY <1>1, <1>5, <2>1 DEF Tick, Timers, SatInc
  <2> QED BY <1>1, <2>1, <2>2 DEF Timers, SatInc
<1>6. CASE StartTx
  <2>1. clock' \in Clocks
    BY <1>1, <1>6 DEF StartTx
  <2> QED BY <1>1, <1>6, <2>1 DEF StartTx, Timers
<1>7. CASE WaitEnds \/ Wake \/ LoopEnds
  BY <1>7 DEF WaitEnds, Wake, LoopEnds, ramp, Timers
<1>8. CASE ConfigureTx \/ StopTx \/ StopJoin \/ ToggleInterface
           \/ (\E value \in BOOLEAN : Push(value)) \/ (Tick /\ ~Alive)
           \/ UNCHANGED vars
  <2>1. UNCHANGED <<thread, cached, nextInterval, waitMs, tal, clock>>
    BY <1>8 DEF ConfigureTx, StopTx, StopJoin, ToggleInterface, Push, Tick,
       schedulerVars, ramp, vars
  <2> QED BY <2>1 DEF Timers
<1> QED BY <1>2, <1>3, <1>4, <1>5, <1>6, <1>7, <1>8 DEF Next, Service, Scheduler

LEMMA OnAirStep ==
    ASSUME Bridge, Numbers, OnAir, [Next]_vars
    PROVE  OnAir'
<1>1. Numbers' BY NumbersStep
<1>2. Bridge' /\ latched' >= latched /\ latched \in Nat /\ latched' \in Nat
  BY BridgeStep DEF Bridge
<1>3. CASE StartTx BY <1>3 DEF StartTx, OnAir
<1>4. CASE Poll
  <2>1. CASE Changed(latched', cached)
    \* A new number for a value newer than all that was shown.
    <3>1. wire' = wire /\ cached' = latched' /\ latched' # cached
      BY <1>4, <2>1 DEF Poll, Changed
    <3>2. cached' > cached BY <1>2, <3>1 DEF Numbers
    <3>3. cached # 0 => stNum' = stNum + 1
      BY <1>4, <2>1 DEF Poll, NextState
    <3> QED BY <1>1, <3>1, <3>2, <3>3 DEF OnAir, Numbers
  <2>2. CASE ~Changed(latched', cached)
    <3>1. UNCHANGED <<wire, cached, stNum>> BY <1>4, <2>2 DEF Poll
    <3>2. cached # 0 => sqNum' = SatInc(sqNum, MaxSq)
      BY <1>4, <2>2 DEF Poll
    <3> QED BY <1>1, <3>1, <3>2 DEF OnAir, Numbers, SatInc
  <2> QED BY <2>1, <2>2
<1>5. CASE Fire
  <2>1. UNCHANGED <<cached, stNum, sqNum>> /\ thread' = "wait" /\ cached # 0
    BY <1>5 DEF Fire, Numbers
  <2>2. CASE ifaceOpen
    <3>1. wire' = [n |-> cached, st |-> stNum, sq |-> sqNum]
      BY <1>5, <2>2 DEF Fire
    <3> QED BY <2>1, <3>1 DEF OnAir, Numbers
  <2>3. CASE ~ifaceOpen
    <3>1. wire' = wire BY <1>5, <2>3 DEF Fire
    <3> QED BY <2>1, <3>1 DEF OnAir
  <2> QED BY <2>2, <2>3
<1>6. CASE ~StartTx /\ ~Poll /\ ~Fire
  <2>1. /\ UNCHANGED <<wire, cached, stNum, sqNum>>
        /\ thread' = "fire" => thread = "fire"
    BY <1>6 DEF Next, Service, Scheduler, ConfigureTx, StopTx, StopJoin,
       WaitEnds, WaitPolls, Wake, LoopEnds, Tick, ToggleInterface, Push,
       schedulerVars, ramp, vars
  <2> QED BY <2>1 DEF OnAir
<1> QED BY <1>3, <1>4, <1>5, <1>6

LEMMA CountsStep ==
    ASSUME Counts, [Next]_vars
    PROVE  Counts'
<1>1. CASE StartTx BY <1>1 DEF StartTx, Counts
<1>2. CASE ~StartTx
  <2>1. UNCHANGED runs /\ ifaceOpen' \in {ifaceOpen, ~ifaceOpen}
    BY <1>2 DEF Next, Service, Scheduler, ConfigureTx, StopTx, StopJoin, Poll,
       Fire, WaitEnds, WaitPolls, Wake, LoopEnds, Tick, ToggleInterface, Push,
       serviceVars, vars
  <2> QED BY <2>1 DEF Counts
<1> QED BY <1>1, <1>2

LEMMA IInvStep == IInv /\ [Next]_vars => IInv'
BY BridgeStep, HandshakeStep, NumbersStep, TimersStep, OnAirStep, CountsStep
   DEF IInv

LEMMA Invariant == Spec => []IInv
<1>1. Init => IInv BY IInvInit
<1>2. IInv /\ [Next]_vars => IInv' BY IInvStep
<1> QED BY <1>1, <1>2, PTL DEF Spec

-----------------------------------------------------------------------------
(* The variables keep their types; in particular nothing is written beyond *)
(* the ring (GooseTx.tla, SpscBridge::push()).                             *)
THEOREM TypeCorrect == Spec => []TypeOK
<1>1. IInv => TypeOK
  <2> SUFFICES ASSUME IInv PROVE TypeOK OBVIOUS
  <2>1. Len(accepted) \in 0 .. MaxPush /\ latched + Len(inbound) = Len(accepted)
        /\ latched \in 0 .. MaxPush
    BY DEF IInv, Bridge, Newest
  <2>2. inbound \in Seq(1 .. MaxPush)
    <3>1. inbound \in Seq(Nat) /\ Len(inbound) \in Nat BY DEF IInv, Bridge
    <3>2. ASSUME NEW i \in 1 .. Len(inbound) PROVE inbound[i] \in 1 .. MaxPush
      BY <2>1, <3>1 DEF IInv, Bridge
    <3> QED BY <3>1, <3>2
  <2>3. cached \in 0 .. MaxPush /\ stNum \in 0 .. MaxPush
    BY <2>1 DEF IInv, Numbers
  <2>4. wire \in [n : 0 .. MaxPush, st : 0 .. MaxPush, sq : 0 .. MaxSq]
    <3>1. CASE wire = Silent BY <3>1 DEF Silent
    <3>2. CASE wire # Silent BY <2>3, <3>2 DEF IInv, OnAir
    <3> QED BY <3>1, <3>2
  <2> HIDE DEF ThreadStates
  <2> QED BY <2>1, <2>2, <2>3, <2>4
     DEF IInv, Bridge, Handshake, Numbers, Timers, Counts, TypeOK
<1> QED BY <1>1, Invariant, PTL

(* Once sv_goose_stop_tx() or sv_goose_stop_all_tx() has returned no thread *)
(* is left that could send another frame of the stream.                     *)
THEOREM SilenceAfterStop == Spec => []StoppedMeansSilent
<1>1. IInv => StoppedMeansSilent
  BY DEF IInv, Handshake, StoppedMeansSilent
<1> QED BY <1>1, Invariant, PTL

(* A change goes out after at most one sleep, the gap between frames never *)
(* exceeds the longer of first interval and heartbeat and a frame is       *)
(* followed by the next within the time it allows, each up to the          *)
(* oversleeping of one sleep_for(), whatever intervals the user has set.   *)
THEOREM TimersKept == Spec => []InTime
<1>1. IInv => InTime
  <2> SUFFICES ASSUME IInv PROVE InTime OBVIOUS
  <2>1. PromptChange BY DEF IInv, Timers, PromptChange
  <2>2. ASSUME Alive, cached # 0
        PROVE  clock.age <= Longest + Jitter /\ clock.age <= tal + Jitter
    <3>1. clock.age \in Nat /\ clock.waited \in Nat /\ clock.slept \in 0 .. Jitter + 1
          /\ waitMs \in 0 .. Longest /\ tal \in Nat /\ Longest \in Nat
      BY LongestBounds DEF IInv, Timers
    <3>2. CASE thread = "fire" BY <3>2 DEF IInv, Timers
    <3>3. CASE thread \in {"wait", "top"} BY <2>2, <3>1, <3>3 DEF IInv, Timers
    <3>4. CASE thread = "sleep" BY <2>2, <3>1, <3>4 DEF IInv, Timers
    <3> QED BY <2>2, <3>2, <3>3, <3>4 DEF IInv, Handshake, ThreadStates, Alive
  <2> QED BY <2>1, <2>2 DEF InTime, GapKept, TimeAllowedKept
<1> QED BY <1>1, Invariant, PTL

-----------------------------------------------------------------------------
(* A stream is a broadcast: what the interface takes of it is a sampling of *)
(* the accepted values that never goes back, numbered and counted as        *)
(* StateBroadcast asks, whatever is lost on the way and however often the   *)
(* stream is stopped and started.                                           *)
THEOREM Refinement == Spec => BroadcastSpec
<1>1. Init => Broadcast!Init
  BY DEF Init, Broadcast!Init, Silent, Broadcast!Silent
<1>2. ASSUME IInv, [Next]_vars PROVE [Broadcast!Next]_<<accepted, wire>>
  <2>1. CASE StartTx
    BY <2>1 DEF StartTx, bridgeVars, Broadcast!Next, Broadcast!Restart, Silent,
       Broadcast!Silent
  <2>2. CASE \E value \in BOOLEAN : Push(value)
    BY <2>2 DEF Push, Broadcast!Next, Broadcast!HandOver
  <2>3. CASE Fire /\ ifaceOpen
    <3> DEFINE f == [n |-> cached, st |-> stNum, sq |-> sqNum]
    <3>1. wire' = f /\ UNCHANGED accepted BY <2>3 DEF Fire, bridgeVars
    <3>2. cached \in 1 .. Len(accepted) /\ stNum \in 1 .. MaxPush
          /\ sqNum \in 0 .. MaxSq
      BY SMTT(30), <1>2, <2>3 DEF IInv, Bridge, Numbers, Newest, Fire
    <3>3. f \in Broadcast!Frames(accepted) BY <3>2 DEF Broadcast!Frames
    <3>4. CASE wire = Silent
      BY <3>1, <3>2, <3>3, <3>4 DEF Silent, Broadcast!Next, Broadcast!Announce
    <3>5. CASE wire # Silent /\ wire.n < cached
      BY <1>2, <3>1, <3>2, <3>3, <3>5 DEF IInv, OnAir, Broadcast!Next, Broadcast!Announce
    <3>6. CASE wire # Silent /\ wire.n = cached
      BY <1>2, <2>3, <3>1, <3>2, <3>3, <3>6 DEF IInv, OnAir, Fire, Broadcast!Next,
         Broadcast!Repeat, Silent, Broadcast!Silent
    <3> QED BY <1>2, <3>2, <3>4, <3>5, <3>6 DEF IInv, OnAir
  <2>4. CASE ~StartTx /\ ~(\E value \in BOOLEAN : Push(value))
             /\ ~(Fire /\ ifaceOpen)
    BY <1>2, <2>4 DEF Next, Service, Scheduler, ConfigureTx, StopTx, StopJoin,
       Poll, Fire, WaitEnds, WaitPolls, Wake, LoopEnds, Tick, ToggleInterface,
       bridgeVars, schedulerVars, vars
  <2> QED BY <2>1, <2>2, <2>3, <2>4
<1> QED BY <1>1, <1>2, Invariant, PTL DEF Spec, BroadcastSpec, Broadcast!Spec
=============================================================================
