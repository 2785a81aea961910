-------------------------- MODULE LiveIngest_proofs --------------------------
(***************************************************************************)
(* The memory safety of the value funnel, for any number of submitters and *)
(* values and any capacity.  The queue is safe if the submitters rest      *)
(* while the host shuts the funnel down, the live store if publishers are  *)
(* removed only while no worker runs.                                      *)
(***************************************************************************)
EXTENDS LiveIngest, SequenceTheorems, TLAPS

\* What the arguments need to know of the types.
Types ==
    /\ inits \in Nat /\ gen \in Nat
    /\ pc \in [Submitters -> {"idle", "checked", "claimed"}]
    /\ claimed \in [Submitters -> Nat]

\* The host, the flag and the worker go hand in hand.
Handshake ==
    /\ ingestRunning => gen # 0
    /\ host \in {"idle", "spawn", "join", "delete"}
    /\ host = "spawn" => ingestRunning /\ worker = "none"
    /\ host = "join" => ~ingestRunning /\ gen # 0
    /\ host = "delete" => ~ingestRunning /\ worker = "none"
    /\ (host = "idle" /\ ~ingestRunning) => worker = "none"

\* A submitter in a call keeps the flag up, and its slot is in the queue that
\* g_ingestQueue points to.
Inside ==
    \A s \in Submitters :
        /\ pc[s] # "idle" => ingestRunning
        /\ pc[s] = "claimed" => claimed[s] = gen

QueueInv == Types /\ Handshake /\ Inside /\ QueueMemorySafe

\* The pointer the worker is about to use is that of the living publisher.
StoreInv ==
    /\ Handshake
    /\ gen \in Nat /\ inits \in Nat
    /\ worker = "set" => (ptr = pub /\ pub # 0)
    /\ StoreMemorySafe

\* The handshake is kept by every step, whatever the submitters do.
LEMMA HandshakeKept ==
    ASSUME Handshake, inits \in Nat, gen \in Nat, Next
    PROVE  Handshake' /\ (inits \in Nat)' /\ (gen \in Nat)'
<1> USE DEF Handshake
<1>1. CASE AddPublisher BY <1>1 DEF AddPublisher, hostVars, workerVars
<1>2. CASE RemovePublishers BY <1>2 DEF RemovePublishers, hostVars, workerVars
<1>3. CASE InitBegin BY <1>3 DEF InitBegin
<1>4. CASE InitSpawn BY <1>4 DEF InitSpawn
<1>5. CASE ShutdownBegin BY <1>5 DEF ShutdownBegin, workerVars
<1>6. CASE ShutdownJoin BY <1>6 DEF ShutdownJoin
<1>7. CASE ShutdownDelete BY <1>7 DEF ShutdownDelete
<1>8. CASE Worker
  <2>1. worker \in {"check", "pop", "release", "route", "set"}
    BY <1>8 DEF Worker, WorkerChecks, WorkerTakes, WorkerReleases,
       WorkerFindsNothing, WorkerForwards, WorkerLooksUp, WorkerSets
  <2>2. UNCHANGED <<ingestRunning, gen, hostVars>>
    BY <1>8 DEF Worker, WorkerChecks, WorkerTakes, WorkerReleases,
       WorkerFindsNothing, WorkerForwards, WorkerLooksUp, WorkerSets, hostVars
  <2> QED BY <2>1, <2>2 DEF hostVars
<1>9. CASE \E s \in Submitters : Submit(s)
  <2>1. UNCHANGED <<ingestRunning, gen, hostVars, worker>>
    BY <1>9 DEF Submit, SubmitChecks, SubmitClaims, SubmitFills, workerVars,
       hostVars
  <2> QED BY <2>1 DEF hostVars
<1> QED BY <1>1, <1>2, <1>3, <1>4, <1>5, <1>6, <1>7, <1>8, <1>9 DEF Next, Host

-----------------------------------------------------------------------------
LEMMA QueueInvInit == Init => QueueInv
BY DEF Init, QueueInv, Types, Handshake, Inside, QueueMemorySafe

LEMMA QueueInvStep ==
    ASSUME Quiesce, QueueInv, [Next]_vars
    PROVE  QueueInv'
<1>1. CASE UNCHANGED vars
  BY <1>1 DEF vars, hostVars, storeVars, workerVars, submitVars, QueueInv,
     Types, Handshake, Inside, QueueMemorySafe
<1>2. CASE Next
  <2>1. Handshake' /\ (inits \in Nat)' /\ (gen \in Nat)'
    BY <1>2, HandshakeKept DEF QueueInv, Types
  <2>2. CASE Host
    <3>1. UNCHANGED <<pc, claimed, stray>>
      BY <2>2 DEF Host, AddPublisher, RemovePublishers, InitBegin, InitSpawn,
         ShutdownBegin, ShutdownJoin, ShutdownDelete, submitVars
    <3>2. Inside'
      <4>1. CASE AddPublisher \/ RemovePublishers \/ InitSpawn \/ ShutdownJoin
        <5>1. UNCHANGED <<ingestRunning, gen>>
          BY <4>1 DEF AddPublisher, RemovePublishers, InitSpawn, ShutdownJoin
        <5> QED BY <3>1, <5>1 DEF QueueInv, Inside
      <4>2. CASE InitBegin
        \* The flag was down: nobody is in a call.
        BY <3>1, <4>2 DEF InitBegin, QueueInv, Types, Inside
      <4>3. CASE ShutdownBegin
        \* The submitters rest.
        BY <3>1, <4>3 DEF ShutdownBegin, QueueInv, Types, Inside
      <4>4. CASE ShutdownDelete
        BY <3>1, <4>4 DEF ShutdownDelete, QueueInv, Types, Handshake, Inside
      <4> QED BY <2>2, <4>1, <4>2, <4>3, <4>4 DEF Host
    <3> QED BY <2>1, <3>1, <3>2 DEF QueueInv, Types, QueueMemorySafe
  <2>3. CASE Worker
    <3>1. UNCHANGED <<ingestRunning, gen, pc, claimed>>
      BY <2>3 DEF Worker, WorkerChecks, WorkerTakes, WorkerReleases,
         WorkerFindsNothing, WorkerForwards, WorkerLooksUp, WorkerSets,
         submitVars
    <3>2. gen # 0
      <4>1. worker # "none"
        BY <2>3 DEF Worker, WorkerChecks, WorkerTakes, WorkerReleases,
           WorkerFindsNothing, WorkerForwards, WorkerLooksUp, WorkerSets
      <4> QED BY <4>1 DEF QueueInv, Handshake
    <3>3. stray' \in {stray, stray \union {"store"}}
      BY <2>3, <3>2 DEF Worker, WorkerChecks, WorkerTakes, WorkerReleases,
         WorkerFindsNothing, WorkerForwards, WorkerLooksUp, WorkerSets,
         UseQueue
    <3> QED BY <2>1, <3>1, <3>3 DEF QueueInv, Types, Inside, QueueMemorySafe
  <2>4. CASE \E s \in Submitters : Submit(s)
    <3>1. PICK s \in Submitters : Submit(s) BY <2>4
    <3>2. UNCHANGED <<ingestRunning, gen>>
      BY <3>1 DEF Submit, SubmitChecks, SubmitClaims, SubmitFills
    <3>3. ingestRunning /\ gen # 0
      BY <3>1 DEF Submit, SubmitChecks, SubmitClaims, SubmitFills, QueueInv,
         Handshake, Inside
    <3>4. stray' = stray
      BY <3>1, <3>3 DEF Submit, SubmitChecks, SubmitClaims, SubmitFills,
         UseQueue, QueueInv, Inside
    <3>5. Types' /\ Inside'
      <4>1. CASE SubmitChecks(s)
        BY <2>1, <3>2, <3>3, <4>1 DEF SubmitChecks, QueueInv, Types, Inside
      <4>2. CASE \E id \in Targets(s) : SubmitClaims(s, id)
        <5>1. \/ pc' = [pc EXCEPT ![s] = "idle"] /\ claimed' = claimed
              \/ /\ pc' = [pc EXCEPT ![s] = "claimed"]
                 /\ claimed' = [claimed EXCEPT ![s] = gen]
          BY <4>2 DEF SubmitClaims
        <5> QED BY <2>1, <3>2, <3>3, <5>1 DEF QueueInv, Types, Inside
      <4>3. CASE SubmitFills(s)
        BY <2>1, <3>2, <3>3, <4>3 DEF SubmitFills, QueueInv, Types, Inside
      <4> QED BY <3>1, <4>1, <4>2, <4>3 DEF Submit
    <3> QED BY <2>1, <3>4, <3>5 DEF QueueInv, QueueMemorySafe
  <2> QED BY <1>2, <2>2, <2>3, <2>4 DEF Next
<1> QED BY <1>1, <1>2

(* If the host's submitters rest while it shuts the funnel down, no thread  *)
(* ever uses a queue that shutdown() has deleted.                           *)
THEOREM QueueSafety ==
    ASSUME Quiesce
    PROVE  Spec => []QueueMemorySafe
<1>1. Init => QueueInv BY QueueInvInit
<1>2. QueueInv /\ [Next]_vars => QueueInv' BY QueueInvStep
<1>3. QueueInv => QueueMemorySafe BY DEF QueueInv
<1> QED BY <1>1, <1>2, <1>3, PTL DEF Spec

-----------------------------------------------------------------------------
LEMMA StoreInvInit == Init => StoreInv
BY DEF Init, StoreInv, Handshake, StoreMemorySafe

LEMMA StoreInvStep ==
    ASSUME TeardownInOrder, StoreInv, [Next]_vars
    PROVE  StoreInv'
<1>1. CASE UNCHANGED vars
  BY <1>1 DEF vars, hostVars, storeVars, workerVars, submitVars, StoreInv,
     Handshake, StoreMemorySafe
<1>2. CASE Next
  <2>1. Handshake' /\ (inits \in Nat)' /\ (gen \in Nat)'
    BY <1>2, HandshakeKept DEF StoreInv
  <2>2. CASE Host
    <3>1. stray' = stray
      BY <2>2 DEF Host, AddPublisher, RemovePublishers, InitBegin, InitSpawn,
         ShutdownBegin, ShutdownJoin, ShutdownDelete
    <3>2. (worker = "set" => (ptr = pub /\ pub # 0))'
      <4>1. CASE AddPublisher
        BY <4>1 DEF AddPublisher, workerVars, StoreInv
      <4>2. CASE RemovePublishers
        \* No worker runs.
        BY <4>2 DEF RemovePublishers, workerVars, StoreInv, Handshake
      <4>3. CASE InitBegin BY <4>3 DEF InitBegin, storeVars, StoreInv
      <4>4. CASE InitSpawn BY <4>4 DEF InitSpawn
      <4>5. CASE ShutdownBegin
        BY <4>5 DEF ShutdownBegin, workerVars, storeVars, StoreInv
      <4>6. CASE ShutdownJoin BY <4>6 DEF ShutdownJoin
      <4>7. CASE ShutdownDelete
        BY <4>7 DEF ShutdownDelete, storeVars, StoreInv
      <4> QED BY <2>2, <4>1, <4>2, <4>3, <4>4, <4>5, <4>6, <4>7 DEF Host
    <3> QED BY <2>1, <3>1, <3>2 DEF StoreInv, StoreMemorySafe
  <2>3. CASE Worker
    <3>1. pub' = pub
      BY <2>3 DEF Worker, WorkerChecks, WorkerTakes, WorkerReleases,
         WorkerFindsNothing, WorkerForwards, WorkerLooksUp, WorkerSets,
         storeVars
    <3>2. stray' \in {stray, stray \union {"queue"}}
      BY <2>3 DEF Worker, WorkerChecks, WorkerTakes, WorkerReleases,
         WorkerFindsNothing, WorkerForwards, WorkerLooksUp, WorkerSets,
         UseQueue, StoreInv
    <3>3. worker' = "set" => (ptr' = pub /\ pub # 0)
      BY <2>3 DEF Worker, WorkerChecks, WorkerTakes, WorkerReleases,
         WorkerFindsNothing, WorkerForwards, WorkerLooksUp, WorkerSets,
         Onward, Lookup
    <3> QED BY <2>1, <3>1, <3>2, <3>3 DEF StoreInv, StoreMemorySafe
  <2>4. CASE \E s \in Submitters : Submit(s)
    <3>1. UNCHANGED <<worker, ptr, pub>>
      BY <2>4 DEF Submit, SubmitChecks, SubmitClaims, SubmitFills, workerVars,
         storeVars
    <3>2. stray' \in {stray, stray \union {"queue"}}
      BY <2>4 DEF Submit, SubmitChecks, SubmitClaims, SubmitFills, UseQueue
    <3> QED BY <2>1, <3>1, <3>2 DEF StoreInv, StoreMemorySafe
  <2> QED BY <1>2, <2>2, <2>3, <2>4 DEF Next
<1> QED BY <1>1, <1>2

(* If publishers are removed only while no worker runs, the worker never    *)
(* writes a value into a publisher that is gone, whatever ids the           *)
(* submitters give and whether or not they rest.                            *)
THEOREM StoreSafety ==
    ASSUME TeardownInOrder
    PROVE  Spec => []StoreMemorySafe
<1>1. Init => StoreInv BY StoreInvInit
<1>2. StoreInv /\ [Next]_vars => StoreInv' BY StoreInvStep
<1>3. StoreInv => StoreMemorySafe BY DEF StoreInv
<1> QED BY <1>1, <1>2, <1>3, PTL DEF Spec

(* A host that keeps to both rules never lets a thread use memory that is   *)
(* gone, through the queue or through a publisher.                          *)
THEOREM FunnelSafety ==
    ASSUME Quiesce, TeardownInOrder
    PROVE  Spec => []MemorySafe
<1>1. Init => QueueInv /\ StoreInv BY QueueInvInit, StoreInvInit
<1>2. QueueInv /\ StoreInv /\ [Next]_vars => (QueueInv /\ StoreInv)'
  BY QueueInvStep, StoreInvStep
<1>3. QueueInv /\ StoreInv => MemorySafe
  BY DEF QueueInv, StoreInv, MemorySafe
<1> QED BY <1>1, <1>2, <1>3, PTL DEF Spec

-----------------------------------------------------------------------------
(* What is accepted is routed, in order.  The argument counts no slots: the *)
(* values of a submitter grow along hand, queue and accepted sequence, and  *)
(* the values accepted and not yet routed are those in the worker's hand or *)
(* in a filled slot; the one in its hand is then the first of them.         *)
Holding == worker \in {"release", "route", "set"}

Drained ==
    /\ (worker # "none" /\ draining) => host = "join"
    /\ worker = "done" => draining
    /\ (worker = "done" \/ host = "delete" \/ (host = "idle" /\ ~ingestRunning))
         => queue = <<>>
    /\ \A s \in Submitters : host \in {"join", "delete"} => pc[s] = "idle"
    /\ held = IF worker = "release" THEN 1 ELSE 0
    /\ Holding => hand \in Messages

\* A submitter has at most one slot that is not filled, its newest.
Slots ==
    /\ \A i \in 1 .. Len(queue) : ~queue[i].ready =>
         pc[queue[i].from] = "claimed" /\ queue[i].n = tried[queue[i].from]
    /\ \A s \in Submitters : pc[s] = "claimed" =>
         \E i \in 1 .. Len(queue) : queue[i].from = s /\ ~queue[i].ready
    /\ \A i, j \in 1 .. Len(queue) :
         (i < j /\ queue[i].from = queue[j].from) => queue[i].n < queue[j].n
    /\ Holding => \A i \in 1 .. Len(queue) :
         queue[i].from = hand.from => hand.n < queue[i].n

Increasing ==
    \A s \in Submitters :
      /\ pc[s] # "idle" => tried[s] # 0
      /\ \A k \in 1 .. Len(accepted[s]) :
           /\ accepted[s][k] <= tried[s]
           /\ pc[s] # "idle" => accepted[s][k] < tried[s]
      /\ \A k, l \in 1 .. Len(accepted[s]) :
           k < l => accepted[s][k] < accepted[s][l]

InHand(s, n) == Holding /\ hand.from = s /\ hand.n = n
InQueue(s, n) ==
    \E i \in 1 .. Len(queue) :
        queue[i].from = s /\ queue[i].ready /\ queue[i].n = n
Pending(s) == Len(routed[s]) + 1 .. Len(accepted[s])

Accounted(s) ==
    /\ Len(routed[s]) <= Len(accepted[s])
    /\ \A k \in 1 .. Len(routed[s]) : routed[s][k] = accepted[s][k]
    /\ \A k \in Pending(s) :
         InHand(s, accepted[s][k]) \/ InQueue(s, accepted[s][k])
    /\ \A n \in 1 .. MaxValue :
         InHand(s, n) \/ InQueue(s, n) =>
            \E k \in Pending(s) : accepted[s][k] = n

FunnelInv ==
    /\ TypeOK /\ QueueInv /\ Drained /\ Slots /\ Increasing
    /\ \A s \in Submitters : Accounted(s)

\* try_pop() takes the slot at the front.
LEMMA WithoutFirst ==
    ASSUME NEW S, NEW q \in Seq(S), q # <<>>
    PROVE  /\ Without(q, 1) \in Seq(S)
           /\ Len(Without(q, 1)) = Len(q) - 1
           /\ \A i \in 1 .. Len(q) - 1 : Without(q, 1)[i] = q[i + 1]
<1>1. Len(q) \in Nat /\ Len(q) >= 1 OBVIOUS
<1>2. SubSeq(q, 1, 1 - 1) = <<>> BY SubSeqEmpty
<1> DEFINE t == SubSeq(q, 1 + 1, Len(q))
<1>3. t \in Seq(S) /\ Len(t) = Len(q) - 1
      /\ \A i \in 1 .. Len(q) - 1 : t[i] = q[i + 1]
  <2>1. \A i \in 2 .. Len(q) : q[i] \in S BY <1>1
  <2> HIDE DEF t
  <2>2. t = SubSeq(q, 2, Len(q)) BY DEF t
  <2>3. /\ t \in Seq(S) /\ Len(t) = IF 2 <= Len(q) THEN Len(q) - 2 + 1 ELSE 0
        /\ \A i \in 1 .. Len(q) - 2 + 1 : t[i] = q[2 + i - 1]
    BY <1>1, <2>1, <2>2, SubSeqProperties
  <2>4. Len(t) = Len(q) - 1
    <3>1. CASE Len(q) = 1 BY <2>3, <3>1
    <3>2. CASE Len(q) >= 2 BY <1>1, <2>3, <3>2
    <3>3. Len(q) = 1 \/ Len(q) >= 2
      <4>1. \A m \in Nat : m >= 1 => m = 1 \/ m >= 2 OBVIOUS
      <4>2. Len(q) \in Nat /\ Len(q) >= 1 BY <1>1
      <4> QED BY <4>1, <4>2
    <3> QED BY <3>1, <3>2, <3>3
  <2>5. ASSUME NEW i \in 1 .. Len(q) - 1 PROVE t[i] = q[i + 1]
    <3>1. i \in 1 .. Len(q) - 2 + 1 /\ 2 + i - 1 = i + 1 BY <1>1
    <3> QED BY <2>3, <3>1
  <2> QED BY <2>3, <2>4, <2>5
<1>4. Without(q, 1) = <<>> \o t BY <1>2 DEF Without
<1> HIDE DEF t
<1>5. <<>> \o t = t BY <1>3, ConcatEmptySeq
<1> QED BY <1>3, <1>4, <1>5

LEMMA FilledSlots ==
    ASSUME NEW q \in Seq(Messages), NEW s \in Submitters
    PROVE  /\ Filled(q, s) \in Seq(Messages) /\ Len(Filled(q, s)) = Len(q)
           /\ \A i \in 1 .. Len(q) :
                /\ Filled(q, s)[i].from = q[i].from
                /\ Filled(q, s)[i].n = q[i].n
                /\ Filled(q, s)[i].ready <=> q[i].ready \/ q[i].from = s
<1>1. DOMAIN q = 1 .. Len(q) /\ Len(q) \in Nat OBVIOUS
<1>2. ASSUME NEW i \in 1 .. Len(q)
      PROVE  /\ Filled(q, s)[i] \in Messages
             /\ Filled(q, s)[i].from = q[i].from
             /\ Filled(q, s)[i].n = q[i].n
             /\ Filled(q, s)[i].ready <=> q[i].ready \/ q[i].from = s
  <2>1. q[i] \in Messages OBVIOUS
  <2>2. Filled(q, s)[i] = IF q[i].from = s THEN [q[i] EXCEPT !.ready = TRUE]
                          ELSE q[i]
    BY <1>1 DEF Filled
  <2>3. CASE q[i].from = s
    BY <2>1, <2>2, <2>3 DEF Messages
  <2>4. CASE q[i].from # s
    BY <2>1, <2>2, <2>4 DEF Messages
  <2> QED BY <2>3, <2>4
<1>3. Filled(q, s) \in Seq(Messages) /\ Len(Filled(q, s)) = Len(q)
  BY <1>1, <1>2 DEF Filled
<1> QED BY <1>2, <1>3

LEMMA FunnelInvInit == Init => FunnelInv
<1> SUFFICES ASSUME Init PROVE FunnelInv OBVIOUS
<1>1. TypeOK
  <2>1. /\ queue \in Seq(Messages) /\ Len(queue) = 0
        /\ <<>> \in Seq(1 .. MaxValue)
    BY DEF Init
  <2>2. live \in [Magnitudes -> 0 .. MaxValue]
    BY IngestAssumption DEF Init
  <2>3. /\ tried \in [Submitters -> 0 .. MaxValue]
        /\ claimed \in [Submitters -> 0 .. MaxInits]
        /\ pc \in [Submitters -> {"idle", "checked", "claimed"}]
    BY IngestAssumption DEF Init
  <2>4. /\ accepted \in [Submitters -> Seq(1 .. MaxValue)]
        /\ routed \in [Submitters -> Seq(1 .. MaxValue)]
    BY <2>1 DEF Init
  <2>5. queue \in Seq(Messages) /\ Len(queue) + held <= Capacity
    BY <2>1, IngestAssumption DEF Init
  <2>6. worker \in WorkerStates BY DEF Init, WorkerStates
  <2>7. /\ gen \in 0 .. MaxInits /\ inits \in 0 .. MaxInits /\ held \in 0 .. 1
        /\ ptr \in 0 .. MaxPubs /\ pub \in 0 .. MaxPubs /\ lastPub \in 0 .. MaxPubs
    BY IngestAssumption DEF Init
  <2> QED BY <2>2, <2>3, <2>4, <2>5, <2>6, <2>7 DEF Init, TypeOK
<1>2. queue = <<>> /\ Len(queue) = 0 /\ ~Holding BY DEF Init, Holding
<1>3. Drained BY <1>2 DEF Init, Drained, Holding
<1>4. Slots BY <1>2 DEF Init, Slots, Holding
<1>5. ASSUME NEW s \in Submitters
      PROVE  /\ pc[s] = "idle" /\ Len(accepted[s]) = 0 /\ Len(routed[s]) = 0
  BY DEF Init
<1>6. Increasing BY <1>5 DEF Increasing
<1>7. ASSUME NEW s \in Submitters PROVE Accounted(s)
  <2>1. \A n : ~InHand(s, n) /\ ~InQueue(s, n)
    BY <1>2 DEF InHand, InQueue
  <2> QED BY <1>5, <2>1 DEF Accounted, Pending
<1> QED BY <1>1, <1>3, <1>4, <1>6, <1>7, QueueInvInit DEF FunnelInv

LEMMA TypeStep ==
    ASSUME TypeOK, Drained, Increasing, Next
    PROVE  TypeOK'
<1> USE IngestAssumption
<1>1. CASE AddPublisher
  BY <1>1 DEF AddPublisher, hostVars, workerVars, submitVars, TypeOK
<1>2. CASE RemovePublishers
  BY <1>2 DEF RemovePublishers, hostVars, workerVars, submitVars, TypeOK
<1>3. CASE InitBegin
  <2>1. queue' \in Seq(Messages) /\ Len(queue') = 0 BY <1>3 DEF InitBegin
  <2> QED BY <1>3, <2>1 DEF InitBegin, storeVars, submitVars, TypeOK
<1>4. CASE InitSpawn
  BY <1>4 DEF InitSpawn, storeVars, submitVars, TypeOK, WorkerStates
<1>5. CASE ShutdownBegin
  BY <1>5 DEF ShutdownBegin, storeVars, workerVars, submitVars, TypeOK
<1>6. CASE ShutdownJoin
  BY <1>6 DEF ShutdownJoin, storeVars, submitVars, TypeOK, WorkerStates
<1>7. CASE ShutdownDelete
  <2>1. queue' \in Seq(Messages) /\ Len(queue') = 0 BY <1>7 DEF ShutdownDelete
  <2> QED BY <1>7, <2>1 DEF ShutdownDelete, storeVars, submitVars, TypeOK
<1>8. stray' \in {stray, stray \union {"queue"}, stray \union {"store"}}
  BY DEF Next, Host, AddPublisher, RemovePublishers, InitBegin, InitSpawn,
     ShutdownBegin, ShutdownJoin, ShutdownDelete, Worker, WorkerChecks,
     WorkerTakes, WorkerReleases, WorkerFindsNothing, WorkerForwards,
     WorkerLooksUp, WorkerSets, Submit, SubmitChecks, SubmitClaims,
     SubmitFills, UseQueue
<1>9. stray' \subseteq {"queue", "store"} BY <1>8 DEF TypeOK
<1>10. CASE WorkerChecks
  BY <1>9, <1>10 DEF WorkerChecks, hostVars, storeVars, submitVars, TypeOK,
     WorkerStates
<1>11. CASE WorkerTakes
  <2>1. queue # <<>> /\ held = 0
    BY <1>11 DEF WorkerTakes, MayTake, Available, Drained
  <2>2. queue' \in Seq(Messages) /\ Len(queue') = Len(queue) - 1
    BY <1>11, <2>1, WithoutFirst DEF WorkerTakes, Taken, TypeOK
  <2>3. hand' \in Messages
    BY <1>11, <2>1 DEF WorkerTakes, Taken, TypeOK
  <2>4. Len(queue) \in Nat BY DEF TypeOK
  <2> QED BY <1>9, <1>11, <2>1, <2>2, <2>3, <2>4
     DEF WorkerTakes, hostVars, storeVars, submitVars, TypeOK, WorkerStates
<1>12. CASE WorkerReleases
  <2>1. held = 1 /\ Len(queue) \in Nat
    BY <1>12 DEF WorkerReleases, Drained, TypeOK
  <2> QED BY <1>9, <1>12, <2>1 DEF WorkerReleases, hostVars, storeVars,
     submitVars, TypeOK, WorkerStates
<1>13. CASE WorkerFindsNothing
  BY <1>9, <1>13 DEF WorkerFindsNothing, hostVars, storeVars, submitVars,
     TypeOK, WorkerStates
<1>14. ASSUME Holding, Routed
       PROVE  routed' \in [Submitters -> Seq(1 .. MaxValue)]
  <2>1. hand \in Messages BY <1>14 DEF Drained
  <2>2. hand.from \in Submitters /\ hand.n \in 1 .. MaxValue
    BY <2>1 DEF Messages
  <2> QED BY <1>14, <2>2 DEF Routed, TypeOK
<1>15. Onward => worker' \in WorkerStates BY DEF Onward, WorkerStates
<1>16. CASE WorkerForwards
  BY <1>9, <1>14, <1>15, <1>16 DEF WorkerForwards, Holding, hostVars,
     storeVars, submitVars, TypeOK
<1>17. CASE WorkerLooksUp
  <2>1. ptr' \in 0 .. MaxPubs
    BY <1>17 DEF WorkerLooksUp, Lookup, TypeOK
  <2>2. worker' \in WorkerStates
    BY <1>15, <1>17 DEF WorkerLooksUp, WorkerStates
  <2>3. routed' \in [Submitters -> Seq(1 .. MaxValue)]
    BY <1>14, <1>17 DEF WorkerLooksUp, Holding, TypeOK
  <2> QED BY <1>9, <1>17, <2>1, <2>2, <2>3 DEF WorkerLooksUp, hostVars,
     storeVars, submitVars, TypeOK
<1>18. CASE WorkerSets
  <2>1. hand.n \in 1 .. MaxValue BY <1>18 DEF WorkerSets, Holding, Drained, Messages
  <2>2. live' \in [Magnitudes -> 0 .. MaxValue]
    <3>1. \/ live' = live
          \/ live' = [live EXCEPT ![hand.from] = hand.n]
      BY <1>18 DEF WorkerSets
    <3>2. live \in [Magnitudes -> 0 .. MaxValue] /\ hand.n \in 0 .. MaxValue
      BY <2>1 DEF TypeOK
    <3> QED BY <3>1, <3>2
  <2>3. routed' \in [Submitters -> Seq(1 .. MaxValue)]
    BY <1>14, <1>18 DEF WorkerSets, Holding
  <2> QED BY <1>9, <1>15, <1>18, <2>2, <2>3 DEF WorkerSets, hostVars,
     submitVars, TypeOK
<1>19. ASSUME NEW s \in Submitters, SubmitChecks(s) PROVE TypeOK'
  <2>1. tried[s] + 1 \in 0 .. MaxValue BY <1>19 DEF SubmitChecks, TypeOK
  <2>2. tried' \in [Submitters -> 0 .. MaxValue]
    BY <1>19, <2>1 DEF SubmitChecks, TypeOK
  <2> QED BY <1>9, <1>19, <2>2 DEF SubmitChecks, hostVars, workerVars,
     storeVars, TypeOK
<1>20. ASSUME NEW s \in Submitters, NEW id \in Targets(s), SubmitClaims(s, id)
       PROVE  TypeOK'
  <2>1. id \in 0 .. MaxPubs BY DEF Targets, TypeOK
  <2>2. tried[s] \in 1 .. MaxValue BY <1>20 DEF SubmitClaims, TypeOK, Increasing
  <2>3. CASE gen = 0 \/ Full
    BY <1>9, <1>20, <2>3 DEF SubmitClaims, hostVars, workerVars, storeVars,
       TypeOK
  <2>4. CASE ~(gen = 0 \/ Full)
    <3> DEFINE m == [from |-> s, n |-> tried[s], id |-> id, ready |-> FALSE]
    <3>1. m \in Messages BY <2>1, <2>2 DEF Messages
    <3>2. queue' = Append(queue, m) BY <1>20, <2>4 DEF SubmitClaims
    <3> HIDE DEF m
    <3>3. queue' \in Seq(Messages) /\ Len(queue') = Len(queue) + 1
      BY <3>1, <3>2, AppendProperties DEF TypeOK
    <3>4. Len(queue') + held <= Capacity
      BY <2>4, <3>3 DEF Full, TypeOK
    <3>5. claimed' \in [Submitters -> 0 .. MaxInits]
      BY <1>20, <2>4 DEF SubmitClaims, TypeOK
    <3>6. pc' \in [Submitters -> {"idle", "checked", "claimed"}]
      BY ZenonT(30), <1>20, <2>4 DEF SubmitClaims, TypeOK
    <3> QED BY <1>9, <1>20, <3>3, <3>4, <3>5, <3>6 DEF SubmitClaims, hostVars,
       workerVars, storeVars, TypeOK
  <2> QED BY <2>3, <2>4
<1>21. ASSUME NEW s \in Submitters, SubmitFills(s) PROVE TypeOK'
  <2>1. tried[s] \in 1 .. MaxValue BY <1>21 DEF SubmitFills, TypeOK, Increasing
  <2>2. accepted' \in [Submitters -> Seq(1 .. MaxValue)]
    BY <1>21, <2>1 DEF SubmitFills, TypeOK
  <2>3. queue' \in Seq(Messages) /\ Len(queue') = Len(queue)
    BY <1>21, FilledSlots DEF SubmitFills, TypeOK
  <2>4. pc' \in [Submitters -> {"idle", "checked", "claimed"}]
    BY <1>21 DEF SubmitFills, TypeOK
  <2> QED BY <1>9, <1>21, <2>2, <2>3, <2>4 DEF SubmitFills, hostVars,
     workerVars, storeVars, TypeOK
<1> QED BY <1>1, <1>2, <1>3, <1>4, <1>5, <1>6, <1>7, <1>10, <1>11, <1>12,
   <1>13, <1>16, <1>17, <1>18, <1>19, <1>20, <1>21
   DEF Next, Host, Worker, Submit

LEMMA DrainedStep ==
    ASSUME Quiesce, TypeOK, TypeOK', QueueInv, QueueInv', Drained, Slots, Next
    PROVE  Drained'
<1> USE DEF Drained, Holding
<1>1. CASE Host
  <2>1. UNCHANGED <<pc, hand>>
    BY <1>1 DEF Host, AddPublisher, RemovePublishers, InitBegin, InitSpawn,
       ShutdownBegin, ShutdownJoin, ShutdownDelete, workerVars, submitVars
  <2>2. CASE AddPublisher BY <2>1, <2>2 DEF AddPublisher, hostVars, workerVars
  <2>3. CASE RemovePublishers
    BY <2>1, <2>3 DEF RemovePublishers, hostVars, workerVars
  <2>4. CASE InitBegin BY <2>1, <2>4 DEF InitBegin, QueueInv, Handshake
  <2>5. CASE InitSpawn BY <2>1, <2>5 DEF InitSpawn, QueueInv, Handshake
  <2>6. CASE ShutdownBegin
    BY <2>1, <2>6 DEF ShutdownBegin, workerVars
  <2>7. CASE ShutdownJoin BY <2>1, <2>7 DEF ShutdownJoin
  <2>8. CASE ShutdownDelete
    BY <2>1, <2>8 DEF ShutdownDelete, QueueInv, Handshake
  <2> QED BY <1>1, <2>2, <2>3, <2>4, <2>5, <2>6, <2>7, <2>8 DEF Host
<1>2. CASE Worker
  <2>1. /\ UNCHANGED <<ingestRunning, host, pc>>
        /\ worker # "none" /\ worker # "done"
    BY <1>2 DEF Worker, WorkerChecks, WorkerTakes, WorkerReleases,
       WorkerFindsNothing, WorkerForwards, WorkerLooksUp, WorkerSets, hostVars,
       submitVars
  <2>2. host = "join" \/ ingestRunning
    BY <2>1 DEF QueueInv, Handshake
  <2>3. host # "delete" BY <2>1 DEF QueueInv, Handshake
  <2>4. host = "join" => ~ingestRunning BY DEF QueueInv, Handshake
  <2>5. CASE WorkerChecks
    <3>1. /\ UNCHANGED <<queue, hand, held>> /\ worker' = "pop" /\ held = 0
          /\ draining' = ~ingestRunning
      BY <2>5 DEF WorkerChecks
    <3>2. draining' => host = "join" BY <2>2, <3>1
    <3> QED BY <2>1, <2>2, <2>3, <2>4, <3>1, <3>2
  <2>6. CASE WorkerTakes
    <3>1. hand' \in Messages
      BY <2>6 DEF WorkerTakes, MayTake, Available, Taken, TypeOK
    <3> QED BY <2>1, <2>2, <2>3, <2>4, <2>6, <3>1 DEF WorkerTakes
  <2>7. CASE WorkerReleases
    BY <2>1, <2>2, <2>3, <2>4, <2>7 DEF WorkerReleases
  <2>8. CASE WorkerFindsNothing
    <3>1. draining => queue = <<>>
      \* The front slot is filled: nobody is in a call any more.
      <4>1. SUFFICES ASSUME draining, queue # <<>> PROVE FALSE OBVIOUS
      <4>2. ~queue[1].ready
        BY <2>8, <4>1 DEF WorkerFindsNothing, MayTake, Available
      <4>3. 1 \in 1 .. Len(queue) /\ queue[1] \in Messages
        BY SMTT(30), <4>1 DEF TypeOK
      <4>4. queue[1].from \in Submitters /\ pc[queue[1].from] = "claimed"
        BY <4>2, <4>3 DEF Slots, Messages
      <4> QED BY <2>1, <4>1, <4>4
    <3> QED BY <2>1, <2>2, <2>3, <2>4, <2>8, <3>1 DEF WorkerFindsNothing
  <2>9. CASE WorkerForwards \/ WorkerLooksUp \/ WorkerSets
    <3>1. /\ UNCHANGED <<queue, held, hand, draining>> /\ held = 0
          /\ worker' \in {"pop", "check", "set"}
      BY <2>9 DEF WorkerForwards, WorkerLooksUp, WorkerSets, Onward
    <3> QED BY <2>1, <2>2, <2>3, <2>4, <2>9, <3>1 DEF WorkerForwards,
       WorkerLooksUp, WorkerSets
  <2> QED BY <1>2, <2>5, <2>6, <2>7, <2>8, <2>9 DEF Worker
<1>3. ASSUME NEW s \in Submitters, Submit(s) PROVE Drained'
  <2>1. UNCHANGED <<ingestRunning, host, worker, draining, hand, held>>
    BY <1>3 DEF Submit, SubmitChecks, SubmitClaims, SubmitFills, hostVars,
       workerVars
  <2>2. host \notin {"join", "delete"}
    BY <1>3 DEF Submit, SubmitChecks, SubmitClaims, SubmitFills, Resting
  <2>3. ingestRunning
    BY <1>3 DEF Submit, SubmitChecks, SubmitClaims, SubmitFills, QueueInv,
       Inside
  <2>4. worker # "done" BY <2>2
  <2> QED BY <2>1, <2>2, <2>3, <2>4
<1> QED BY <1>1, <1>2, <1>3 DEF Next

\* The part of the invariant that relates values.
Values == Slots /\ Increasing /\ \A s \in Submitters : Accounted(s)

LEMMA Unmoved ==
    ASSUME Values, Holding' = Holding,
           UNCHANGED <<queue, hand, pc, tried, accepted, routed>>
    PROVE  Values'
<1>1. Slots' /\ Increasing' BY DEF Values, Slots, Increasing
<1>2. ASSUME NEW s \in Submitters PROVE Accounted(s)'
  BY DEF Values, Accounted, Pending, InHand, InQueue
<1> QED BY <1>1, <1>2 DEF Values

LEMMA TakesStep ==
    ASSUME TypeOK, Values, WorkerTakes
    PROVE  Values'
<1>1. /\ ~Holding /\ Holding' /\ queue # <<>> /\ queue[1].ready
      /\ hand' = queue[1] /\ queue' = Without(queue, 1)
      /\ UNCHANGED <<pc, tried, accepted, routed>>
  BY DEF WorkerTakes, MayTake, Available, Taken, Holding, submitVars
<1>2. /\ Len(queue) \in Nat /\ Len(queue) >= 1
      /\ Len(queue') = Len(queue) - 1
      /\ \A i \in 1 .. Len(queue') : queue'[i] = queue[i + 1]
  <2>1. queue \in Seq(Messages) BY DEF TypeOK
  <2>2. Len(queue) \in Nat /\ Len(queue) >= 1 BY <1>1, <2>1
  <2>3. /\ Len(queue') = Len(queue) - 1
        /\ \A i \in 1 .. Len(queue) - 1 : queue'[i] = queue[i + 1]
    BY <1>1, <2>1, WithoutFirst
  <2> QED BY <2>2, <2>3
<1>3. \A i \in 1 .. Len(queue') : i + 1 \in 1 .. Len(queue) /\ 1 < i + 1
  BY <1>2
<1>4. ASSUME NEW i \in 1 .. Len(queue)
      PROVE  i = 1 \/ \E j \in 1 .. Len(queue') : i = j + 1 /\ queue'[j] = queue[i]
  <2>1. CASE i # 1
    <3>1. i - 1 \in 1 .. Len(queue') /\ i = (i - 1) + 1 BY <1>2, <2>1
    <3> QED BY <1>2, <3>1
  <2> QED BY <2>1
<1>5. Increasing' BY <1>1 DEF Values, Increasing
<1>6. Slots'
  <2>1. ASSUME NEW i \in 1 .. Len(queue'), ~queue'[i].ready
        PROVE  pc'[queue'[i].from] = "claimed"
               /\ queue'[i].n = tried'[queue'[i].from]
    BY <1>1, <1>2, <1>3, <2>1 DEF Values, Slots
  <2>2. ASSUME NEW s \in Submitters, pc'[s] = "claimed"
        PROVE  \E i \in 1 .. Len(queue') : queue'[i].from = s /\ ~queue'[i].ready
    <3>1. PICK i \in 1 .. Len(queue) : queue[i].from = s /\ ~queue[i].ready
      BY <1>1, <2>2 DEF Values, Slots
    <3>2. i # 1 BY <1>1, <3>1
    <3> QED BY <1>4, <3>1, <3>2
  <2>3. ASSUME NEW i \in 1 .. Len(queue'), NEW j \in 1 .. Len(queue'),
               i < j, queue'[i].from = queue'[j].from
        PROVE  queue'[i].n < queue'[j].n
    <3>1. i + 1 < j + 1 BY <1>2, <2>3
    <3> QED BY <1>2, <1>3, <2>3, <3>1 DEF Values, Slots
  <2>4. ASSUME NEW i \in 1 .. Len(queue'), queue'[i].from = hand'.from
        PROVE  hand'.n < queue'[i].n
    <3>1. 1 \in 1 .. Len(queue) BY <1>2
    <3> QED BY <1>1, <1>2, <1>3, <2>4, <3>1 DEF Values, Slots
  <2> QED BY <2>1, <2>2, <2>3, <2>4 DEF Slots
<1>7. ASSUME NEW s \in Submitters PROVE Accounted(s)'
  <2>1. \A n : InQueue(s, n) <=> InHand(s, n)' \/ InQueue(s, n)'
    <3>1. ASSUME NEW n, InQueue(s, n) PROVE InHand(s, n)' \/ InQueue(s, n)'
      <4>1. PICK i \in 1 .. Len(queue) :
              queue[i].from = s /\ queue[i].ready /\ queue[i].n = n
        BY <3>1 DEF InQueue
      <4>2. CASE i = 1 BY <1>1, <4>1, <4>2 DEF InHand
      <4>3. CASE i # 1 BY <1>4, <4>1, <4>3 DEF InQueue
      <4> QED BY <4>2, <4>3
    <3>2. ASSUME NEW n, InHand(s, n)' PROVE InQueue(s, n)
      <4>1. 1 \in 1 .. Len(queue) BY <1>2
      <4> QED BY <1>1, <3>2, <4>1 DEF InHand, InQueue
    <3>3. ASSUME NEW n, InQueue(s, n)' PROVE InQueue(s, n)
      BY <1>2, <1>3, <3>3 DEF InQueue
    <3> QED BY <3>1, <3>2, <3>3
  <2>2. \A n : ~InHand(s, n) BY <1>1 DEF InHand
  <2> QED BY <1>1, <2>1, <2>2 DEF Values, Accounted, Pending
<1> QED BY <1>5, <1>6, <1>7 DEF Values

\* The value in the worker's hand is the first that is accepted and not yet
\* routed.
LEMMA HandIsNext ==
    ASSUME TypeOK, Values, Drained, Holding
    PROVE  /\ hand.from \in Submitters /\ hand.n \in 1 .. MaxValue
           /\ Len(routed[hand.from]) + 1 \in Pending(hand.from)
           /\ hand.n = accepted[hand.from][Len(routed[hand.from]) + 1]
<1> DEFINE s == hand.from
           m == Len(routed[s]) + 1
<1>1. hand.from \in Submitters /\ hand.n \in 1 .. MaxValue
  BY DEF Drained, Messages
<1>2. /\ accepted[s] \in Seq(1 .. MaxValue) /\ routed[s] \in Seq(1 .. MaxValue)
      /\ Len(accepted[s]) \in Nat /\ Len(routed[s]) \in Nat
  BY <1>1 DEF TypeOK
<1>3. PICK k \in Pending(s) : accepted[s][k] = hand.n
  BY <1>1 DEF Values, Accounted, InHand
<1>4. k \in Nat /\ m <= k /\ k <= Len(accepted[s]) BY <1>2, <1>3 DEF Pending
<1>5. m \in Pending(s) /\ m \in 1 .. Len(accepted[s]) /\ k \in 1 .. Len(accepted[s])
  BY <1>2, <1>4 DEF Pending
<1>6. CASE m < k
  <2>1. accepted[s][m] < hand.n
    BY <1>1, <1>3, <1>5, <1>6 DEF Values, Increasing
  <2>2. accepted[s][m] \in Nat /\ hand.n \in Nat
    <3>1. accepted[s][m] \in 1 .. MaxValue BY <1>2, <1>5, ElementOfSeq
    <3> QED BY <1>1, <3>1, IngestAssumption
  <2>3. InHand(s, accepted[s][m]) \/ InQueue(s, accepted[s][m])
    BY <1>1, <1>5 DEF Values, Accounted
  <2>4. CASE InHand(s, accepted[s][m]) BY <2>1, <2>2, <2>4 DEF InHand
  <2>5. CASE InQueue(s, accepted[s][m])
    <3>1. PICK i \in 1 .. Len(queue) :
            queue[i].from = s /\ queue[i].n = accepted[s][m]
      BY <2>5 DEF InQueue
    <3>2. hand.n < queue[i].n BY <3>1 DEF Values, Slots
    <3> QED BY <2>1, <2>2, <3>1, <3>2
  <2> QED BY <2>3, <2>4, <2>5
<1>7. CASE m = k BY <1>1, <1>3, <1>5, <1>7
<1> QED BY <1>1, <1>2, <1>4, <1>6, <1>7

LEMMA RoutesStep ==
    ASSUME TypeOK, Drained, Values, Holding, Routed, ~Holding',
           UNCHANGED <<queue, pc, tried, accepted>>
    PROVE  Values'
<1>0. PICK s \in Submitters : s = hand.from BY HandIsNext
<1> DEFINE m == Len(routed[s]) + 1
<1>1. /\ s = hand.from /\ s \in Submitters /\ hand.n \in 1 .. MaxValue
      /\ m \in Pending(s) /\ hand.n = accepted[s][m]
  BY <1>0, HandIsNext
<1>2. /\ \A t \in Submitters : Len(accepted[t]) \in Nat /\ Len(routed[t]) \in Nat
      /\ routed[s] \in Seq(1 .. MaxValue)
  BY SMTT(30), <1>1 DEF TypeOK
<1>3. Slots' /\ Increasing' BY DEF Values, Slots, Increasing
<1>4. \A n, t : ~InHand(t, n)' /\ (InQueue(t, n)' <=> InQueue(t, n))
  BY DEF InHand, InQueue
<1>5. ASSUME NEW t \in Submitters, t # s PROVE Accounted(t)'
  <2>1. routed'[t] = routed[t] BY <1>1, <1>5 DEF Routed, TypeOK
  <2>2. \A n : ~InHand(t, n) BY <1>1, <1>5 DEF InHand
  <2> QED BY <1>4, <2>1, <2>2 DEF Values, Accounted, Pending
<1>6. Accounted(s)'
  <2>1. routed'[s] = Append(routed[s], hand.n) BY <1>1 DEF Routed, TypeOK
  <2>2. /\ Len(routed'[s]) = m /\ routed'[s][m] = hand.n
        /\ \A k \in 1 .. Len(routed[s]) : routed'[s][k] = routed[s][k]
    BY <1>1, <1>2, <2>1, AppendProperties
  <2>3. m \in Nat /\ m \in 1 .. Len(accepted[s]) /\ m <= Len(accepted[s])
    BY <1>1, <1>2 DEF Pending
  <2>4. ASSUME NEW k \in 1 .. m PROVE routed'[s][k] = accepted'[s][k]
    <3>1. k = m \/ k \in 1 .. Len(routed[s]) BY <1>1, <1>2
    <3> QED BY <1>1, <2>2, <3>1 DEF Values, Accounted
  <2>5. ASSUME NEW k \in m + 1 .. Len(accepted[s])
        PROVE  InQueue(s, accepted[s][k])
    <3>1. k \in Pending(s) /\ k \in 1 .. Len(accepted[s]) /\ m < k
      BY <1>1, <1>2, <2>3 DEF Pending
    <3>2. accepted[s][m] < accepted[s][k]
      BY <1>1, <2>3, <3>1 DEF Values, Increasing
    <3>3. accepted[s][k] # hand.n BY <1>1, <3>2
    <3> QED BY <1>1, <3>1, <3>3 DEF Values, Accounted, InHand
  <2>6. ASSUME NEW n \in 1 .. MaxValue, InQueue(s, n)
        PROVE  \E k \in m + 1 .. Len(accepted[s]) : accepted[s][k] = n
    <3>1. PICK k \in Pending(s) : accepted[s][k] = n
      BY <1>1, <2>6 DEF Values, Accounted
    <3>2. hand.n < n BY <1>1, <2>6 DEF Values, Slots, InQueue
    <3>3. k # m BY <1>1, <3>1, <3>2
    <3>4. k \in m + 1 .. Len(accepted[s]) BY <1>1, <1>2, <3>3 DEF Pending
    <3> QED BY <3>1, <3>4
  <2> QED BY <1>4, <2>2, <2>3, <2>4, <2>5, <2>6 DEF Accounted, Pending
<1> QED BY <1>3, <1>5, <1>6 DEF Values

LEMMA ChecksStep ==
    ASSUME TypeOK, Values, NEW s \in Submitters, SubmitChecks(s)
    PROVE  Values'
<1>1. /\ pc[s] = "idle" /\ pc' = [pc EXCEPT ![s] = "checked"]
      /\ tried' = [tried EXCEPT ![s] = @ + 1]
      /\ UNCHANGED <<queue, hand, worker, accepted, routed>>
  BY DEF SubmitChecks, workerVars
<1>2. /\ pc'[s] = "checked" /\ tried'[s] = tried[s] + 1 /\ tried[s] \in Nat
      /\ \A t \in Submitters \ {s} : pc'[t] = pc[t] /\ tried'[t] = tried[t]
  BY <1>1, IngestAssumption DEF TypeOK
<1>3. ASSUME NEW i \in 1 .. Len(queue) PROVE queue[i].from \in Submitters
  <2>1. queue[i] \in Messages BY DEF TypeOK
  <2> QED BY <2>1 DEF Messages
<1>4. Slots'
  <2>1. ASSUME NEW i \in 1 .. Len(queue), ~queue[i].ready
        PROVE  pc'[queue[i].from] = "claimed"
               /\ queue[i].n = tried'[queue[i].from]
    <3>1. queue[i].from # s BY <1>1, <2>1 DEF Values, Slots
    <3> QED BY <1>2, <1>3, <2>1, <3>1 DEF Values, Slots
  <2>2. ASSUME NEW t \in Submitters, pc'[t] = "claimed" PROVE pc[t] = "claimed"
    BY <1>2, <2>2
  <2> QED BY <1>1, <2>1, <2>2 DEF Values, Slots, Holding
<1>5. Increasing'
  <2>1. ASSUME NEW t \in Submitters
        PROVE  /\ pc'[t] # "idle" => tried'[t] # 0
               /\ \A k \in 1 .. Len(accepted[t]) :
                    /\ accepted[t][k] <= tried'[t]
                    /\ pc'[t] # "idle" => accepted[t][k] < tried'[t]
    <3>1. CASE t # s BY <1>2, <3>1 DEF Values, Increasing
    <3>2. CASE t = s
      <4>1. ASSUME NEW k \in 1 .. Len(accepted[s])
            PROVE  accepted[s][k] < tried[s] + 1 /\ accepted[s][k] <= tried[s] + 1
        <5>1. accepted[s][k] \in 1 .. MaxValue BY ElementOfSeq DEF TypeOK
        <5>2. accepted[s][k] \in Nat BY <5>1
        <5>3. accepted[s][k] <= tried[s] BY DEF Values, Increasing
        <5> QED BY <1>2, <5>2, <5>3
      <4> QED BY <1>2, <3>2, <4>1
    <3> QED BY <3>1, <3>2
  <2> QED BY <1>1, <2>1 DEF Values, Increasing
<1>6. ASSUME NEW t \in Submitters PROVE Accounted(t)'
  BY <1>1 DEF Values, Accounted, Pending, InHand, InQueue, Holding
<1> QED BY <1>4, <1>5, <1>6 DEF Values

LEMMA ClaimsStep ==
    ASSUME TypeOK, Drained, Values, NEW s \in Submitters,
           NEW id \in Targets(s), SubmitClaims(s, id)
    PROVE  Values'
<1>1. /\ pc[s] = "checked" /\ tried[s] \in Nat
      /\ UNCHANGED <<hand, worker, tried, accepted, routed>>
  BY IngestAssumption DEF SubmitClaims, workerVars, TypeOK
<1>2. ASSUME NEW i \in 1 .. Len(queue)
      PROVE  queue[i].from \in Submitters /\ queue[i].n \in 1 .. MaxValue
  <2>1. queue[i] \in Messages BY DEF TypeOK
  <2> QED BY <2>1 DEF Messages
<1>3. CASE gen = 0 \/ Full
  <2>1. pc' = [pc EXCEPT ![s] = "idle"] /\ UNCHANGED queue
    BY <1>3 DEF SubmitClaims
  <2>2. /\ pc'[s] = "idle" /\ \A t \in Submitters \ {s} : pc'[t] = pc[t]
    BY <2>1 DEF TypeOK
  <2>3. Increasing' BY <1>1, <2>2 DEF Values, Increasing
  <2>4. Slots'
    <3>1. \A t \in Submitters : pc'[t] = "claimed" <=> pc[t] = "claimed"
      BY <1>1, <2>2
    <3> QED BY <1>1, <1>2, <2>1, <3>1 DEF Values, Slots, Holding
  <2>5. ASSUME NEW t \in Submitters PROVE Accounted(t)'
    BY SMTT(30), <1>1, <2>1
    DEF Values, Accounted, Pending, InHand, InQueue, Holding
  <2> QED BY <2>3, <2>4, <2>5 DEF Values
<1>4. CASE ~(gen = 0 \/ Full)
  <2> DEFINE m == [from |-> s, n |-> tried[s], id |-> id, ready |-> FALSE]
  <2>1. pc' = [pc EXCEPT ![s] = "claimed"] /\ queue' = Append(queue, m)
    BY <1>4 DEF SubmitClaims
  <2>2. m.from = s /\ m.n = tried[s] /\ ~m.ready OBVIOUS
  <2> HIDE DEF m
  <2>3. pc'[s] = "claimed" /\ \A t \in Submitters \ {s} : pc'[t] = pc[t]
    BY <2>1 DEF TypeOK
  <2> DEFINE last == Len(queue) + 1
  <2>4. /\ Len(queue) \in Nat /\ Len(queue') = last /\ queue'[last] = m
        /\ \A i \in 1 .. Len(queue) : queue'[i] = queue[i]
    BY <2>1 DEF TypeOK
  <2>5. ASSUME NEW i \in 1 .. last PROVE i = last \/ i \in 1 .. Len(queue)
    BY <2>4
  <2>6. Increasing'
    BY <1>1, <2>3 DEF Values, Increasing
  <2>7. ASSUME NEW n \in 1 .. MaxValue, InHand(s, n) \/ InQueue(s, n)
        PROVE  n < tried[s]
    <3>1. PICK k \in Pending(s) : accepted[s][k] = n
      BY <2>7 DEF Values, Accounted
    <3>2. k \in 1 .. Len(accepted[s])
      <4>1. Len(accepted[s]) \in Nat /\ Len(routed[s]) \in Nat BY DEF TypeOK
      <4> QED BY <4>1 DEF Pending
    <3> QED BY <1>1, <3>1, <3>2 DEF Values, Increasing
  <2>8. ASSUME NEW i \in 1 .. Len(queue), queue[i].from = s
        PROVE  queue[i].n < tried[s]
    <3>1. queue[i].ready BY <1>1, <2>8 DEF Values, Slots
    <3> QED BY <1>2, <2>7, <2>8, <3>1 DEF InQueue
  <2>9. Slots'
    <3>1. ASSUME NEW i \in 1 .. last, ~queue'[i].ready
          PROVE  pc'[queue'[i].from] = "claimed"
                 /\ queue'[i].n = tried[queue'[i].from]
      <4>1. CASE i = last BY <2>2, <2>3, <2>4, <4>1
      <4>2. CASE i \in 1 .. Len(queue)
        BY <1>1, <1>2, <2>3, <2>4, <3>1, <4>2 DEF Values, Slots
      <4> QED BY <2>5, <4>1, <4>2
    <3>2. ASSUME NEW t \in Submitters, pc'[t] = "claimed"
          PROVE  \E i \in 1 .. last : queue'[i].from = t /\ ~queue'[i].ready
      <4>1. CASE t = s
        <5>1. last \in 1 .. last BY <2>4
        <5> QED BY <2>2, <2>4, <4>1, <5>1
      <4>2. CASE t # s
        <5>1. PICK i \in 1 .. Len(queue) : queue[i].from = t /\ ~queue[i].ready
          BY <2>3, <3>2, <4>2 DEF Values, Slots
        <5>2. i \in 1 .. last BY <2>4
        <5> QED BY <2>4, <5>1, <5>2
      <4> QED BY <4>1, <4>2
    <3>3. ASSUME NEW i \in 1 .. last, NEW j \in 1 .. last,
                 i < j, queue'[i].from = queue'[j].from
          PROVE  queue'[i].n < queue'[j].n
      <4>1. i \in 1 .. Len(queue) BY <2>4, <3>3
      <4>2. CASE j = last BY <2>2, <2>4, <2>8, <3>3, <4>1, <4>2
      <4>3. CASE j \in 1 .. Len(queue)
        BY <2>4, <3>3, <4>1, <4>3 DEF Values, Slots
      <4> QED BY <2>5, <4>2, <4>3
    <3>4. ASSUME Holding, NEW i \in 1 .. last, queue'[i].from = hand.from
          PROVE  hand.n < queue'[i].n
      <4>1. CASE i = last
        <5>1. hand.from = s BY <2>2, <2>4, <3>4, <4>1
        <5>2. hand.n \in 1 .. MaxValue BY <3>4 DEF Drained, Messages
        <5>3. InHand(s, hand.n) BY <3>4, <5>1 DEF InHand
        <5> QED BY <2>2, <2>4, <2>7, <4>1, <5>2, <5>3
      <4>2. CASE i \in 1 .. Len(queue)
        BY <2>4, <3>4, <4>2 DEF Values, Slots
      <4> QED BY <2>5, <4>1, <4>2
    <3> QED BY <1>1, <2>4, <3>1, <3>2, <3>3, <3>4 DEF Slots, Holding
  <2>10. ASSUME NEW t, NEW n
         PROVE  (InQueue(t, n)' <=> InQueue(t, n)) /\ (InHand(t, n)' <=> InHand(t, n))
    <3>1. ASSUME InQueue(t, n)' PROVE InQueue(t, n)
      <4>1. PICK i \in 1 .. last :
              queue'[i].from = t /\ queue'[i].ready /\ queue'[i].n = n
        BY <2>4, <3>1 DEF InQueue
      <4>2. i \in 1 .. Len(queue) BY <2>2, <2>4, <2>5, <4>1
      <4> QED BY <2>4, <4>1, <4>2 DEF InQueue
    <3>2. ASSUME InQueue(t, n) PROVE InQueue(t, n)'
      <4>1. PICK i \in 1 .. Len(queue) :
              queue[i].from = t /\ queue[i].ready /\ queue[i].n = n
        BY <3>2 DEF InQueue
      <4>2. i \in 1 .. last BY <2>4
      <4> QED BY <2>4, <4>1, <4>2 DEF InQueue
    <3> QED BY <1>1, <3>1, <3>2 DEF InHand, Holding
  <2>11. ASSUME NEW t \in Submitters PROVE Accounted(t)'
    BY <1>1, <2>10 DEF Values, Accounted, Pending
  <2> QED BY SMTT(30), <2>6, <2>9, <2>11 DEF Values
<1> QED BY <1>3, <1>4

LEMMA FillsStep ==
    ASSUME TypeOK, QueueInv, Values, NEW s \in Submitters, SubmitFills(s)
    PROVE  Values'
<1>1. /\ pc[s] = "claimed" /\ pc' = [pc EXCEPT ![s] = "idle"]
      /\ queue' = Filled(queue, s)
      /\ accepted' = [accepted EXCEPT ![s] = Append(@, tried[s])]
      /\ UNCHANGED <<hand, worker, tried, routed>>
  BY DEF SubmitFills, workerVars, QueueInv, Inside
<1>2. /\ pc'[s] = "idle" /\ \A t \in Submitters \ {s} : pc'[t] = pc[t]
      /\ accepted'[s] = Append(accepted[s], tried[s])
      /\ \A t \in Submitters \ {s} : accepted'[t] = accepted[t]
  BY <1>1 DEF TypeOK
<1>3. /\ Len(queue') = Len(queue)
      /\ \A i \in 1 .. Len(queue) :
           /\ queue'[i].from = queue[i].from /\ queue'[i].n = queue[i].n
           /\ queue'[i].ready <=> queue[i].ready \/ queue[i].from = s
  BY SMTT(30), <1>1, FilledSlots DEF TypeOK
<1>4. tried[s] \in 1 .. MaxValue
  BY <1>1 DEF TypeOK, Values, Increasing
<1> DEFINE last == Len(accepted[s]) + 1
<1>5. /\ Len(accepted[s]) \in Nat /\ Len(routed[s]) \in Nat
      /\ Len(accepted'[s]) = last /\ accepted'[s][last] = tried[s]
      /\ \A k \in 1 .. Len(accepted[s]) : accepted'[s][k] = accepted[s][k]
  <2>1. accepted[s] \in Seq(1 .. MaxValue) /\ routed[s] \in Seq(1 .. MaxValue)
    BY DEF TypeOK
  <2> QED BY <1>2, <1>4, <2>1, AppendProperties
<1>6. ASSUME NEW k \in 1 .. last PROVE k = last \/ k \in 1 .. Len(accepted[s])
  BY <1>5
<1>7. ASSUME NEW k \in 1 .. Len(accepted[s])
      PROVE  accepted[s][k] < tried[s] /\ accepted[s][k] \in Nat
  <2>1. accepted[s] \in Seq(1 .. MaxValue) BY DEF TypeOK
  <2>2. accepted[s][k] \in 1 .. MaxValue BY <2>1, ElementOfSeq
  <2> QED BY <1>1, <2>2 DEF Values, Increasing
<1>8. ASSUME NEW i \in 1 .. Len(queue) PROVE queue[i].from \in Submitters
  <2>1. queue[i] \in Messages BY DEF TypeOK
  <2> QED BY <2>1 DEF Messages
<1>9. Slots'
  <2>1. ASSUME NEW i \in 1 .. Len(queue'), ~queue'[i].ready
        PROVE  pc'[queue'[i].from] = "claimed"
               /\ queue'[i].n = tried[queue'[i].from]
    BY <1>2, <1>3, <1>8, <2>1 DEF Values, Slots
  <2>2. ASSUME NEW t \in Submitters, pc'[t] = "claimed"
        PROVE  \E i \in 1 .. Len(queue') :
                 queue'[i].from = t /\ ~queue'[i].ready
    <3>1. t # s /\ pc[t] = "claimed" BY <1>2, <2>2
    <3> QED BY <1>3, <3>1 DEF Values, Slots
  <2>3. ASSUME NEW i \in 1 .. Len(queue'), NEW j \in 1 .. Len(queue'),
               i < j, queue'[i].from = queue'[j].from
        PROVE  queue'[i].n < queue'[j].n
    BY <1>3, <2>3 DEF Values, Slots
  <2>4. ASSUME Holding, NEW i \in 1 .. Len(queue'), queue'[i].from = hand.from
        PROVE  hand.n < queue'[i].n
    BY <1>3, <2>4 DEF Values, Slots
  <2> QED BY <1>1, <2>1, <2>2, <2>3, <2>4 DEF Slots, Holding
<1>10. Increasing'
  <2>1. ASSUME NEW k \in 1 .. last PROVE accepted'[s][k] <= tried[s]
    BY SMTT(30), <1>4, <1>5, <1>6, <1>7
  <2>2. ASSUME NEW k \in 1 .. last, NEW l \in 1 .. last, k < l
        PROVE  accepted'[s][k] < accepted'[s][l]
    <3>1. k \in 1 .. Len(accepted[s]) BY <1>5, <2>2
    <3>2. CASE l = last BY <1>5, <1>7, <3>1, <3>2
    <3>3. CASE l \in 1 .. Len(accepted[s])
      BY <1>5, <2>2, <3>1, <3>3 DEF Values, Increasing
    <3> QED BY <1>6, <3>2, <3>3
  <2>3. ASSUME NEW t \in Submitters \ {s}
        PROVE  pc'[t] = pc[t] /\ accepted'[t] = accepted[t] /\ tried'[t] = tried[t]
    BY <1>1, <1>2
  <2> QED BY <1>1, <1>2, <1>5, <2>1, <2>2, <2>3 DEF Values, Increasing
<1>11. ASSUME NEW t, NEW n PROVE InHand(t, n)' <=> InHand(t, n)
  BY <1>1 DEF InHand, Holding
<1>12. ASSUME NEW t \in Submitters, t # s PROVE Accounted(t)'
  <2>1. \A n : InQueue(t, n)' <=> InQueue(t, n)
    BY <1>3, <1>12 DEF InQueue
  <2> QED BY <1>1, <1>2, <1>11, <1>12, <2>1 DEF Values, Accounted, Pending
<1>13. Accounted(s)'
  <2>1. ASSUME NEW n, n = tried[s] PROVE InQueue(s, n)'
    <3>1. PICK i \in 1 .. Len(queue) : queue[i].from = s /\ ~queue[i].ready
      BY <1>1 DEF Values, Slots
    <3>2. queue[i].n = tried[s] BY <3>1 DEF Values, Slots
    <3> QED BY <1>1, <1>3, <2>1, <3>1, <3>2 DEF InQueue
  <2>2. ASSUME NEW n, InQueue(s, n) PROVE InQueue(s, n)'
    BY <1>3, <2>2 DEF InQueue
  <2>3. ASSUME NEW n, InQueue(s, n)' PROVE InQueue(s, n) \/ n = tried[s]
    <3>1. PICK i \in 1 .. Len(queue) : queue[i].from = s /\ queue[i].n = n
      BY <1>3, <2>3 DEF InQueue
    <3>2. CASE queue[i].ready BY <3>1, <3>2 DEF InQueue
    <3>3. CASE ~queue[i].ready BY <3>1, <3>3 DEF Values, Slots
    <3> QED BY <3>2, <3>3
  <2>4. /\ Len(routed[s]) <= Len(accepted[s])
        /\ \A k \in 1 .. Len(routed[s]) : routed[s][k] = accepted[s][k]
        /\ \A k \in Pending(s) :
             InHand(s, accepted[s][k]) \/ InQueue(s, accepted[s][k])
        /\ \A n \in 1 .. MaxValue :
             InHand(s, n) \/ InQueue(s, n) =>
                \E k \in Pending(s) : accepted[s][k] = n
    BY DEF Values, Accounted
  <2>5. ASSUME NEW k \in Len(routed[s]) + 1 .. last
        PROVE  (InHand(s, accepted[s][k]) \/ InQueue(s, accepted[s][k]))'
    <3>1. k = last \/ k \in 1 .. Len(accepted[s]) BY <1>5
    <3>2. CASE k = last BY <1>5, <2>1, <3>2
    <3>3. CASE k \in 1 .. Len(accepted[s])
      <4>1. k \in Pending(s) BY <1>5, <3>3 DEF Pending
      <4> QED BY <1>5, <1>11, <2>2, <2>4, <3>3, <4>1
    <3> QED BY <3>1, <3>2, <3>3
  <2>6. ASSUME NEW n \in 1 .. MaxValue, InHand(s, n)' \/ InQueue(s, n)'
        PROVE  \E k \in Len(routed[s]) + 1 .. last : accepted'[s][k] = n
    <3>1. CASE n = tried[s]
      <4>1. last \in Len(routed[s]) + 1 .. last BY <1>5, <2>4
      <4> QED BY <1>5, <3>1, <4>1
    <3>2. CASE n # tried[s]
      <4>1. PICK k \in Pending(s) : accepted[s][k] = n
        BY <1>11, <2>3, <2>4, <2>6, <3>2
      <4>2. k \in Len(routed[s]) + 1 .. last /\ k \in 1 .. Len(accepted[s])
        BY <1>5 DEF Pending
      <4> QED BY <1>5, <4>1, <4>2
    <3> QED BY <3>1, <3>2
  <2>7. Len(routed[s]) <= last BY <1>5, <2>4
  <2>8. ASSUME NEW k \in 1 .. Len(routed[s])
        PROVE  routed[s][k] = accepted'[s][k]
    <3>1. k \in 1 .. Len(accepted[s]) BY <1>5, <2>4
    <3> QED BY <1>5, <2>4, <3>1
  <2> QED BY <1>1, <1>5, <2>5, <2>6, <2>7, <2>8 DEF Accounted, Pending
<1> QED BY <1>9, <1>10, <1>12, <1>13 DEF Values

LEMMA ValuesStep ==
    ASSUME TypeOK, QueueInv, Drained, Values, Next
    PROVE  Values'
<1>1. CASE Host
  <2>1. UNCHANGED <<pc, tried, accepted, routed, hand>> /\ Holding' = Holding
    BY <1>1 DEF Host, AddPublisher, RemovePublishers, InitBegin, InitSpawn,
       ShutdownBegin, ShutdownJoin, ShutdownDelete, workerVars, submitVars,
       Holding, QueueInv, Handshake
  <2>2. queue' = queue
    BY <1>1 DEF Host, AddPublisher, RemovePublishers, InitBegin, InitSpawn,
       ShutdownBegin, ShutdownJoin, ShutdownDelete, Drained
  <2> QED BY <2>1, <2>2, Unmoved
<1>2. CASE WorkerTakes BY <1>2, TakesStep
<1>3. CASE Holding /\ Routed /\ Onward /\ UNCHANGED <<queue, submitVars>>
  <2>1. ~Holding' BY <1>3 DEF Onward, Holding
  <2> QED BY <1>3, <2>1, RoutesStep DEF submitVars
<1>4. CASE UNCHANGED <<queue, hand, submitVars, routed>> /\ Holding' = Holding
  BY <1>4, Unmoved DEF submitVars
<1>5. CASE Worker /\ ~WorkerTakes
  <2>1. CASE WorkerChecks BY <1>4, <2>1 DEF WorkerChecks, Holding
  <2>2. CASE WorkerReleases BY <1>4, <2>2 DEF WorkerReleases, Holding
  <2>3. CASE WorkerFindsNothing
    BY <1>4, <2>3 DEF WorkerFindsNothing, Holding
  <2>4. CASE WorkerForwards BY <1>3, <2>4 DEF WorkerForwards, Holding
  <2>5. CASE WorkerLooksUp
    BY <1>3, <1>4, <2>5 DEF WorkerLooksUp, Holding
  <2>6. CASE WorkerSets BY <1>3, <2>6 DEF WorkerSets, Holding
  <2> QED BY <1>5, <2>1, <2>2, <2>3, <2>4, <2>5, <2>6 DEF Worker
<1>6. ASSUME NEW s \in Submitters, Submit(s) PROVE Values'
  BY <1>6, ChecksStep, ClaimsStep, FillsStep DEF Submit
<1> QED BY <1>1, <1>2, <1>5, <1>6 DEF Next

LEMMA FunnelInvStep ==
    ASSUME Quiesce, FunnelInv, [Next]_vars
    PROVE  FunnelInv'
<1>1. QueueInv' BY QueueInvStep DEF FunnelInv
<1>2. Values BY DEF FunnelInv, Values
<1>3. CASE UNCHANGED vars
  <2>1. TypeOK' /\ Drained' /\ Holding' = Holding
    BY <1>3 DEF vars, hostVars, storeVars, workerVars, submitVars, FunnelInv,
       TypeOK, Drained, Holding
  <2>2. Values'
    BY <1>2, <1>3, <2>1, Unmoved DEF vars, workerVars, submitVars
  <2> QED BY <1>1, <2>1, <2>2 DEF FunnelInv, Values
<1>4. CASE Next
  <2>1. TypeOK' BY <1>4, TypeStep DEF FunnelInv
  <2>2. Drained' BY <1>1, <1>4, <2>1, DrainedStep DEF FunnelInv
  <2>3. Values' BY <1>2, <1>4, ValuesStep DEF FunnelInv
  <2> QED BY <1>1, <2>1, <2>2, <2>3 DEF FunnelInv, Values
<1> QED BY <1>3, <1>4

LEMMA FunnelInvariant == ASSUME Quiesce PROVE Spec => []FunnelInv
<1>1. Init => FunnelInv BY FunnelInvInit
<1>2. FunnelInv /\ [Next]_vars => FunnelInv' BY FunnelInvStep
<1> QED BY <1>1, <1>2, PTL DEF Spec

(* If the submitters rest while the host shuts the funnel down, it keeps    *)
(* the order of every submitter, invents nothing, and once shutdown() has   *)
(* returned every value that submit..() reported as taken has been routed:  *)
(* substation_kit/README.md's "the last values still land".                 *)
THEOREM NothingIsLost ==
    ASSUME Quiesce
    PROVE  Spec => []FunnelKeepsAll
<1>1. FunnelInv => FunnelKeepsAll
  <2> SUFFICES ASSUME FunnelInv PROVE FunnelKeepsAll OBVIOUS
  <2>1. ASSUME NEW s \in Submitters
        PROVE  /\ accepted[s] \in Seq(1 .. MaxValue)
               /\ routed[s] \in Seq(1 .. MaxValue)
               /\ Len(accepted[s]) \in Nat /\ Len(routed[s]) \in Nat
               /\ Len(routed[s]) <= Len(accepted[s])
               /\ \A k \in 1 .. Len(routed[s]) : routed[s][k] = accepted[s][k]
    BY DEF FunnelInv, TypeOK, Accounted
  <2>2. ASSUME NEW s \in Submitters PROVE Prefix(routed[s], accepted[s])
    <3> DEFINE t == accepted[s]
               n == Len(routed[s])
               sub == SubSeq(t, 1, n)
    <3>1. t \in Seq(1 .. MaxValue) /\ n \in Nat /\ n <= Len(t) /\ Len(t) \in Nat
      BY <2>1
    <3>2. ASSUME NEW i \in 1 .. n PROVE t[i] \in 1 .. MaxValue
      <4>1. i \in 1 .. Len(t) BY <3>1
      <4> QED BY <3>1, <4>1, ElementOfSeq
    <3> HIDE DEF t, n
    <3>3. /\ sub \in Seq(1 .. MaxValue)
          /\ Len(sub) = IF 1 <= n THEN n - 1 + 1 ELSE 0
          /\ \A i \in 1 .. n - 1 + 1 : sub[i] = t[1 + i - 1]
      BY <3>1, <3>2, SubSeqProperties
    <3>4. n - 1 + 1 = n /\ \A i \in 1 .. n : 1 + i - 1 = i BY <3>1
    <3>5. Len(sub) = n
      <4>1. \A k \in Nat : k = 0 \/ 1 <= k OBVIOUS
      <4>2. CASE n = 0 BY <3>3, <4>2
      <4>3. CASE 1 <= n BY <3>3, <3>4, <4>3
      <4> QED BY <3>1, <4>1, <4>2, <4>3
    <3> HIDE DEF sub
    <3>6. \A i \in 1 .. n : sub[i] = t[i] BY <3>3, <3>4
    <3>7. sub = routed[s]
      BY <2>1, <3>3, <3>5, <3>6, SeqEqual DEF t, n
    <3> QED BY <2>1, <3>7 DEF Prefix, sub, t, n
  <2>3. ASSUME host = "idle", ~ingestRunning, NEW s \in Submitters
        PROVE  routed[s] = accepted[s]
    <3>1. queue = <<>> /\ worker = "none"
      BY <2>3 DEF FunnelInv, Drained, QueueInv, Handshake
    <3>2. \A n : ~InHand(s, n) /\ ~InQueue(s, n)
      BY <3>1 DEF InHand, InQueue, Holding
    <3>3. Len(routed[s]) = Len(accepted[s])
      <4>1. CASE Len(routed[s]) < Len(accepted[s])
        <5>1. Len(accepted[s]) \in Pending(s) BY <2>1, <4>1 DEF Pending
        <5> QED BY <3>2, <5>1 DEF FunnelInv, Accounted
      <4> QED BY <2>1, <4>1
    <3> QED BY <2>1, <3>3, SeqEqual
  <2> QED BY <2>2, <2>3 DEF FunnelInv, FunnelKeepsAll, SubmitterOrder,
     LastValuesLand
<1> QED BY <1>1, FunnelInvariant, PTL

-----------------------------------------------------------------------------
\* The worker holds a pointer only to the publisher its value is for, and the
\* store shows values that were routed.
LiveInv ==
    /\ worker = "set" => ptr = hand.id /\ ptr # 0 /\ hand.from \in Magnitudes
    /\ \A s \in Magnitudes : live[s] # 0 =>
         \E k \in 1 .. Len(routed[s]) : routed[s][k] = live[s]

LEMMA LiveInvStep ==
    ASSUME FunnelInv, LiveInv, [Next]_vars
    PROVE  LiveInv'
<1> USE DEF LiveInv
<1>1. \A s \in Magnitudes : s \in Submitters BY DEF Magnitudes
<1>2. ASSUME Holding, Routed
      PROVE  \A s \in Magnitudes :
               /\ Len(routed'[s]) >= Len(routed[s])
               /\ Len(routed'[s]) \in Nat /\ Len(routed[s]) \in Nat
               /\ \A k \in 1 .. Len(routed[s]) : routed'[s][k] = routed[s][k]
               /\ s = hand.from =>
                    /\ Len(routed'[s]) \in 1 .. Len(routed'[s])
                    /\ routed'[s][Len(routed'[s])] = hand.n
  <2>1. hand.from \in Submitters /\ hand.n \in 1 .. MaxValue
    BY <1>2 DEF FunnelInv, Drained, Messages
  <2> TAKE s \in Magnitudes
  <2>2. routed[s] \in Seq(1 .. MaxValue) BY <1>1 DEF FunnelInv, TypeOK
  <2>3. CASE s = hand.from
    <3>1. routed'[s] = Append(routed[s], hand.n)
      BY <1>1, <1>2, <2>3 DEF Routed, FunnelInv, TypeOK
    <3> QED BY <2>1, <2>2, <3>1, AppendProperties
  <2>4. CASE s # hand.from
    <3>1. routed'[s] = routed[s]
      BY <1>1, <1>2, <2>4 DEF Routed, FunnelInv, TypeOK
    <3> QED BY <2>2, <2>4, <3>1
  <2> QED BY <2>3, <2>4
<1>3. CASE AddPublisher
  BY <1>3 DEF AddPublisher, workerVars
<1>4. CASE WorkerForwards
  BY <1>2, <1>4 DEF WorkerForwards, Holding, Onward, storeVars
<1>5. CASE WorkerLooksUp
  <2>1. UNCHANGED live /\ hand' = hand
    BY <1>5 DEF WorkerLooksUp, storeVars
  <2>2. CASE ptr' = 0
    BY <1>2, <1>5, <2>1, <2>2 DEF WorkerLooksUp, Holding, Onward
  <2>3. CASE ptr' # 0
    BY <1>5, <2>1, <2>3 DEF WorkerLooksUp, Lookup
  <2> QED BY <2>2, <2>3
<1>6. CASE WorkerSets
  <2>1. Holding /\ Routed /\ worker' # "set" /\ hand' = hand
    BY <1>6 DEF WorkerSets, Holding, Onward
  <2>2. \/ live' = live
        \/ live' = [live EXCEPT ![hand.from] = hand.n]
    BY <1>6 DEF WorkerSets
  <2>3. ASSUME NEW s \in Magnitudes, live'[s] # 0
        PROVE  \E k \in 1 .. Len(routed'[s]) : routed'[s][k] = live'[s]
    <3>1. CASE live'[s] = live[s] BY <1>2, <2>1, <2>3, <3>1
    <3>2. CASE live'[s] # live[s]
      <4>1. s = hand.from /\ live'[s] = hand.n
        BY <2>2, <3>2 DEF FunnelInv, TypeOK
      <4> QED BY <1>2, <2>1, <4>1
    <3> QED BY <3>1, <3>2
  <2> QED BY <2>1, <2>3
<1>7. CASE ~AddPublisher /\ ~WorkerForwards /\ ~WorkerLooksUp /\ ~WorkerSets
  <2>1. /\ UNCHANGED <<live, routed>>
        /\ worker' = "set" => UNCHANGED <<worker, ptr, hand>>
    BY <1>7 DEF Next, Host, RemovePublishers, InitBegin, InitSpawn,
       ShutdownBegin, ShutdownJoin, ShutdownDelete, Worker, WorkerChecks,
       WorkerTakes, WorkerReleases, WorkerFindsNothing, Submit, SubmitChecks,
       SubmitClaims, SubmitFills, workerVars, storeVars, vars
  <2> QED BY <2>1
<1> QED BY <1>3, <1>4, <1>5, <1>6, <1>7

(* If the submitters rest during a shutdown, a publisher never shows a      *)
(* value that was submitted for its predecessor, and shows the values of a  *)
(* submitter in the order they were taken: routeMessage() writes through    *)
(* the pointer it looked up for the id of the message.                      *)
THEOREM StoreOrder ==
    ASSUME Quiesce
    PROVE  Spec => StoreMovesForward
<1> DEFINE Forward ==
      \A s \in Magnitudes :
         live'[s] # live[s] =>
            IF pub' = pub THEN live'[s] > live[s] /\ hand.id = pub
            ELSE live'[s] = 0
<1>1. Init => LiveInv BY DEF Init, LiveInv
<1>2. FunnelInv /\ LiveInv /\ [Next]_vars => LiveInv' BY LiveInvStep
<1>3. ASSUME FunnelInv, LiveInv, [Next]_vars PROVE [Forward]_vars
  <2>1. CASE AddPublisher
    BY <1>3, <2>1, IngestAssumption DEF AddPublisher, FunnelInv, TypeOK
  <2>2. CASE WorkerSets
    <3>1. SUFFICES ASSUME NEW s \in Magnitudes, live'[s] # live[s]
                   PROVE  live'[s] > live[s] /\ hand.id = pub /\ pub' = pub
      OBVIOUS
    <3>2. /\ ptr = pub /\ pub' = pub
          /\ live' = [live EXCEPT ![hand.from] = hand.n]
      BY <2>2, <3>1 DEF WorkerSets
    <3>3. s = hand.from /\ live'[s] = hand.n
      BY <1>3, <3>1, <3>2 DEF FunnelInv, TypeOK
    <3>4. Holding /\ hand.id = pub BY <1>3, <2>2, <3>2 DEF WorkerSets, Holding, LiveInv
    <3>5. /\ hand.n \in 1 .. MaxValue /\ s \in Submitters
          /\ Len(routed[s]) + 1 \in Pending(s)
          /\ hand.n = accepted[s][Len(routed[s]) + 1]
      BY <1>3, <3>3, <3>4, HandIsNext DEF FunnelInv, Values
    <3>6. live[s] \in 0 .. MaxValue BY <1>3 DEF FunnelInv, TypeOK
    <3>7. CASE live[s] = 0 BY <3>3, <3>4, <3>2, <3>5, <3>7
    <3>8. CASE live[s] # 0
      <4>1. PICK k \in 1 .. Len(routed[s]) : routed[s][k] = live[s]
        BY <1>3, <3>8 DEF LiveInv
      <4>2. accepted[s][k] = live[s]
        BY <1>3, <3>5, <4>1 DEF FunnelInv, Accounted
      <4>3. Len(routed[s]) \in Nat /\ Len(accepted[s]) \in Nat
        BY <1>3, <3>5 DEF FunnelInv, TypeOK
      <4>4. /\ k \in 1 .. Len(accepted[s]) /\ k < Len(routed[s]) + 1
            /\ Len(routed[s]) + 1 \in 1 .. Len(accepted[s])
        BY <3>5, <4>3 DEF Pending
      <4>5. live[s] < hand.n
        BY <1>3, <3>5, <4>2, <4>4 DEF FunnelInv, Increasing
      <4> QED BY <3>2, <3>3, <3>4, <3>5, <3>6, <4>5
    <3> QED BY <3>7, <3>8
  <2>3. CASE ~AddPublisher /\ ~WorkerSets
    <3>1. live' = live
      BY <1>3, <2>3 DEF Next, Host, RemovePublishers, InitBegin, InitSpawn,
         ShutdownBegin, ShutdownJoin, ShutdownDelete, Worker, WorkerChecks,
         WorkerTakes, WorkerReleases, WorkerFindsNothing, WorkerForwards,
         WorkerLooksUp, Submit, SubmitChecks, SubmitClaims, SubmitFills,
         storeVars, vars
    <3> QED BY <3>1
  <2> QED BY <2>1, <2>2, <2>3
<1> HIDE DEF Forward
<1>4. StoreMovesForward <=> [][Forward]_vars BY DEF StoreMovesForward, Forward
<1> QED BY <1>1, <1>2, <1>3, <1>4, FunnelInvariant, PTL DEF Spec
=============================================================================
