------------------------------ MODULE LiveIngest ------------------------------
(***************************************************************************)
(* The value funnel of the kit (substation::publisher): many simulator     *)
(* threads submit values into one multi-producer queue, one worker routes  *)
(* them to the live store of a publisher or on to the GOOSE bridge, and    *)
(* the host starts and stops it.                                           *)
(*                                                                         *)
(* Threads.  Every submitter is a thread of the simulator; it submits      *)
(* magnitudes for a channel of its own of the publisher, or, if it is in   *)
(* GooseFeeders, Booleans.  The host is one thread: init() and shutdown()  *)
(* are for "any one thread".  The publisher's writer only reads the store. *)
(*                                                                         *)
(* A value is its number among those its submitter has tried to submit.    *)
(* The queue is a sequence of slots a producer first claims (the CAS on    *)
(* head_) and then fills (the store to turn); see try_emplace().           *)
(***************************************************************************)
EXTENDS Naturals, Sequences, FiniteSets

CONSTANTS
    Submitters,
    GooseFeeders,
    Capacity,          \* queueCapacity
    Quiesce,           \* the host's submitters rest while it shuts down
    TeardownInOrder,   \* the host removes publishers only while no worker runs
    MaxValue,          \* bound: submissions per submitter
    MaxInits,          \* bound: calls of init()
    MaxPubs            \* bound: publishers added

ASSUME IngestAssumption ==
    /\ IsFiniteSet(Submitters) /\ GooseFeeders \subseteq Submitters
    /\ Capacity \in Nat \ {0, 1}
    /\ Quiesce \in BOOLEAN /\ TeardownInOrder \in BOOLEAN
    /\ MaxValue \in Nat /\ MaxInits \in Nat /\ MaxPubs \in Nat

VARIABLES
    ingestRunning,     \* g_ingestRunning
    gen,               \* which queue g_ingestQueue points to, 0: nullptr
    queue,             \* its slots, oldest first
    held,              \* slots the consumer has taken and not released
    worker,            \* where g_ingestWorker is
    draining,          \* it is in the second loop of ingestWorkerLoop()
    hand,              \* the message it routes
    ptr,               \* what getPublisher() gave it, 0: nullptr
    host,              \* where the host is
    inits,             \* queues made so far
    pub,               \* id of the publisher, 0: there is none
    lastPub,           \* last id given
    live,              \* m_liveValue of that publisher, by submitter
    pc, claimed,       \* where a submitter is, the queue it has a slot in
    tried              \* values it has tried to submit

VARIABLES
    accepted, routed,  \* per submitter: values try_push() took, and values
                       \* the worker has dealt with, in order
    stray              \* memory that was used after it was freed

hostVars == <<host, inits>>
storeVars == <<pub, lastPub, live>>
workerVars == <<worker, draining, hand, ptr, held>>
submitVars == <<pc, claimed, tried, accepted>>
vars == <<ingestRunning, gen, queue, hostVars, storeVars, workerVars,
          submitVars, routed, stray>>

Magnitudes == Submitters \ GooseFeeders
NoMessage == [from |-> "none", n |-> 0, id |-> 0, ready |-> FALSE]
WorkerStates == {"none", "check", "pop", "release", "route", "set", "done"}
AtWork == worker \notin {"none", "done"}

Init ==
    /\ ingestRunning = FALSE /\ gen = 0 /\ queue = <<>> /\ held = 0
    /\ worker = "none" /\ draining = FALSE /\ hand = NoMessage /\ ptr = 0
    /\ host = "idle" /\ inits = 0
    /\ pub = 0 /\ lastPub = 0 /\ live = [s \in Magnitudes |-> 0]
    /\ pc = [s \in Submitters |-> "idle"]
    /\ claimed = [s \in Submitters |-> 0]
    /\ tried = [s \in Submitters |-> 0]
    /\ accepted = [s \in Submitters |-> <<>>]
    /\ routed = [s \in Submitters |-> <<>>]
    /\ stray = {}

-----------------------------------------------------------------------------
(* The host.                                                               *)

AddPublisher ==
    /\ host = "idle" /\ pub = 0 /\ lastPub < MaxPubs
    /\ lastPub' = lastPub + 1 /\ pub' = lastPub'
    /\ live' = [s \in Magnitudes |-> 0]
    /\ UNCHANGED <<ingestRunning, gen, queue, hostVars, workerVars,
                   submitVars, routed, stray>>

\* removeAll(), or the resetAll() that reset() ends with.
RemovePublishers ==
    /\ host = "idle" /\ pub # 0
    /\ TeardownInOrder => ~ingestRunning
    /\ pub' = 0
    /\ UNCHANGED <<ingestRunning, gen, queue, hostVars, lastPub, live,
                   workerVars, submitVars, routed, stray>>

\* init(): the queue, then the flag, then the thread.
InitBegin ==
    /\ host = "idle" /\ ~ingestRunning /\ inits < MaxInits
    /\ inits' = inits + 1
    /\ gen' = inits' /\ queue' = <<>> /\ held' = 0
    /\ ingestRunning' = TRUE
    /\ host' = "spawn"
    /\ UNCHANGED <<worker, draining, hand, ptr, storeVars, submitVars, routed,
                   stray>>

InitSpawn ==
    /\ host = "spawn"
    /\ host' = "idle"
    /\ worker' = "check" /\ draining' = FALSE
    /\ UNCHANGED <<ingestRunning, gen, queue, inits, hand, ptr, held,
                   storeVars, submitVars, routed, stray>>

\* Mutant: shutdown() forgets the flag.
ShutdownBegin_KeepsRunning ==
    /\ host = "idle" /\ ingestRunning
    /\ Quiesce => \A s \in Submitters : pc[s] = "idle"
    /\ host' = "join"
    /\ UNCHANGED <<ingestRunning, gen, queue, inits, workerVars, storeVars,
                   submitVars, routed, stray>>
\* shutdown(): lower the flag, ...
ShutdownBegin ==
    /\ host = "idle" /\ ingestRunning
    /\ Quiesce => \A s \in Submitters : pc[s] = "idle"
    /\ ingestRunning' = FALSE
    /\ host' = "join"
    /\ UNCHANGED <<gen, queue, inits, workerVars, storeVars, submitVars,
                   routed, stray>>

\* Mutant: the worker is not waited for.
ShutdownJoin_Skipped ==
    /\ host = "join"
    /\ host' = "delete"
    /\ UNCHANGED <<ingestRunning, gen, queue, inits, workerVars, storeVars,
                   submitVars, routed, stray>>
\* ... wait for the worker, ...
ShutdownJoin ==
    /\ host = "join" /\ worker = "done"
    /\ host' = "delete"
    /\ worker' = "none"
    /\ UNCHANGED <<ingestRunning, gen, queue, inits, draining, hand, ptr, held,
                   storeVars, submitVars, routed, stray>>

\* ... and delete the queue with what is in it.
ShutdownDelete ==
    /\ host = "delete"
    /\ host' = "idle"
    /\ gen' = 0 /\ queue' = <<>> /\ held' = 0
    /\ UNCHANGED <<ingestRunning, inits, worker, draining, hand, ptr,
                   storeVars, submitVars, routed, stray>>

Host == AddPublisher \/ RemovePublishers \/ InitBegin \/ InitSpawn
        \/ ShutdownBegin \/ ShutdownJoin \/ ShutdownDelete

-----------------------------------------------------------------------------
(* The worker.                                                             *)

\* A dereference of the queue.
UseQueue == stray' = IF gen = 0 THEN stray \union {"queue"} ELSE stray

\* The test of the first loop of ingestWorkerLoop().
WorkerChecks ==
    /\ worker = "check"
    /\ worker' = "pop" /\ draining' = ~ingestRunning
    /\ UNCHANGED <<ingestRunning, gen, queue, hostVars, hand, ptr, held,
                   storeVars, submitVars, routed, stray>>

\* Mutant: the newest message first.
Taken_Newest == Len(queue)
\* try_pop() takes the oldest slot.
Taken == 1
Without(q, i) == SubSeq(q, 1, i - 1) \o SubSeq(q, i + 1, Len(q))
Available == queue # <<>> /\ queue[1].ready

\* Mutant: nothing is drained once the flag is down.
MayTake_WhileRunning == Available /\ ~draining
\* try_pop() finds a message in both loops.
MayTake == Available

WorkerTakes ==
    /\ worker = "pop" /\ MayTake
    /\ hand' = queue[Taken] /\ queue' = Without(queue, Taken)
    /\ held' = held + 1
    /\ worker' = "release"
    /\ UseQueue
    /\ UNCHANGED <<ingestRunning, gen, hostVars, draining, ptr, storeVars,
                   submitVars, routed>>

\* The slot is given back to the producers.
WorkerReleases ==
    /\ worker = "release"
    /\ held' = IF held = 0 THEN 0 ELSE held - 1
    /\ worker' = "route"
    /\ UseQueue
    /\ UNCHANGED <<ingestRunning, gen, queue, hostVars, draining, hand, ptr,
                   storeVars, submitVars, routed>>

\* Nothing to take: sleep and look at the flag again, or, draining, return.
WorkerFindsNothing ==
    /\ worker = "pop" /\ ~MayTake
    /\ worker' = IF draining THEN "done" ELSE "check"
    /\ UseQueue
    /\ UNCHANGED <<ingestRunning, gen, queue, hostVars, draining, hand, ptr,
                   held, storeVars, submitVars, routed>>

\* The loop the worker is in goes on.
Onward == worker' = IF draining THEN "pop" ELSE "check"
Routed == routed' = [routed EXCEPT ![hand.from] = Append(@, hand.n)]

\* routeMessage(), Boolean: on to SpscBridge::push().
WorkerForwards ==
    /\ worker = "route" /\ hand.from \in GooseFeeders
    /\ Onward /\ Routed
    /\ UNCHANGED <<ingestRunning, gen, queue, hostVars, draining, hand, ptr,
                   held, storeVars, submitVars, stray>>

\* Mutant: the id is not looked up.
Lookup_First(id) == pub
\* getPublisher(): the lock is released before the pointer is used.
Lookup(id) == IF id = pub THEN pub ELSE 0

\* routeMessage(), magnitude: a value for an id that is gone is ignored.
WorkerLooksUp ==
    /\ worker = "route" /\ hand.from \in Magnitudes
    /\ ptr' = Lookup(hand.id)
    /\ IF ptr' = 0 THEN Onward /\ Routed
       ELSE worker' = "set" /\ UNCHANGED routed
    /\ UNCHANGED <<ingestRunning, gen, queue, hostVars, draining, hand, held,
                   storeVars, submitVars, stray>>

\* setLiveValue().
WorkerSets ==
    /\ worker = "set"
    /\ IF ptr = pub
       THEN live' = [live EXCEPT ![hand.from] = hand.n] /\ UNCHANGED stray
       ELSE stray' = stray \union {"store"} /\ UNCHANGED live
    /\ Onward /\ Routed
    /\ UNCHANGED <<ingestRunning, gen, queue, hostVars, draining, hand, ptr,
                   held, pub, lastPub, submitVars>>

Worker == WorkerChecks \/ WorkerTakes \/ WorkerReleases \/ WorkerFindsNothing
          \/ WorkerForwards \/ WorkerLooksUp \/ WorkerSets

-----------------------------------------------------------------------------
(* The submitters.                                                         *)

Resting == Quiesce /\ host \in {"join", "delete"}

\* submitMagnitude(), submitBoolean(): the flag and the pointer are tested.
\* A call that fails the test returns false without effect.
SubmitChecks(s) ==
    /\ pc[s] = "idle" /\ tried[s] < MaxValue /\ ~Resting
    /\ ingestRunning /\ gen # 0
    /\ tried' = [tried EXCEPT ![s] = @ + 1]
    /\ pc' = [pc EXCEPT ![s] = "checked"]
    /\ UNCHANGED <<ingestRunning, gen, queue, hostVars, workerVars, storeVars,
                   claimed, accepted, routed, stray>>

\* The slot at head_ has not been released by the consumer.
Full == Len(queue) + held >= Capacity

\* The ids a caller may give: 0 for one that add() has not returned, and any
\* that it has, dead ones too.  A Boolean carries the id of a GOOSE stream.
Targets(s) == IF s \in GooseFeeders THEN {0} ELSE 0 .. lastPub

\* try_push(): false on a full queue, else the slot at head_ is claimed.
SubmitClaims(s, id) ==
    /\ pc[s] = "checked"
    /\ IF gen = 0 \/ Full
       THEN /\ pc' = [pc EXCEPT ![s] = "idle"]
            /\ UNCHANGED <<queue, claimed>>
       ELSE /\ pc' = [pc EXCEPT ![s] = "claimed"]
            /\ claimed' = [claimed EXCEPT ![s] = gen]
            /\ queue' = Append(queue, [from |-> s, n |-> tried[s], id |-> id,
                                       ready |-> FALSE])
    /\ UseQueue
    /\ UNCHANGED <<ingestRunning, gen, hostVars, workerVars, storeVars, tried,
                   accepted, routed>>

Filled(q, s) == [i \in DOMAIN q |-> IF q[i].from = s
                                    THEN [q[i] EXCEPT !.ready = TRUE]
                                    ELSE q[i]]

\* The slot is filled and try_push() returns true.
SubmitFills(s) ==
    /\ pc[s] = "claimed"
    /\ pc' = [pc EXCEPT ![s] = "idle"]
    /\ IF claimed[s] = gen
       THEN queue' = Filled(queue, s) /\ UNCHANGED stray
       ELSE stray' = stray \union {"queue"} /\ UNCHANGED queue
    /\ accepted' = [accepted EXCEPT ![s] = Append(@, tried[s])]
    /\ UNCHANGED <<ingestRunning, gen, hostVars, workerVars, storeVars, tried,
                   claimed, routed>>

Submit(s) == \/ SubmitChecks(s) \/ SubmitFills(s)
             \/ \E id \in Targets(s) : SubmitClaims(s, id)

Next == Host \/ Worker \/ \E s \in Submitters : Submit(s)

Spec == Init /\ [][Next]_vars

\* The threads are scheduled.  A submitter that has claimed a slot fills it.
FairSpec ==
    /\ Spec
    /\ WF_vars(InitSpawn) /\ WF_vars(ShutdownJoin) /\ WF_vars(ShutdownDelete)
    /\ WF_vars(Worker)
    /\ \A s \in Submitters : WF_vars(SubmitFills(s))

-----------------------------------------------------------------------------
Messages == [from : Submitters, n : 1 .. MaxValue, id : 0 .. MaxPubs,
             ready : BOOLEAN]

TypeOK ==
    /\ ingestRunning \in BOOLEAN /\ gen \in 0 .. MaxInits
    /\ queue \in Seq(Messages) /\ held \in 0 .. 1
    /\ Len(queue) + held <= Capacity
    /\ worker \in WorkerStates /\ draining \in BOOLEAN
    /\ hand \in Messages \union {NoMessage} /\ ptr \in 0 .. MaxPubs
    /\ host \in {"idle", "spawn", "join", "delete"} /\ inits \in 0 .. MaxInits
    /\ pub \in 0 .. MaxPubs /\ lastPub \in 0 .. MaxPubs
    /\ live \in [Magnitudes -> 0 .. MaxValue]
    /\ pc \in [Submitters -> {"idle", "checked", "claimed"}]
    /\ claimed \in [Submitters -> 0 .. MaxInits]
    /\ tried \in [Submitters -> 0 .. MaxValue]
    /\ accepted \in [Submitters -> Seq(1 .. MaxValue)]
    /\ routed \in [Submitters -> Seq(1 .. MaxValue)]
    /\ stray \subseteq {"queue", "store"}

(* No thread uses the queue after shutdown() has deleted it, and the worker *)
(* writes no value into a publisher that is gone, when the host keeps to    *)
(* the order of teardown: both are read through pointers that were tested   *)
(* one step earlier, without a lock.                                        *)
QueueMemorySafe == "queue" \notin stray
StoreMemorySafe == "store" \notin stray
MemorySafe == QueueMemorySafe /\ StoreMemorySafe

(* The funnel keeps the order of every submitter, invents nothing and loses *)
(* nothing in between: what is routed is the beginning of what was accepted *)
(* (with the message whose slot was filled a moment ago).  And once         *)
(* shutdown() has returned every value that submit..() reported as taken    *)
(* has been routed: "the last values still land".                           *)
Prefix(s, t) == Len(s) <= Len(t) /\ SubSeq(t, 1, Len(s)) = s
SubmitterOrder == \A s \in Submitters : Prefix(routed[s], accepted[s])
LastValuesLand ==
    (host = "idle" /\ ~ingestRunning /\ stray = {}) =>
        \A s \in Submitters : routed[s] = accepted[s]
FunnelKeepsAll == TypeOK /\ SubmitterOrder /\ LastValuesLand

(* A publisher never shows a value that was submitted for its predecessor,  *)
(* and shows its submitters' values in the order they were taken.           *)
StoreMovesForward ==
    [][\A s \in Magnitudes :
         live'[s] # live[s] =>
            IF pub' = pub THEN live'[s] > live[s] /\ hand.id = pub
            ELSE live'[s] = 0]_vars

(* shutdown() always returns: the second loop of the worker comes to an end. *)
ShutdownReturns == (host = "join") ~> (host = "idle")

(* Every value that was taken is routed in the end, without a shutdown too. *)
AcceptedIsRouted ==
    \A s \in Submitters : \A k \in 1 .. MaxValue :
        (Len(accepted[s]) >= k) ~> (Len(routed[s]) >= k)
=============================================================================
