---------------------------- MODULE PublisherPanel ----------------------------
(***************************************************************************)
(* The publisher panel of the page: the list of publishers, Start, Stop    *)
(* and Reset, and the pollers that keep the page in step with the backend  *)
(* (MultiPublisher.js, globalPublishControls.js, keyboardShortcuts.js, and *)
(* the poller of tauriClient.js).                                          *)
(*                                                                         *)
(* A handler is a coroutine: it runs from one await to the next without    *)
(* interruption, and anything the user or another handler does may come    *)
(* between two awaits.  task says which await a handler is at.  Calls are  *)
(* executed by the backend in order and answered in order (BackendClient   *)
(* is about the transport, GooseTx and PublisherController about what the  *)
(* commands do; here the backend is what the page can tell of it).         *)
(*                                                                         *)
(* Awaits that follow one another and change nothing else are one await:   *)
(* get_interfaces and open_interface; a publisher's configuration and its  *)
(* equations; its source mode, protocol and queue; the GOOSE configuration *)
(* and start; the duration and the start.                                  *)
(***************************************************************************)
EXTENDS Naturals, Sequences, FiniteSets, SequencesExt

CONSTANTS
    Starters,          \* bound: startAll() calls in flight together, by name
    GooseLids,         \* the publishers whose protocol is GOOSE
    MaxLid,            \* bound: publishers added over the life of the page
    MaxEvents,         \* bound: Start and Reset pressed, connections
                       \* lost, pages loaded anew
    MaxId,             \* bound: publishers added at the backend
    MaxTicks           \* bound: calls in flight when tauriClient polls

ASSUME PanelAssumption ==
    /\ Starters \intersect {"stop", "poll", "back", "hello", "load", "reset", "gone"} = {}
    /\ GooseLids \subseteq 1 .. MaxLid
    /\ {MaxLid, MaxEvents, MaxId, MaxTicks} \subseteq Nat

VARIABLES
    list,              \* _publishers, as localIds
    bid,               \* backendId of a publisher object, 0 for null; the
                       \* object outlives its place in the list
    nextLid,           \* _nextLocalId
    isRunning,         \* _isRunning of the panel
    polling,           \* _pollTimer is set
    header,            \* what the buttons and the pill of the header show
    lastRunning,       \* _lastRunning of tauriClient
    task,              \* the handlers, each at one of its awaits or idle
    calls,             \* calls made and not yet answered, oldest first
    engine,            \* the backend
    events,            \* how many of those there were
    dropped,           \* a connection was lost
    disturbed,         \* since the list was last at rest, a start met another
                       \* start or an edit of the list
    fresh              \* the page was reset, with at most two starts in
                       \* flight, and nothing was started since

panel == <<list, nextLid>>
run == <<isRunning, polling, header>>
user == <<events, dropped, disturbed, fresh>>
vars == <<panel, bid, run, lastRunning, task, calls, engine, user>>

Lids == 1 .. MaxLid
Ids == 1 .. MaxId
Others == {"stop", "poll", "back", "hello", "load", "reset"}
Tasks == Starters \union Others
Labels == {"idle", "open", "clear", "add", "conf", "side", "goose", "start",
           "rollback", "stop", "gstop", "running?", "reset", "close"}

Idle == [at |-> "idle", pub |-> 0, i |-> 0, viaHeader |-> FALSE]
Listed == {list[i] : i \in DOMAIN list}
Starting == {s \in Starters : task[s].at # "idle"}
Nulled == [l \in Lids |-> IF l \in Listed THEN 0 ELSE bid[l]]

NewCall(t, cmd, arg) ==
    [by |-> t, cmd |-> cmd, arg |-> arg, res |-> "none", value |-> 0]

Init ==
    /\ list = <<>> /\ nextLid = 1
    /\ bid = [l \in Lids |-> 0]
    /\ isRunning = FALSE /\ polling = FALSE /\ header = FALSE
    /\ lastRunning = FALSE
    /\ task = [t \in Tasks |-> Idle]
    /\ calls = <<>>
    /\ engine = [pubs |-> {}, conf |-> {}, live |-> {}, goose |-> {},
                 open |-> FALSE, running |-> FALSE, next |-> 1]
    /\ events = 0 /\ dropped = FALSE /\ disturbed = FALSE /\ fresh = FALSE

-----------------------------------------------------------------------------
(* The backend executes the oldest command it has not executed.            *)

Stopped(e) == [e EXCEPT !.running = FALSE, !.live = {}]
Emptied(e) == [e EXCEPT !.pubs = {}, !.conf = {}]

Accepts(c) ==
    CASE c.cmd = "add"   -> engine.next <= MaxId
      [] c.cmd = "conf"  -> c.arg \in engine.pubs
      [] c.cmd = "start" -> ~engine.running /\ engine.open /\ engine.conf # {}
      [] OTHER           -> TRUE

After(c) ==
    CASE c.cmd = "open"  -> [engine EXCEPT !.open = TRUE]
      [] c.cmd = "clear" -> IF engine.running THEN engine ELSE Emptied(engine)
      [] c.cmd = "add"   -> [engine EXCEPT !.pubs = @ \union {engine.next},
                                           !.next = @ + 1]
      [] c.cmd = "conf"  -> [engine EXCEPT !.conf = @ \union {c.arg}]
      [] c.cmd = "goose" -> [engine EXCEPT !.goose = @ \union {c.arg}]
      [] c.cmd = "start" -> [engine EXCEPT !.running = TRUE, !.live = engine.conf]
      [] c.cmd \in {"stop", "reset"} -> Emptied(Stopped(engine))
      [] c.cmd = "gstop" -> [engine EXCEPT !.goose = {}]
      [] c.cmd = "close" -> [engine EXCEPT !.open = FALSE]
      [] OTHER           -> engine

Value(c) ==
    CASE c.cmd = "add"      -> engine.next
      [] c.cmd = "running?" -> IF engine.running THEN 1 ELSE 0
      [] OTHER              -> 0

Unexecuted == {k \in DOMAIN calls : calls[k].res = "none"}
Execute ==
    \E k \in Unexecuted :
        /\ \A j \in Unexecuted : k <= j
        /\ engine' = IF Accepts(calls[k]) THEN After(calls[k]) ELSE engine
        /\ calls' = [calls EXCEPT ![k].res = IF Accepts(calls[k]) THEN "ok" ELSE "rejected",
                                  ![k].value = Value(calls[k])]
        /\ UNCHANGED <<panel, bid, run, lastRunning, task, user>>

\* A run of limited duration ends by itself.
EngineEnds ==
    /\ engine.running
    /\ engine' = Stopped(engine)
    /\ UNCHANGED <<panel, bid, run, lastRunning, task, calls, user>>

-----------------------------------------------------------------------------
(* Handlers: an answer arrives and the handler runs to its next await.     *)

Answered(t, label) ==
    /\ calls # <<>> /\ Head(calls).by = t /\ Head(calls).res # "none"
    /\ task[t].at = label
Ok == Head(calls).res = "ok"
Result == Head(calls).value
SaysRunning == Ok /\ Result = 1
SaysStopped == Ok /\ Result = 0

Await(t, label, p, i, arg) ==
    /\ task' = [task EXCEPT ![t].at = label, ![t].pub = p, ![t].i = i]
    /\ calls' = Append(Tail(calls),
                       NewCall(t, IF label = "rollback" THEN "clear" ELSE label, arg))

Return(t) ==
    /\ task' = [task EXCEPT ![t] = Idle]
    /\ calls' = Tail(calls)

\* Mutant: the last publisher is not configured.
ConfigureFrom_ButLast(t, i) ==
    IF i < Len(list) THEN Await(t, "conf", list[i], i, bid'[list[i]])
                     ELSE Await(t, "start", 0, 0, 0)
\* The loops of startAll() run over the list itself, not over a copy.
ConfigureFrom(t, i) ==
    IF i <= Len(list) THEN Await(t, "conf", list[i], i, bid'[list[i]])
                      ELSE Await(t, "start", 0, 0, 0)
AddFrom(t, i) ==
    IF i <= Len(list) THEN Await(t, "add", list[i], i, 0)
                      ELSE ConfigureFrom(t, 1)

\* handleStart() shows the run whatever became of startAll().
StartReturns(t) ==
    /\ Return(t)
    /\ header' = (header \/ task[t].viaHeader)
    /\ UNCHANGED <<isRunning, polling>>

\* Step 0 and step 1 of startAll().
StartOpened(t) ==
    /\ Answered(t, "open")
    /\ UNCHANGED bid
    /\ IF Ok THEN Await(t, "clear", 0, 0, 0) /\ UNCHANGED run ELSE StartReturns(t)
StartCleared(t) ==
    /\ Answered(t, "clear")
    /\ UNCHANGED bid
    /\ IF Ok THEN AddFrom(t, 1) /\ UNCHANGED run ELSE StartReturns(t)

AssignedId(t) == Result
\* Step 2: a publisher of the backend for each one of the list.
StartAdded(t) ==
    /\ Answered(t, "add")
    /\ bid' = IF Ok THEN [bid EXCEPT ![task[t].pub] = AssignedId(t)] ELSE bid
    /\ IF Ok THEN AddFrom(t, task[t].i + 1) ELSE Await(t, "rollback", 0, 0, 0)
    /\ UNCHANGED run

\* Step 3: the publisher is configured; the calls on the side may fail.
StartConfigured(t) ==
    /\ Answered(t, "conf")
    /\ UNCHANGED <<bid, run>>
    /\ IF Ok THEN Await(t, "side", task[t].pub, task[t].i, bid[task[t].pub])
             ELSE Await(t, "rollback", 0, 0, 0)
StartSideDone(t) ==
    /\ Answered(t, "side")
    /\ UNCHANGED <<bid, run>>
    /\ IF task[t].pub \in GooseLids
       THEN Await(t, "goose", task[t].pub, task[t].i, bid[task[t].pub])
       ELSE ConfigureFrom(t, task[t].i + 1)
StartGooseDone(t) ==
    /\ Answered(t, "goose")
    /\ UNCHANGED <<bid, run>>
    /\ ConfigureFrom(t, task[t].i + 1)

StartRolledBack(t) ==
    /\ Answered(t, "rollback")
    /\ bid' = Nulled
    /\ StartReturns(t)

PollAfterStart == TRUE

\* Step 4: the run has started.
StartDone(t) ==
    /\ Answered(t, "start")
    /\ UNCHANGED bid
    /\ IF Ok THEN /\ isRunning' = TRUE /\ polling' = PollAfterStart
                  /\ header' = (header \/ task[t].viaHeader)
                  /\ Return(t)
             ELSE StartReturns(t)

StartStep(t) ==
    /\ \/ StartOpened(t) \/ StartCleared(t) \/ StartAdded(t) \/ StartConfigured(t)
       \/ StartSideDone(t) \/ StartGooseDone(t) \/ StartRolledBack(t) \/ StartDone(t)
    /\ UNCHANGED <<panel, lastRunning, engine, user>>

\* The listeners of 'publishingStopped': the panel, then the header.
OnPublishingStopped ==
    /\ bid' = IF isRunning THEN Nulled ELSE bid
    /\ isRunning' = FALSE /\ header' = FALSE
    /\ UNCHANGED polling

\* Mutant: Stop stops the run and leaves the GOOSE schedulers.
AfterStop_RunOnly == Return("stop")
AfterStop == Await("stop", "gstop", 0, 0, 0)

\* stopAll(): mpStopAll() tells the listeners before it returns.
StopAnswered ==
    /\ Answered("stop", "stop")
    /\ IF Ok THEN OnPublishingStopped ELSE UNCHANGED <<bid, run>>
    /\ AfterStop
    /\ UNCHANGED <<panel, lastRunning, engine, user>>
StopDone ==
    /\ Answered("stop", "gstop")
    /\ bid' = Nulled
    /\ isRunning' = FALSE
    /\ header' = (header /\ ~task["stop"].viaHeader)
    /\ Return("stop")
    /\ UNCHANGED <<panel, polling, lastRunning, engine, user>>

\* Mutant: the poller of the panel does not act on its answer.
EndSeen_NotNoticed == FALSE
\* An answer of the poller of the panel that ends the run of the page.
EndSeen == SaysStopped /\ isRunning

PollAnswered ==
    /\ Answered("poll", "running?")
    /\ IF EndSeen
       THEN bid' = Nulled /\ isRunning' = FALSE /\ polling' = FALSE
       ELSE UNCHANGED <<bid, isRunning, polling>>
    /\ Return("poll")
    /\ UNCHANGED <<panel, header, lastRunning, engine, user>>

\* The poller of tauriClient, and the question it asks when it connects.
BackAnswered ==
    /\ Answered("back", "running?")
    /\ IF SaysStopped /\ lastRunning THEN OnPublishingStopped
                                     ELSE UNCHANGED <<bid, run>>
    /\ lastRunning' = IF Ok THEN SaysRunning ELSE lastRunning
    /\ Return("back")
    /\ UNCHANGED <<panel, engine, user>>
HelloAnswered ==
    /\ Answered("hello", "running?")
    /\ lastRunning' = IF Ok THEN SaysRunning ELSE lastRunning
    /\ Return("hello")
    /\ UNCHANGED <<panel, bid, run, engine, user>>

\* Mutant: the panel does not ask whether a run is on when it is loaded.
SyncedRun_Never == isRunning
SyncedRun == isRunning \/ SaysRunning
\* init(): a page that is loaded during a run shows it.
LoadAnswered ==
    /\ Answered("load", "running?")
    /\ isRunning' = SyncedRun
    /\ polling' = (polling \/ SyncedRun)
    /\ Return("load")
    /\ UNCHANGED <<panel, bid, header, lastRunning, engine, user>>

\* Calls of a page that is gone: nobody waits for the answer.
NobodyWaits ==
    /\ calls # <<>> /\ Head(calls).by = "gone" /\ Head(calls).res # "none"
    /\ calls' = Tail(calls)
    /\ UNCHANGED <<panel, bid, run, lastRunning, task, engine, user>>

-----------------------------------------------------------------------------
(* What the user, the timers and the connection do.                        *)

Begin(t, cmd, viaHeader) ==
    /\ task[t].at = "idle"
    /\ task' = [task EXCEPT ![t] = [Idle EXCEPT !.at = cmd, !.viaHeader = viaHeader]]
    /\ calls' = Append(calls, NewCall(t, cmd, 0))

\* addPublisher(), and removal by its card or by the configuration page.
AddPublisher ==
    /\ ~isRunning /\ nextLid <= MaxLid
    /\ list' = Append(list, nextLid) /\ nextLid' = nextLid + 1
    /\ disturbed' = (disturbed \/ Starting # {})
    /\ UNCHANGED <<bid, run, lastRunning, task, calls, engine,
                   events, dropped, fresh>>

RemovePublisher(idx) ==
    /\ ~isRunning
    /\ list' = RemoveAt(list, idx)
    /\ disturbed' = (disturbed \/ Starting # {})
    /\ UNCHANGED <<bid, nextLid, run, lastRunning, task, calls, engine,
                   events, dropped, fresh>>

\* Start of the header and Ctrl+Enter: startAll() tests _isRunning and sets
\* it only when the last of its calls has been answered.
Start(viaHeader) ==
    /\ events < MaxEvents /\ Starting # Starters
    /\ IF viaHeader THEN ~header ELSE ~isRunning
    /\ ~isRunning /\ list # <<>>
    /\ Begin(CHOOSE s \in Starters \ Starting : TRUE, "open", viaHeader)
    /\ events' = events + 1 /\ fresh' = FALSE
    /\ disturbed' = (Starting # {} \/ (disturbed /\ (engine.running \/ calls # <<>>)))
    /\ UNCHANGED <<panel, bid, run, lastRunning, engine, dropped>>

\* Start of the header with nothing to start: the header shows a run.
StartRefused ==
    /\ ~header /\ (isRunning \/ list = <<>>)
    /\ header' = TRUE
    /\ UNCHANGED <<panel, bid, isRunning, polling, lastRunning, task, calls, engine, user>>

\* Stop of the header and Escape: the poller is stopped first.
Stop(viaHeader) ==
    /\ isRunning /\ (viaHeader => header)
    /\ Begin("stop", "stop", viaHeader)
    /\ polling' = FALSE
    /\ UNCHANGED <<panel, bid, isRunning, header, lastRunning, engine, user>>

\* handleReset(): the backend first, then the page is loaded anew.
Reset ==
    /\ events < MaxEvents
    /\ Begin("reset", "reset", TRUE)
    /\ events' = events + 1
    /\ UNCHANGED <<panel, bid, run, lastRunning, engine, dropped, disturbed, fresh>>
ResetBackend ==
    /\ Answered("reset", "reset")
    /\ Await("reset", "close", 0, 0, 0)
    /\ UNCHANGED <<panel, bid, run, lastRunning, engine, user>>
\* The page is loaded: what was sent reaches the backend, and nobody waits for
\* the answers.
Loads(sent) ==
    /\ list' = <<>> /\ nextLid' = 1
    /\ bid' = [l \in Lids |-> 0]
    /\ isRunning' = FALSE /\ polling' = FALSE /\ header' = FALSE
    /\ lastRunning' = FALSE
    /\ task' = [[t \in Tasks |-> Idle]
                    EXCEPT !["load"].at = "running?", !["hello"].at = "running?"]
    /\ calls' = [k \in DOMAIN sent |-> [sent[k] EXCEPT !.by = "gone"]]
                \o <<NewCall("load", "running?", 0), NewCall("hello", "running?", 0)>>
    /\ disturbed' = TRUE
    /\ UNCHANGED <<engine, dropped>>
\* Of three starts in flight one may have opened the interface again, one
\* have configured and one start: Reset is not followed up then.
ResetReloads ==
    /\ Answered("reset", "close")
    /\ Loads(Tail(calls))
    /\ fresh' = (\A a, b, c \in Starting : a = b \/ b = c \/ a = c)
    /\ UNCHANGED events
\* The user loads the page anew, for example during a run.
Reload ==
    /\ events < MaxEvents
    /\ Loads(calls)
    /\ events' = events + 1 /\ fresh' = FALSE

\* The timers: 1500 ms while the panel watches a run, 250 ms of tauriClient,
\* 500 ms of the header.
PollTick ==
    /\ polling
    /\ Begin("poll", "running?", FALSE)
    /\ UNCHANGED <<panel, bid, run, lastRunning, engine, user>>
BackTick ==
    /\ Len(calls) < MaxTicks
    /\ Begin("back", "running?", FALSE)
    /\ UNCHANGED <<panel, bid, run, lastRunning, engine, user>>
HeaderTick ==
    /\ header # isRunning /\ header' = isRunning
    /\ UNCHANGED <<panel, bid, isRunning, polling, lastRunning, task, calls, engine, user>>

\* onclose: every call that waits fails, executed or not.
Drop ==
    /\ events < MaxEvents /\ calls # <<>> /\ task["hello"].at = "idle"
    /\ calls' = Append([k \in DOMAIN calls |-> [calls[k] EXCEPT !.res = "rejected"]],
                       NewCall("hello", "running?", 0))
    /\ task' = [task EXCEPT !["hello"].at = "running?"]
    /\ dropped' = TRUE /\ events' = events + 1
    /\ UNCHANGED <<panel, bid, run, lastRunning, engine, disturbed, fresh>>

Handlers ==
    \/ \E s \in Starters : StartStep(s)
    \/ StopAnswered \/ StopDone \/ PollAnswered \/ BackAnswered
    \/ HelloAnswered \/ LoadAnswered \/ ResetBackend \/ ResetReloads \/ NobodyWaits
UserActs ==
    \/ AddPublisher \/ \E idx \in DOMAIN list : RemovePublisher(idx)
    \/ \E h \in BOOLEAN : Start(h)
    \/ StartRefused \/ \E h \in BOOLEAN : Stop(h)
    \/ Reset \/ Reload
Timers == PollTick \/ BackTick \/ HeaderTick
Next == Execute \/ EngineEnds \/ Handlers \/ UserActs \/ Timers \/ Drop

Spec == Init /\ [][Next]_vars
\* The backend works, answers arrive, and the intervals of the page fire.
FairSpec ==
    /\ Spec
    /\ WF_vars(Execute) /\ WF_vars(Handlers)
    /\ WF_vars(PollTick) /\ WF_vars(HeaderTick)

-----------------------------------------------------------------------------
TypeOK ==
    /\ list \in Seq(Lids) /\ bid \in [Lids -> {0} \union Ids]
    /\ nextLid \in 1 .. MaxLid + 1
    /\ {isRunning, polling, header, lastRunning, disturbed, fresh, dropped} \subseteq BOOLEAN
    /\ \A t \in Tasks : /\ task[t].at \in Labels
                        /\ task[t].pub \in {0} \union Lids
    /\ \A k \in DOMAIN calls : /\ calls[k].by \in Tasks \union {"gone"}
                               /\ calls[k].cmd \in Labels \ {"idle", "rollback"}
                               /\ calls[k].res \in {"none", "ok", "rejected"}
    /\ engine.conf \subseteq engine.pubs /\ engine.pubs \subseteq Ids
    /\ engine.goose \subseteq {0} \union Ids

\* The page and the engine agree, however many calls of startAll() interleave.
\* No two publishers of the page are the same publisher of the backend.  A page
\* that shows a run watches for its end (startStatusPoll()), except while Stop
\* is on its way.  What is transmitted is what the page lists, publisher by
\* publisher, if Start met no other start and no edit of the list and no call
\* was lost.  And after Reset ("This stops publishing and clears ALL
\* publishers") no run is left; GOOSE schedulers may be.
IdsNotShared ==
    \A a, b \in Lids : a # b /\ bid[a] # 0 => bid[a] # bid[b]
RunIsWatched == isRunning => polling \/ task["stop"].at # "idle"
RunIsTheList ==
    isRunning /\ engine.running /\ ~disturbed /\ ~dropped /\ Starting = {}
        /\ task["stop"].at = "idle"
    => engine.live = {bid[l] : l \in Listed}
ResetEndsTheRun == fresh /\ calls = <<>> /\ ~dropped => ~engine.running
PageAndEngineAgree ==
    TypeOK /\ IdsNotShared /\ RunIsWatched /\ RunIsTheList /\ ResetEndsTheRun

\* When Stop returns nothing transmits, unless a start is on its way or a
\* call was lost.
StopSilences ==
    [][task["stop"].at # "idle" /\ task'["stop"].at = "idle" /\ calls' = Tail(calls)
           /\ Starting = {} /\ ~dropped /\ task["reset"].at = "idle"
       => ~engine.running /\ engine.goose = {}]_vars

\* A run that has ended is noticed: duration elapsed, or ended by a call
\* whose answer was lost.
EndIsNoticed == (isRunning /\ ~engine.running) ~> (engine.running \/ ~isRunning)

\* A run that was started is shown, if no call is lost.
RunIsShown ==
    (engine.running /\ ~isRunning /\ ~dropped)
        ~> (isRunning \/ ~engine.running \/ dropped)
=============================================================================
