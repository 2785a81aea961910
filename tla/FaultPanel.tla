------------------------------ MODULE FaultPanel ------------------------------
(***************************************************************************)
(* The fault injection panel and the statistics panel of the page, with    *)
(* the poller that feeds them (FaultInjectionPanel.js, Statistics.js and   *)
(* tauriClient.js), against the fault injector of the backend.             *)
(*                                                                         *)
(* Each handler waits for one call at a time, so a call carries what is    *)
(* done with its answer.  The backend executes calls in order and answers  *)
(* them in order.  A lost connection fails every call under way, executed  *)
(* or not, and is back before the next call (BackendClient has the queue). *)
(***************************************************************************)
EXTENDS Naturals, Sequences, FiniteSets

CONSTANTS
    Profiles,          \* what the sliders may say, besides "none"
    MaxCount,          \* bound: faults and frames counted
    MaxTicks,          \* bound: polls of tauriClient under way together
    MaxCalls,          \* bound: calls under way when the user acts
    MaxEvents          \* bound: what the user and the connection do

ASSUME FaultPanelAssumption ==
    /\ "none" \notin Profiles
    /\ {MaxCount, MaxTicks, MaxCalls, MaxEvents} \subseteq Nat

VARIABLES
    box,               \* "Enable Fault Injection" and with it the banner
    form,              \* the sliders
    stored,            \* config.faultInjection of the store
    timer,             \* _statsTimer is set
    shownHits,         \* Live Stats of the panel
    shownSent,         \* packets sent, of the statistics panel
    isRunning,         \* _isRunning of the publisher panel
    lastRunning,       \* _lastRunning of tauriClient
    calls,             \* calls made and not yet answered, oldest first
    engine,            \* the backend
    events,            \* how many of those there were
    history            \* what happened that the properties are about

fault == <<box, form, stored, timer, shownHits>>
run == <<isRunning, lastRunning>>
vars == <<fault, shownSent, run, calls, engine, events, history>>

Kinds == Profiles \union {"none"}
Configs == [on : BOOLEAN, kind : Kinds]
Off == [on |-> FALSE, kind |-> "none"]
\* readUiConfig()
UiConfig == [on |-> box, kind |-> form]
Effect(c) == IF c.on THEN c.kind ELSE "none"

NewCall(cmd, arg, then) ==
    [cmd |-> cmd, arg |-> arg, then |-> then, res |-> "none", value |-> 0]
Plain(cmd, then) == NewCall(cmd, Off, then)
UnderWay(thens) == {k \in DOMAIN calls : calls[k].then \in thens}
Awaited == {"applied", "resetApplied", "resetDone"}
Quiet == calls = <<>>

Init ==
    /\ box = FALSE /\ form = "none" /\ stored = Off /\ timer = FALSE
    /\ shownHits = 0 /\ shownSent = 0
    /\ isRunning = FALSE /\ lastRunning = FALSE
    /\ calls = <<>>
    /\ engine = [faults |-> Off, hits |-> 0, running |-> FALSE, sent |-> 0]
    /\ events = 0
    /\ history = [lost |-> FALSE, fiddled |-> FALSE, zeroed |-> FALSE, leftover |-> FALSE]

-----------------------------------------------------------------------------
(* The backend.                                                            *)

\* stopAll() switches the injector off.
Disarmed(e) == [e EXCEPT !.faults = Off, !.hits = 0]

After(c) ==
    CASE c.cmd = "configure"  -> [engine EXCEPT !.faults = c.arg]
      [] c.cmd = "resetHits"  -> [engine EXCEPT !.hits = 0]
      [] c.cmd = "resetStats" -> [engine EXCEPT !.sent = 0]
      [] c.cmd = "start"      -> [engine EXCEPT !.running = TRUE, !.sent = 0]
      [] c.cmd = "stop"       -> Disarmed([engine EXCEPT !.running = FALSE])
      [] OTHER                -> engine

Value(c) ==
    CASE c.cmd = "hits?"    -> engine.hits
      [] c.cmd = "stats?"   -> engine.sent
      [] c.cmd = "running?" -> IF engine.running THEN 1 ELSE 0
      [] OTHER              -> 0

Refused(c) == c.cmd = "start" /\ engine.running

Unexecuted == {k \in DOMAIN calls : calls[k].res = "none"}
Execute ==
    \E k \in Unexecuted :
        /\ \A j \in Unexecuted : k <= j
        /\ engine' = IF Refused(calls[k]) THEN engine ELSE After(calls[k])
        /\ calls' = [calls EXCEPT ![k].res = IF Refused(calls[k]) THEN "error" ELSE "ok",
                                  ![k].value = Value(calls[k])]
        /\ history' = [history EXCEPT !.leftover =
                         @ /\ ~engine'.running /\ Effect(engine'.faults) # "none"]
        /\ UNCHANGED <<fault, shownSent, run, events>>

\* The writer thread sends a frame, and a fault is counted if it is armed.
WriterSends ==
    /\ engine.running
    /\ \/ engine.sent < MaxCount /\ engine' = [engine EXCEPT !.sent = @ + 1]
       \/ /\ engine.hits < MaxCount /\ Effect(engine.faults) # "none"
          /\ engine' = [engine EXCEPT !.hits = @ + 1]
    /\ UNCHANGED <<fault, shownSent, run, calls, events, history>>

\* A run of limited duration ends by itself and leaves the injector alone.
EngineEnds ==
    /\ engine.running
    /\ engine' = [engine EXCEPT !.running = FALSE]
    /\ history' = [history EXCEPT !.leftover = lastRunning /\ Effect(engine.faults) # "none"]
    /\ UNCHANGED <<fault, shownSent, run, calls, events>>

-----------------------------------------------------------------------------
(* Answers.                                                                *)

Answered(then) == calls # <<>> /\ Head(calls).then = then /\ Head(calls).res # "none"
Ok == Head(calls).res = "ok"
Result == Head(calls).value

\* Mutant: the panel unticks its box and tells the backend nothing.
ListenerCalls_None == <<>>
\* The listener's applyConfig() is not awaited.
ListenerCalls == <<NewCall("configure", [UiConfig EXCEPT !.on = FALSE], "ignored")>>

TimerAfterStop == FALSE

\* The listeners of 'publishingStopped': both panels, and the publisher panel.
PublishingStopped ==
    /\ box' = FALSE /\ timer' = TimerAfterStop
    /\ stored' = [UiConfig EXCEPT !.on = FALSE]
    /\ shownSent' = 0 /\ isRunning' = FALSE
    /\ UNCHANGED <<form, shownHits>>

\* The Apply button: by the box as it is when the answer comes.
Applied ==
    /\ Answered("applied")
    /\ timer' = box
    /\ calls' = Tail(calls)
    /\ UNCHANGED <<box, form, stored, shownHits, shownSent, run, engine, events, history>>

\* resetAll(): faults off, then counters to 0; a failed call is ignored.
ResetApplied ==
    /\ Answered("resetApplied")
    /\ calls' = Append(Tail(calls), Plain("resetHits", "resetDone"))
    /\ UNCHANGED <<fault, shownSent, run, engine, events, history>>

HitsAfterReset == IF Ok THEN 0 ELSE shownHits
ResetDone ==
    /\ Answered("resetDone")
    /\ shownHits' = HitsAfterReset
    /\ timer' = FALSE
    /\ calls' = Tail(calls)
    /\ UNCHANGED <<box, form, stored, shownSent, run, engine, events, history>>

HitsShown(n) == n
\* pollStats() of the panel.
HitsAnswered ==
    /\ Answered("hits")
    /\ shownHits' = IF Ok THEN HitsShown(Result) ELSE shownHits
    /\ calls' = Tail(calls)
    /\ UNCHANGED <<box, form, stored, timer, shownSent, run, engine, events, history>>

Started ==
    /\ Answered("started")
    /\ isRunning' = (isRunning \/ Ok)
    /\ calls' = Tail(calls)
    /\ UNCHANGED <<fault, shownSent, lastRunning, engine, events, history>>

\* mpStopAll() tells the listeners once it has succeeded.
Stopped ==
    /\ Answered("stopped")
    /\ IF Ok
       THEN PublishingStopped /\ calls' = Tail(calls) \o ListenerCalls
       ELSE isRunning' = FALSE /\ calls' = Tail(calls) /\ UNCHANGED <<fault, shownSent>>
    /\ UNCHANGED <<lastRunning, engine, events, history>>

\* Mutant: the poller tells nobody that the run is over.
SawEnd_Never == FALSE
SawEnd == Ok /\ Result = 0 /\ lastRunning

\* _pollBackend(): the state of the run, then the numbers.
PollAnswered ==
    /\ Answered("poll")
    /\ IF SawEnd THEN PublishingStopped ELSE UNCHANGED <<fault, shownSent, isRunning>>
    /\ lastRunning' = IF Ok THEN Result = 1 ELSE lastRunning
    /\ calls' = Tail(calls) \o (IF SawEnd THEN ListenerCalls ELSE <<>>)
                            \o (IF Ok THEN <<Plain("stats?", "numbers")>> ELSE <<>>)
    /\ UNCHANGED <<engine, events, history>>

\* Mutant: a number smaller than the one shown is taken for a late answer.
Numbers_Growing(n) == IF n > shownSent THEN n ELSE shownSent
\* updateStatsDisplay() shows what it is given.
Numbers(n) == n

NumbersAnswered ==
    /\ Answered("numbers")
    /\ shownSent' = IF Ok THEN Numbers(Result) ELSE shownSent
    /\ calls' = Tail(calls)
    /\ UNCHANGED <<fault, run, engine, events, history>>

\* The question asked on a new connection: no edge is told.
HelloAnswered ==
    /\ Answered("hello")
    /\ lastRunning' = IF Ok THEN Result = 1 ELSE lastRunning
    /\ calls' = Tail(calls)
    /\ UNCHANGED <<fault, shownSent, isRunning, engine, events, history>>

Ignored ==
    /\ Answered("ignored")
    /\ calls' = Tail(calls)
    /\ UNCHANGED <<fault, shownSent, run, engine, events, history>>

-----------------------------------------------------------------------------
(* The user, the timers and the connection.                                *)

Event ==
    /\ events < MaxEvents /\ Len(calls) < MaxCalls
    /\ events' = events + 1

\* What changes the box while a handler that will look at it waits.
Fiddles == history' = [history EXCEPT !.fiddled = @ \/ UnderWay(Awaited) # {}]

Tick ==
    /\ Event /\ Fiddles
    /\ box' = ~box
    /\ UNCHANGED <<form, stored, timer, shownHits, shownSent, run, calls, engine>>

\* A preset fills the form and ticks the box; nothing is applied.
Preset(p) ==
    /\ Event /\ Fiddles
    /\ box' = TRUE /\ form' = p
    /\ UNCHANGED <<stored, timer, shownHits, shownSent, run, calls, engine>>

Slide(k) ==
    /\ Event /\ k # form
    /\ form' = k
    /\ UNCHANGED <<box, stored, timer, shownHits, shownSent, run, calls, engine, history>>

\* applyConfig(): the store first, then the backend.
Apply ==
    /\ Event
    /\ stored' = UiConfig
    /\ calls' = Append(calls, NewCall("configure", UiConfig, "applied"))
    /\ history' = [history EXCEPT !.zeroed = FALSE, !.leftover = FALSE,
                                  !.lost = @ /\ ~Quiet,
                                  !.fiddled = @ /\ UnderWay(Awaited) # {}]
    /\ UNCHANGED <<box, form, timer, shownHits, shownSent, run, engine>>

ResetAll ==
    /\ Event
    /\ box' = FALSE /\ form' = "none" /\ stored' = Off
    /\ calls' = Append(calls, NewCall("configure", Off, "resetApplied"))
    /\ history' = [history EXCEPT !.zeroed = TRUE, !.leftover = FALSE,
                                  !.lost = @ /\ ~Quiet,
                                  !.fiddled = @ /\ UnderWay(Awaited) # {}]
    /\ UNCHANGED <<timer, shownHits, shownSent, run, engine>>

\* handleResetClick() of the statistics panel: the display at once.
ResetStats ==
    /\ Event
    /\ shownSent' = 0
    /\ calls' = Append(calls, Plain("resetStats", "ignored"))
    /\ UNCHANGED <<fault, run, engine, history>>

\* Start and Stop of PublisherPanel, each as its last and first call.
Start ==
    /\ Event /\ ~isRunning /\ UnderWay({"started"}) = {}
    /\ calls' = Append(calls, Plain("start", "started"))
    /\ UNCHANGED <<fault, shownSent, run, engine, history>>
Stop ==
    /\ Event /\ isRunning /\ UnderWay({"stopped"}) = {}
    /\ calls' = Append(calls, Plain("stop", "stopped"))
    /\ UNCHANGED <<fault, shownSent, run, engine, history>>

\* The publisher panel's own poller.
PanelNotices ==
    /\ isRunning /\ ~engine.running
    /\ isRunning' = FALSE
    /\ UNCHANGED <<fault, shownSent, lastRunning, calls, engine, events, history>>

\* setInterval() would not wait for the answers of the tick before: how many
\* questions are under way is a bound (one of the panel, MaxTicks of tauriClient).
FaultTick ==
    /\ timer /\ UnderWay({"hits"}) = {}
    /\ calls' = Append(calls, Plain("hits?", "hits"))
    /\ UNCHANGED <<fault, shownSent, run, engine, events, history>>
BackTick ==
    /\ Cardinality(UnderWay({"poll", "numbers"})) < MaxTicks
    /\ calls' = Append(calls, Plain("running?", "poll"))
    /\ UNCHANGED <<fault, shownSent, run, engine, events, history>>

\* onclose.
Drop ==
    /\ Event /\ UnderWay({"hello"}) = {}
    /\ calls' = Append([k \in DOMAIN calls |-> [calls[k] EXCEPT !.res = "error"]],
                       Plain("running?", "hello"))
    /\ history' = [history EXCEPT !.lost = TRUE]
    /\ UNCHANGED <<fault, shownSent, run, engine>>

\* The page is loaded anew: the store is not persistent, what was sent
\* reaches the backend, and the publisher panel shows the run.
Reload ==
    /\ Event /\ UnderWay({"hello"}) = {}
    /\ box' = FALSE /\ form' = "none" /\ stored' = Off /\ timer' = FALSE
    /\ shownHits' = 0 /\ shownSent' = 0
    /\ lastRunning' = FALSE /\ isRunning' = engine.running
    /\ calls' = Append([k \in DOMAIN calls |-> [calls[k] EXCEPT !.then = "ignored"]],
                       Plain("running?", "hello"))
    /\ history' = [history EXCEPT !.lost = TRUE, !.fiddled = FALSE, !.zeroed = FALSE]
    /\ UNCHANGED engine

Handlers ==
    \/ Applied \/ ResetApplied \/ ResetDone \/ HitsAnswered \/ Started \/ Stopped
    \/ PollAnswered \/ NumbersAnswered \/ HelloAnswered \/ Ignored
UserActs ==
    \/ Tick \/ \E p \in Profiles : Preset(p)
    \/ \E k \in Kinds : Slide(k)
    \/ Apply \/ ResetAll \/ ResetStats \/ Start \/ Stop \/ Reload
Next ==
    \/ Execute \/ WriterSends \/ EngineEnds \/ Handlers \/ UserActs
    \/ PanelNotices \/ FaultTick \/ BackTick \/ Drop

Spec == Init /\ [][Next]_vars
\* The backend works, answers arrive, and the 250 ms interval fires.
FairSpec == Spec /\ WF_vars(Execute) /\ WF_vars(Handlers) /\ WF_vars(BackTick)

-----------------------------------------------------------------------------
TypeOK ==
    /\ {box, timer, isRunning, lastRunning} \subseteq BOOLEAN
    /\ form \in Kinds /\ stored \in Configs
    /\ shownHits \in 0 .. MaxCount /\ shownSent \in 0 .. MaxCount
    /\ engine \in [faults : Configs, hits : 0 .. MaxCount,
                   running : BOOLEAN, sent : 0 .. MaxCount]
    /\ \A k \in DOMAIN calls : calls[k].res \in {"none", "ok", "error"}
    /\ history \in [lost : BOOLEAN, fiddled : BOOLEAN,
                    zeroed : BOOLEAN, leftover : BOOLEAN]

(* At rest the injector does what the store says, however Apply, Reset, a   *)
(* stop and the end of a run were interleaved: "store.config.faultInjection *)
(* as the durable source of truth".  A lost connection or a reload breaks   *)
(* it until the next Apply.                                                 *)
StoredIsInForce ==
    Quiet /\ ~history.lost => Effect(engine.faults) = Effect(stored)

(* Once no Apply or Reset is under way the panel polls exactly while the    *)
(* applied configuration is on, provided the box was left alone meanwhile.  *)
PollFollowsStore ==
    UnderWay(Awaited) = {} /\ ~history.fiddled => (timer <=> stored.on)

(* After "Reset All to 0" the counters shown are 0 and stay so until the    *)
(* next Apply: a count under way does not come back.                        *)
ResetShowsZero ==
    Quiet /\ history.zeroed /\ ~history.lost => shownHits = 0

(* Panel, store and injector agree at rest, in these three respects.        *)
PanelAndInjectorAgree ==
    TypeOK /\ StoredIsInForce /\ PollFollowsStore /\ ResetShowsZero

(* Faults do not outlive a run that ended by itself: the poller notices and *)
(* the panel disarms the backend, unless the user arms it anew, starts      *)
(* again, or the connection is lost.                                        *)
FaultsEndWithRun == history.leftover ~> (~history.leftover \/ history.lost)

(* A packet count that is too large, of the run before or from before a     *)
(* reset, does not stay on the display.                                     *)
NumbersCatchUp == shownSent > engine.sent ~> shownSent <= engine.sent
=============================================================================
