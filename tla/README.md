# Verification of the IEC 61850 publisher

TLA+ models of the publisher in `src/`, checked with TLC and, where the result
should hold for every instance, proved with TLAPS. This file says what the
system consists of, which module models which part of it, what every run and
every theorem shows, and what is left out.

All paths below are relative to the repository (`src/` is left out of them
where the file name is unique).

    tlc -workers 2 -config GooseTx.cfg MCGooseTx.tla      # any run of section 4
    tlapm PublisherController_proofs.tla                  # any proof module

## 1. The system

The program publishes IEC 61850 Sampled Values (SV) and GOOSE frames on an
Ethernet interface. A C++ core (`native/`) owns streams, schedule, threads and
the raw socket. Three programs contain it:

  * the desktop application: `src-tauri/` starts the core and shows the pages of
    `web/`, which command the core over a WebSocket (`PubWsServer`);
  * the headless service (`service/main.cpp`): the same WebSocket server without
    a window;
  * any simulator that links the *substation kit* (`substation_kit/`), which
    calls the core directly and feeds it values from many threads.

```
 web/js (one thread, async)            simulator threads      host thread
   MultiPublisher  tauriClient              | submit..()        | init/shutdown
        | call()/await  ^ reply             v                   v
        v  WebSocket    |              [ MPMC queue ]  --> ingest worker
   PubWsServer event loop  (one)            |  setLiveValue()   | SpscBridge::push
        | direct calls                      v                   v
   PublisherController --owns--> SvPublisherInstance      SpscBridge (per stream)
        | startAll: SharedBuffer (borrowed pointers)            | sampleAt()
        v                                                       v
   writer thread ------ batches ------> PcapTx <----- GOOSE scheduler thread(s)
                                       (raw socket)
```

### 1.1 Inventory

For each component: the state it keeps, its operations, whom it meets, what is
hard about it, and what makes it correct.

**PublisherController** (`native/src/PublisherController.cc`). State: the map of
publishers and `m_nextId` under `m_mutex`; `m_sharedBuffer`; `m_running`,
`m_writerThread`; duration and repeat settings; counters. Operations: add,
remove, remove all, configure, set duration, start, stop, reset, queries. The
writer thread never takes the mutex; what keeps its memory valid is the order of
flag, join and clears. Hard: end of run racing commands, a command in the gap
between the unlocked test of `m_running` and the lock, settings changed under
the writer. Correct if the writer uses no freed memory, a thread object is never
overwritten, `m_running` tells the truth, a run lasts as long as was asked, ids
are not reused, stop returns.

**SharedBuffer** (`SharedBuffer.cc`). State: slots of borrowed frame pointers
with their times. Operations: build, clear. Built by `startAll()`, walked by the
writer. Correct if it is immutable during a run, orders the slots by time and
gives every publisher its rate.

**SvPublisherInstance** (`sv_publisher_instance.cc`). State: configuration,
prebuilt frames, live values, source mode, state (idle, configured, ready,
failed). Operations: configure, prebuild, setLiveValue, re-encode. Shares one
global encoder configuration with every other instance. Hard: configured during
a run; live values written by one thread and read by another.

**GOOSE transmit** (`GooseService.cc`, `GooseTxScheduler.cc`). State: per stream
a configuration and at most one scheduler; per scheduler its thread, stNum,
sqNum, the retransmission interval and the cached Boolean. Operations:
configure, start, stop, stop all. Hard: a change during a long wait, the ramp
and its cap, stop while the thread sleeps, a second scheduler for one stream.
Correct if changes go out at once, the heartbeat is kept, numbering orders what
subscribers see and nothing is sent after stop has returned.

**SpscBridge** (`SpscBridge.cc`). State: per stream an inbound and an outbound
ring and the last value. Operations: register, unregister, push, sampleAt, pop.
Hard: the rings drop the newest message when full; they are built for one
producer and one consumer; registration is not synchronised with use.

**Live value ingest of the kit** (`substation_kit/src/SubstationKit.cc:185-275`).
State: `g_ingestRunning`, the queue, the worker. Operations: init, shutdown,
submitMagnitude, submitBoolean, reset. Hard: submitters racing shutdown, the last
values, publishers removed while the worker holds a pointer to one. Correct if no
thread uses the queue or a publisher after it is gone, and nothing that was
accepted is lost, reordered or shown by another publisher.

**Substation kit facade** (rest of `SubstationKit.cc`). Forwards to the functions
above.

**PubWsServer** (`PubWsServer.cc`). State: the event loop thread, the port.
Operations: start (with a scan for a free port), stop, about sixty commands. One
thread executes them in order, so a command that blocks (`mp_stop_all` joins the
writer) blocks all. Hard: probe and bind are two steps.

**Headless service** (`service/main.cpp`). Starts the server, waits for a signal,
returns from `main()` while the detached event loop thread lives on. Hard: static
destructors beside that thread.

**Backend client of the page** (`web/js/utils/tauriClient.js`). State: the
socket, `_pending` (calls by command name), `_queueOnConnect`. Operations: call,
onopen, onmessage, onclose, timeout, setBackend. Hard: replies carry only the
command name; timeouts, lost and refused connections. Correct if no caller hangs,
no command runs twice, commands keep their order, and a reply reaches its caller.

**Publisher panel** (`MultiPublisher.js`, `globalPublishControls.js`,
`keyboardShortcuts.js`). State: the list of publishers with their back-end ids,
`_isRunning`, the poll timer, what the header shows. Operations: start all, stop
all, reset, poll, `publishingStopped`, edits of the list. Hard: each operation
awaits a dozen commands between its test of `_isRunning` and its assignment; a
command may fail in the middle; two pollers have their own idea of what ran
last. Correct if what is transmitted is what is listed, Stop silences everything,
and the page learns of the start and the end of a run.

**Store and channel model of the page** (`web/js/store`, `web/shared`,
`StandardSelector.js`, `StreamSettings.js`, `configManager.js`). State:
the standard, frequency, samples per cycle and rate, ASDUs, the pool of channels
with their equations, the channels selected for the frame, the stream under
inspection. Operations: every setter, resets, presets, files, batches and
notifications. Hard: derived fields have three writers; every panel refreshes on
paths of its own; a switch of standard replaces the pool under the selection.

**Stream lists** (`MultiPublisher.js`, `StreamConfigPage.js`). State: for each
stream its own list of channels. Hard: resized, reordered and swapped by four
handlers while the pool changes. Correct if Start always hands the back end a
legal frame of the channels the stream lists.

**Equation editor and data source** (`embeddedMathEditor.js`,
`expressionConverter.js`, `ChannelsDisplay.js`, `DataSource.js`). State: the
editor's session and screen, hidden inputs, the table, the capture. Hard: the
editor is thrown away and redrawn by notifications of its own writes; uploads are
answered in any order. Correct if the button does what the label says and every
mirror of an equation is the equation.

**Frame viewer** (`FrameViewer.js`, `dragManager.js`). State: the tree and its
open nodes, edit mode, the dump and its source, two kinds of drag. Hard: the tree
is patched in place and drawn anew by turns; the real frame arrives after an
await. Correct if the patched tree is the tree drawn anew, the dump is what its
label says, and the bytes a node points at are its bytes.

**Page layout** (`web/js/plugins`, `resizableColumns.js`,
`channelColumnPicker.js`). State: the nodes of two columns and their pop-outs,
the widths, two side bars, `localStorage`. Hard: five plugins move the same nodes
and restore each other's state. Correct if no panel is lost or doubled, the window
is never blank and what was chosen comes back.

**Fault panel and statistics** (`FaultInjectionPanel.js`, `Statistics.js`). State:
the form, the applied configuration, two pollers, the numbers shown. Hard: Apply,
Reset and the end of a run change the injector from handlers that do not wait for
one another. Correct if the injector does what the store says and faults do not
outlive a run.

**Native parts without a module**: **PcapTx** (`PcapTx.cc`), **deadline pacer,
duration manager, statistics** (`deadline_pacer.h`, `duration_manager.h`,
`stats_manager.h`, `SvStats.cc`), **fault injector** (`fault_injector.cc`),
**GOOSE receive** (`GooseReceiver.cc`), **SV, GOOSE and BER encoders**
(`SvEncoder.cc`, `GooseEncoder.cc`, `asn1_ber_encoder.cc`; the bytes of an SV
frame are in `SvFrame`), **equation processor** (`equation_processor.cc`), **CID
export** (`cid_generator.cc`). Also without one: the **Tauri shell and build**
(`src-tauri/`, `scripts/`), the **parameter forms** and the **page shell**, the
**second WebSocket client** (`wsClient.js`, imported nowhere), the **generic
reactive state** (`createState.js`, imported nowhere) and the **legacy command
server** (`service/src/ws_server.cc`, built nowhere).

`PROJECT.json` lists each of them with its sources and status, and the hazards
of the code at the line where they bite.

### 1.2 Threads

| thread | created by | runs | modelled in |
|---|---|---|---|
| event loop, or host main thread | `sv_pub_ws_start()` / the host | every command | PublisherController (`Clients`); `Execute` of BackendClient, PublisherPanel, FaultPanel |
| main thread at exit | the OS | `~PublisherController` | PublisherController (`Exiters`) |
| writer | `startAll()` | `writerLoopImmediate()` | PublisherController (`Writer`) |
| GOOSE scheduler | `sv_goose_start_tx()` | `loop()` | GooseTx (`Scheduler`) |
| value producer | the host | `SpscBridge::push()` | GooseTx (`Push`) |
| ingest worker | `init()` | `ingestWorkerLoop()` | LiveIngest (`Worker`) |
| simulator threads | the host | `submit..()` | LiveIngest (`Submit`) |
| page | the browser | handlers, each run to its next await | the eight modules of sections 3.4 to 3.10 |

## 2. The plan

Order of importance: first what can crash or hang the process that publishes,
then what the subscribers on the network see, then what the user is told.

| # | module | models | status |
|---|---|---|---|
| 1 | `PublisherController` | engine lifecycle, schedule ownership, writer | done, with proofs |
| 2 | `GooseTx`, `StateBroadcast` | GOOSE stream; the abstract broadcast it implements | done, with proofs |
| 3 | `LiveIngest` | value funnel of the kit | done, with proofs |
| 4 | `BackendClient` | WebSocket client of the page | done, with proofs |
| 5 | `PublisherPanel` | the panel's coroutines over the commands of the engine and of GOOSE | done, with proofs |
| 6 | `StreamSetup` over `ChannelStore` | the store of the page, its panels and the stream lists | done, with proofs |
| 7 | `FaultPanel` | fault and statistics panel against the injector | done, with proofs |
| 8 | `FrameView` over `SvFrame` | frame viewer; encoder and parser of a frame | done, with proofs |
| 9 | `EquationEditor` | equation editor, mirrors of an equation, captures | done, with proofs |
| 10 | `PageLayout` | columns, pop-outs, side bars, saved choices | done, with proofs |
| 11 | `SpscQueue` over `BoundedFifo` | ring with separate indices; with one producer it implements a bounded FIFO (to be proved), with two it does not | open |
| 12 | `GooseReceive` | receive thread, stream map, outbound ring | open |
| 13 | `FaultInjector` | decisions per packet, burst, duplicate, held packet; the writer's fault mode | open |
| 14 | `FrameSchedule` | `SharedBuffer` build: order, spacing, rate; against a reference definition | open |
| 15 | `EncoderBuffer` | frame sizes against buffers; the global configuration, writer and command thread | open |
| 16 | `BatchSend`, `Pacer`, `ServiceStart` | partial batches, re-anchoring of deadlines, probe and bind of the port | open |

Every safety property of a passing run has a theorem in section 5. Worth proving
next: the refinement of `BoundedFifo`, once row 11 is written.

No module uses RECURSIVE operators, so all of them can be proved about. Filters that
a proof has to look into (`Kept`, `Dropped`, `BaseOnly`) are functions on the lengths
of the prefixes, whose values the code's loop has one after the other.

## 3. The modules

The modules of the page share one reading of JavaScript: an action is one
callback run to its end, or to its next await, with every subscriber it notifies;
what the backend answers comes later, in the order of the calls.

### 3.1 PublisherController

A publisher is its id and the state of its frame cache; a schedule is the set of
publishers it borrows from. Which slot is next, how long a cycle is and where a
batch is cut is left open: every split the code can make is one of the model's.
Time is counted in seconds since the start of the cycle.

| model | code |
|---|---|
| `AddPublisher`, `RemovePublisher`, `RemoveAllPublishers`, `ConfigurePublisher`, `SetDuration`, `SetInterface` | one API command each; `MayRemove` is the test of `m_running`; add and configure have none |
| `StartCheck` .. `StartLaunch` | `startAll()`: unlocked checks; lock, `joinable()`, `join()`; prebuild and build; flag and thread |
| `StopBegin`, `ResetBegin` .. `StopClearPublishers` | `stopAll()`, `resetAll()`, the destructor: flag, join, schedule, publishers |
| `WSession` | the `while` of the repeat loop: start time, schedule size captured |
| `WCycle`, `WSlot`, `WFlush`, `WSleep` | a pass over the schedule: borrow a frame, send a batch, sleep |
| `WDecide`, `WEnd`, `WExit` | repeat or not; lower `m_running` if the duration is over; return |
| `Tick` | a second passes |

`strayAccess` records that the writer used a publisher or a schedule that was
not there any more; `crashed` a call of `std::terminate()`. `issued`, `sessions`
and `settled` are history the properties read.

Left out: the writer's fault mode (planned with the fault injector), counters,
`parallelWorkerLoop()` (dead: `tryParallelWriterPool()` always declines).

### 3.2 GooseTx and StateBroadcast

One stream from the value pushed into its ring to the frame. A message is its
index among those the ring accepted. First interval and heartbeat are any two
positive numbers, in either order: the service replaces zeros by defaults and
compares nothing. Numbers have no width: the code doubles the interval in 64 bits and caps
it, and only the life it announces (:72, in 32 bits) would wrap, from an interval of 25
days on. Time is in milliseconds and passes only while the scheduler sleeps; a sleep may
last `Jitter` longer than asked.

| model | code |
|---|---|
| `Push`, `Enqueue` | `SpscBridge::push()`: a full ring refuses |
| `ConfigureTx`, `StartTx` | `sv_goose_configure_tx()`, `sv_goose_start_tx()` (for a stream that runs it answers 0 and does nothing; the header comment announces -1) |
| `StopTx`, `StopJoin` | stop and stop all: out of the map, flag, join in the destructor |
| `Poll` | the top of `loop()`: `sampleAt()`, restart of the ramp or repetition |
| `Fire`, `Ramped` | `fire()` and the doubling of the interval |
| `WaitEnds`, `WaitPolls`, `Wake` | `waitOrChange()` in slices of a millisecond |
| `ToggleInterface` | the interface comes and goes: sends fail |

`StateBroadcast` is what a GOOSE publisher promises: frames are a sampling of the
states handed over that never goes back while a publisher lives; stNum grows with
every state shown, sqNum with every repetition; states may be skipped.
`GooseTx` implements it (`BroadcastSpec`) with `history` the accepted values and
`wire` the last frame the interface took.

### 3.3 LiveIngest

A submitter tests flag and pointer, claims a slot, fills it: three steps, as in
`try_push()` of the vendored queue, which is modelled by what it does. The worker
looks at the flag, takes, releases the slot, routes: look up the publisher (lock
released), then write the live value; or pass a Boolean on. The host has the
calls of the kit in their documented order. `Quiesce` and `TeardownInOrder` say
how much the host keeps to: that its submitters rest during `shutdown()`, and
that publishers are removed only after it (`substation_kit/README.md:72-76`).

### 3.4 BackendClient

A call is its number, a promise its outcome. `listed` and `pending` are the keys
and the lists of `_pending`, `outbox` is `_queueOnConnect`. `Opens` and
`OpensAndCalls` are `onopen` (listeners of `connect` run first), `Receive` is
`onmessage`, `OnClose` is `onclose`, whether of an attempt (`Fails`) or of a
connection (`Ends`). `Execute` is the event loop of the backend. When the list of a
command is there but empty, `onmessage` throws on the missing entry; that ends
the handler after the key was deleted and changes nothing else. `way` tells
whether a call was made by a listener ahead of the queue (`early`) or was in the
queue when a connection failed (`kept`).

### 3.5 PublisherPanel

`task` holds each handler at one of its awaits, `calls` the calls under way with
the handler that waits. Every handler is written from one await to the next: the
tests, rollbacks and `finally` parts of `startAll()` (`MultiPublisher.js:452-650`),
`stopAll()`, `resetAll()` and the status poll; Start, Stop and Reset of the header;
the poller of `tauriClient.js` with the edges it announces and the welcome after a
connect; Escape as Stop. Awaits that follow one another and change nothing else
are one. The engine is what these commands make of it: publishers, which are
configured, which transmit, GOOSE schedulers, whether a run is on. `disturbed`
says that a Start met another Start or an edit of the list.

### 3.6 ChannelStore and StreamSetup

`ChannelStore` is the store as operators on its state: standard, frequency,
samples per cycle, pool, selection, with batches and the paths a change is
announced on; `views` holds what each subscriber showed at its last refresh.
`StreamSetup` has the panels that write to it, the list of streams with their own
channel lists, their pages and drags, and Start, a coroutine of which `Starters`
bounds how many run at a time:

| model | code (`MultiPublisher.js`) |
|---|---|
| `StartAll` | `startAll()` from the test of `_isRunning` to its first await, with `storeChannels` taken (:460) |
| `ConfigureNext` | one turn of its loop: the stream's list, rate and frequency are read now (:505-524), the channels are those taken |
| `StartFails` | a call fails or there is no interface: it returns |
| `StartEnds` | the loop, which runs over the list as it is at each turn, has ended: `_isRunning` |

Between two of them any callback of the page may come. `conf` is the configuration
sent last; `limit`, `asked` and `typed` remember what held when Start was pressed.

An equation is the set of its sinusoids: the system frequency of one that is written
the way `updateEquationFrequency()` looks for, and `Otherwise` for one it leaves
alone (`AtFrequency`).
`Array.filter()` is `Kept`, which takes up one element after the other. The files
that can be opened are ones the page has saved (`FilesAssumption`): the page checks a
file for its fields, not for their values.

### 3.7 PageLayout

The page has two columns. `frameSidebar.js:123` sets the layout of two while the
page loads, whatever was saved, and the picker that could set another is hidden
(`style.css:5829-5830`); so the layout of three is passed through during loading and
never seen. The middle column is a host in the right one from then on (`Loaded`).

The document is the sequence of parts (tool bar, body, placeholder, host of the
middle column) of every column and floating panel; the plugins move parts about and
none is ever copied. Maximising, pop-out with its snap back, the side bars that push
the columns, the handle between the two with both clamps of a resize, the column
picker of the table and a reload, which runs the plugins in the order of their
imports over what `localStorage` kept (`prefs`: side bars, widths, columns of the
table). The code saves the ratio of the widths, the model the widths that have it.

### 3.8 EquationEditor

`session` holds the module variables of the editor, `screen` what it drew. A write
to the store runs its subscribers, and the editor is one of them: it forgets its
screen and draws another (`Redrawn`). A draft is its name part, shape and
magnitude; the conversion from LaTeX changes one shape into another, as the
code's does. Uploads and removals of a capture are calls answered in any order. The
specification is `EditorSpec`; no channel is called like a label of the page
(`NamesAssumption`: the labels have blanks, names have none).

### 3.9 SvFrame and FrameView

`SvFrame` writes the bytes of an SV frame as `SvEncoder.cc` does and as the viewer
makes them up, each byte with the field it belongs to, and has the viewer's
parser and the offsets of its tree. `FrameView` is the viewer over them: tree and
patches, edit mode, the fetch of a real frame across its await, the dump and its
label, rows, their drags and those of the drag manager. The specification is
`ViewSpec`; a name is a sequence of bytes, and "none" is no channel.

### 3.10 FaultPanel

A call carries what its handler does with the answer, since each handler waits
for one call at a time. The injector is on or off with a profile; the engine
counts packets and hits. Apply, the panel's Reset, the box and the form, both
pollers, the run edges, reload, a lost connection. `history` records what the properties
exclude or are about: a lost call, a box touched during Apply, counters that were
reset, faults left over from a run.

## 4. The runs

Ten runs pass:

| run | instance | shows |
|---|---|---|
| `controller` | 1 client thread, 2 publishers, durations 0 and 1, repeat counts 0 and 2 | WriterMemorySafe, RunningHasWriter, FullCourse; StopReturns, NaturalEnd |
| `goose_tx` | ring of 2, intervals 1, 2, 4 ms, jitter 1 ms, 3 messages, 2 schedulers | InTime, StoppedMeansSilent, BroadcastSpec; StopReturns, NewestIsShown |
| `ingest` | a magnitude and a Boolean submitter, queue of 2, 2 values each, 2 lives of the worker, 2 publishers | MemorySafe, FunnelKeepsAll, StoreMovesForward; ShutdownReturns, AcceptedIsRouted |
| `client` | 3 calls of 2 commands, timeouts, lost and refused connections, another backend, a listener that calls | WaitingAreListed, ExecutedOnceInOrder, RightPromise; CallersDoNotHang |
| `panel` | 2 publishers, one of them GOOSE, 2 disturbances (Start, Reset, lost connection, reload) beside any number of edits, stops and polls | PageAndEngineAgree, StopSilences; EndIsNoticed, RunIsShown |
| `streams` | 2 base channels, 2 custom ones, 3 standards, 2 streams, 2 Starts under way, 5 callbacks beside the steps of Start | StoreConsistent, SentIsLegal, ViewsFresh, StandardKeepsEquations |
| `layout` | 2 columns, 2 columns of the table, 3 widths of the room, 7 events | PanelsSurvive, ChoicesRemembered, GripFits |
| `editor` | 2 base channels with room for 2, drafts of every shape, 2 captures, 7 events | EditorConsistent, ApplyHitsShown |
| `viewer` | 2 streams over 3 channels, 5 events, 2 fetches under way | TreeIsCurrent, ViewConsistent, BytesAgree |
| `faults` | 4 events, up to 3 calls under way, counters to 1 | PanelAndInjectorAgree; FaultsEndWithRun, NumbersCatchUp |

What follows the semicolon is liveness. A property with several parts is a
conjunction of named ones, each with its own comment in the module; the type
invariant is one of the parts, or stands alone as TypeOK.

Two runs end in a violation. Each shows that the code does something else than
the repository says of it; `PROJECT.json` quotes the line.

| run | property | what happens |
|---|---|---|
| `controller_retune` | RunningHasWriter | The writer leaves its loop for an elapsed duration and looks at the clock a second time to decide who lowers `m_running`. `setDuration()` in between leaves it up without a writer: `startAll()` is refused until a stop. |
| `streams_own` | StreamKeepsItsChannels | Start resolves a stream's own list against the channels selected globally, not against the pool: a channel the global selection lacks is left out of the stream without a word. |

### 4.1 Bounds

`MaxTime`, `MaxCycle`, `MaxSq` saturate: beyond them the code only compares with
a duration or a count that is within them, or counts on. `MaxId = 2` gives the
controller a publisher that stays and one that goes, and a removed id beside a
live one; `MaxCycle = 2` a repetition that must be followed by an end. `Depth = 2`
with three messages fills the ring and overflows it; `MaxRuns = 2` and
`MaxInits = 2` give a successor whose predecessor may have left something behind.
`Capacity = 2` is the smallest the kit's queue allows and is full with one message
per submitter. Intervals 1, 2, 4 contain a first interval, a doubling and the cap (a first interval of
4 over a heartbeat of 2 passes the same properties).
Three calls of two commands give two that wait for one reply and one that must not
be confused with them.

`MaxEvents` bounds the length of a session with the page, so these runs say what
holds after that many disturbances, not for ever. It is chosen so that the longest
interference known fits: two Starts with an edit between their awaits (`panel`);
switch of standard, stream, Start, and two switches between its awaits (`streams`);
pop out, maximise the other column and restore it, resize, side bar, snap back, reload
(`layout`); create, template, switch
of standard and Apply with a capture beside it (`editor`); fetch, change of stream,
edit, drag and answer (`viewer`); Apply, Start, end, Apply (`faults`). `MaxId = 3`
in `panel` lets one publisher be added three times over. The frames of `viewer`
have channels of both signs and one above 65535, names of different lengths and a
VLAN tag or none; more channels only lengthen `seqData` (which the viewer
misreads from 16 channels on, section 6). The theorems of section 5 do not depend
on any of these bounds.

`CHECK_DEADLOCK FALSE` is set where the bounds end every behaviour and the host or
the user may stop for good (`ingest`, `editor`, `viewer`); the other modules have a
step for a user who does nothing more, or never run out of steps.

### 4.2 Fairness

  * `PublisherController`: the writer is scheduled (weak fairness; it asks for a
    real-time class), a thread inside a call goes on with it (weak fairness of
    `Continue`: nothing in the calls waits for another client), and seconds pass
    (strong fairness of a `Tick` while the writer sleeps or is not there: it sleeps
    again and again because a cycle has finitely many packets). StopReturns and
    NaturalEnd further assume `TimelyClock`: from some point on seconds pass only
    there. Between two sleeps the code needs microseconds; without the assumption a
    second could pass within each of them for ever. Clients owe nothing: no command
    is ever required to be called.
  * `GooseTx`: the scheduler thread runs, milliseconds pass, a join that can
    return does. NewestIsShown speaks of streams that stay up from some point on.
  * `LiveIngest`: the worker runs, the host finishes the call it is in, and a
    submitter that has claimed a slot fills it (it is between two instructions).
    No submitter is required to submit, no host to shut down.
  * `BackendClient`: timers fire. Nothing is required of the network, the backend
    or the page, so CallersDoNotHang rests on the timers alone.
  * `PublisherPanel`, `FaultPanel`: the backend executes what it got, a handler
    whose answer is there goes on (callbacks queue up in one event loop), and the
    intervals fire (`setInterval`). The user, the end of a run and the connection
    owe nothing. That an answer always comes, or a rejection, is what
    CallersDoNotHang says of the client below.
  * The other modules of the page have no liveness: a handler is one step, and that the
    Start of `StreamSetup` ends is a question to `PublisherPanel` and the client.

## 5. The proofs

| theorem | says | under |
|---|---|---|
| **`PublisherController_proofs`** | | |
| `TypeCorrect` | `Spec => []TypeOK` | nothing but the constants' assumption |
| `MemorySafety` | `[]WriterMemorySafe` | `OneCaller` |
| `FrozenSchedule` | `ScheduleFrozen` | `OneCaller` |
| `RunningIsTrue` | `[]RunningHasWriter` | `OneCaller`, `~RetuneWhileRunning` |
| `CourseIsFull` | `[]FullCourse` | nothing |
| `IdsAreFresh` | `FreshIds` | nothing |
| **`LiveIngest_proofs`** | | |
| `QueueSafety` | `[]QueueMemorySafe` | `Quiesce` |
| `StoreSafety` | `[]StoreMemorySafe` | `TeardownInOrder` |
| `FunnelSafety` | `[]MemorySafe` | both |
| `NothingIsLost` | `[]FunnelKeepsAll` | `Quiesce` |
| `StoreOrder` | `StoreMovesForward` | `Quiesce` |
| **`GooseTx_proofs`** | | |
| `TypeCorrect` | `[]TypeOK` | nothing |
| `SilenceAfterStop` | `[]StoppedMeansSilent` | nothing |
| `TimersKept` | `[]InTime` | nothing |
| `Refinement` | `BroadcastSpec` | nothing |
| **`BackendClient_proofs`** | | |
| `NobodyIsForgotten` | `[]WaitingAreListed` | nothing |
| `OnceAndInOrder` | `[]ExecutedOnceInOrder` | nothing |
| `RepliesFindTheirCalls` | `[]RightPromise` | nothing |
| **`PublisherPanel_proofs`** | | |
| `CallsInvariant` | `[]BaseInv` | nothing |
| `StopIsSilence` | `StopSilences` | nothing |
| `PageAgrees` | `[]PageAndEngineAgree` | nothing |
| **`StreamSetup_proofs`** | | |
| `SetupInvariant` | `[]IInv` | nothing |
| `StoreStaysConsistent` | `[]StoreConsistent` | nothing |
| `StartIsLegal` | `[]SentIsLegal` | nothing |
| `ViewsStayFresh` | `[]ViewsFresh` | nothing |
| `SwitchKeepsEquations` | `StandardKeepsEquations` | nothing |
| **`PageLayout_proofs`** | | |
| `PanelsAreKept` | `[]PanelsSurvive` | nothing |
| `LayoutRemembered` | `[]ChoicesRemembered` | nothing |
| `ResizeFits` | `GripFits` | nothing |
| **`PageCards_proofs`**: `FaultPanel` | | |
| `InductiveInvariant` | `[]IInv` | nothing |
| `PanelAgrees` | `[]PanelAndInjectorAgree` | nothing |
| `EquationEditor` | | |
| `EditorStaysConsistent` | `[]EditorConsistent` | nothing |
| `ApplyDoesAsShown` | `ApplyHitsShown` | nothing |
| `FrameView` | | |
| `AlwaysViewing` | `[]Viewing` | nothing |
| `TreeStaysCurrent` | `[]TreeIsCurrent` | nothing |
| `ViewStaysConsistent` | `[]ViewConsistent` | nothing |
| `PartsAlwaysNest` | `[]PartsNest` | nothing |
| `DumpStaysAligned` | `[]MadeUpBytesAligned` | nothing |
| `ShortFramesAreRead` | FrameIsParsed, while the frame has fewer than 16 channels | `Readable` |
| `BytesAlwaysAgree` | `[]BytesAgree` | `Readable`, fewer than 16 channels in the store |

"Nothing" is nothing but the assumptions named in the module itself: counters
are natural numbers, intervals are positive, names are distinct. A theorem is
about every value of the constants: any number of publishers, calls, submitters,
messages, seconds and overlapping starts, and any two intervals. What a theorem says of
all states, a run of section 4 says of its instance, and every inductive invariant was
model-checked on that instance before it was proved.

`OneCaller` (all API calls and the destructor come from one thread) is what the
event loop gives the application and what the kit asks of its host. It is needed:
with `Exiters` beside a client, `main()` returns, `~PublisherController` lowers
`m_running`, and the event loop thread runs `removeAllPublishers()` before the
writer has seen the flag, a state in which WriterMemorySafe is false. So are the
others: `controller_retune` violates RunningHasWriter, and with `Quiesce = FALSE` a
submitter past its test uses the queue `shutdown()` has deleted (section 6).

**Controller.** "The writer does not use freed memory" is not inductive; one must
say why the memory is there. `MemInv` adds two parts. `Handshake`: a writer that
has not returned is joinable, a caller about to join has a thread to join, one
past the join has none. `Borrowed`: while the writer is in its loop the schedule
is not empty and its publishers live, and either `m_running` is up, which keeps
removals out, or a caller is on its way into the join, and then there is no other
caller. The lemmas treat commands, the steps inside start and stop, and the writer
apart (`MemCommand`, `MemContinue`, `MemWriter`). `FrozenSchedule` follows from the
same invariant: any step that changes the schedule contradicts it while the writer
is in its loop. `FlagInv` relates flag and writer: if the writer has left for an
elapsed duration, the duration is still elapsed when it looks again. `IdsInv`: the
ids handed out are exactly those below `m_nextId`. `CourseInv` is about a run that nobody has
disturbed: the cycles it has played are one more than the repetitions granted, a
writer that is about to end has found its duration elapsed and no repetition left.
Whatever a caller does either leaves flag, clock and counts alone or disturbs the
run, so nothing need be assumed of the callers.

**Ingest.** `QueueInv` is the handshake of host, flag and worker with `Inside`: a
submitter in a call keeps the flag up and its slot is in the current queue.
`StoreInv` is the same handshake and: the pointer the worker is about to use is
the living publisher's. `FunnelInv` counts no slots: what was routed of a
submitter is a prefix of what was accepted, and the rest is in the worker's hand or
in a filled slot (`Accounted`). Values of one submitter grow along hand, queue and
accepted sequence (`Slots`, `Increasing`), so the one in the hand is the next of the
rest. A queue is drained before it is deleted (`Drained`). StoreMovesForward adds
that a live value is no newer than what is in the hand.

**GOOSE.** `Bridge`: the ring holds exactly the accepted messages after the latched
one, in order. `Numbers`: what is shown was taken up, what was taken up was
latched. `Timers` relates the clocks to the place of the thread: time passes only
in a sleep, so a change waits no longer than one; what is waited for is never more
than what the last frame announced, nor than the longer of first interval and
heartbeat. `OnAir` says of the last frame on the wire that
it shows the scheduler's current state with a count not above the scheduler's, or an
earlier state with a lower number. `Refinement` takes the actions one by one
under this invariant: a start is `Restart`, a `Fire` that the interface takes is
`Announce` or `Repeat`, an accepted `Push` is `HandOver`, and everything else
stutters.

**Client.** Commands and replies travel in lines: queue, connection, backend and
back. `Lined` says of three sequences laid end to end that a relation holds
between whatever is ahead and whatever is behind; two lemmas say that giving away
the front of one to the end of the next, and emptying one, keep it.
`CommandLine` uses it with "may be executed ahead of" and gives order and
uniqueness; `ReplyLine` uses it with the order of calls of one command, and with
`Lists` (a list is its waiting calls in order) the head of the list is the call the
next reply answers.

**Publisher panel.** The page learns of the backend by answers, and they come in
the order of the calls. The parts of `BaseInv` say what a call at some place of
the line tells: `QueueInv` (one call for each handler that waits, executed ones
first), `IdsInv` (an id under way is given to one publisher of the page), `EndInv`
(who says that no run is on is right, unless one was started since), `CutInv` and
`SinceInv` (between the two commands of a Stop or a Reset nothing is configured, and
what has happened since is behind the second), `FreshInv` (after a Reset nothing in
flight starts a run). StopSilences follows:
the stop's two commands are behind everything that could start something. That a
run transmits what the page lists needs a second argument, `AloneInv`: a start
that met no other start and no edit passes through phases (cleared, adding,
configuring, aside, transmitting), and in each of them the publishers of the
backend are the ones of the list up to the place of the loop, the call under way
counted or not.

**Faults.** Again of the calls under way: the last configuration among them is the
stored one, and if there is none the injector has it (`StoreInv`); who owns the
timer and whether an answer will stop it (`PollInv`); a count that will be reset,
or is not reset yet (`ZeroInv`); a call is answered unless it was lost (`LossInv`).

**Layout.** The inductive invariant `Layout` says of the page and of what is saved that
they are in order (`Fine`), and of the handle that the columns have the saved ratio
unless it is held (`Held`). `Fine` has two sides. `Good`: the two widths have a
positive sum (`Laid`); a side bar is open exactly when it is not remembered as closed
(frame) or is remembered as open (fault), and the room is what the open one leaves
(`SideBars`); the table is the remembered one (`Table`). `Whole`: nothing of the
document is lost, and what is maximised is a column that has its children. One lemma
says what each plugin may write (`LayoutChanges`), so each part is looked at only where
something of it is written. Rounded widths keep a positive sum because the room has a
pixel for each column, which is what `RoomAssumption` asks (`RenderedFits`). ResizeFits
rests on the arithmetic of the two clamps (`SplitKeeps`).

That every part is in the document once (`PanelsAreKept`) takes more than counting: a
pop-out of a column whose children are not what one thinks would lose some. `Doc` says
what each column can look like: with its body, in the right one with the host before or
after the tool bar, or with the placeholder, and then its children are in the panel.
Each handler takes `Doc` to `Doc`, since a filter on two or three parts can be computed
(`KeptOfTwo`, `KeptOfThree`, `PoppedOut`, `SnappedBack`), and how often a part
occurs is counted once, in any such document (`CopiesInDoc`, `Counted`). `BarStands` is
why what is maximised is never popped out: a column that is out shows no tool bar of
its own, and pop-out ends maximising first.

**Streams.** `StoreOK` is about the store between two callbacks. Its parts: the
settings (`Settings`, with the rate as the product), nothing left to announce, every
subscriber showing what it would show now, and `Contents`: the pool holds every base
channel once and fits its standard, the selection has no channel twice and none the
pool lacks but for the orphans of a whole-pool reset, and an equation nobody typed
runs at the frequency of the system. It has the sets of typed equations and of
orphans as parameters, since a callback may add to them in its middle.

For ViewsFresh one follows a change. An operation on the store marks the paths it
writes (`Marked`: what is not marked is as before); from `StoreOK` on, then, a
subscriber that watches no marked path is still right (`FreshBut`), and a
notification refreshes those that watch one. One subscriber writes back, the settings
(samples per cycle that 9-2LE does not offer, and the rate), so a notification is
these writes and then the refresh. `PubsOK` (ids given once, lists without
repetition) and the frame shown go through the handlers of the streams. `StartsOK` says
of every Start under way that the channels it took were as many as the standard
allowed and in tune then (`Taken`), and that what it sent last was legal (`FrameOK`).
Nothing the user does touches what was taken, so the first part stays; each turn of the
loop picks from it by a list without repetition and moves 50 Hz to the frequency it
sends, which is all that SentIsLegal asks. That the list, the frequency and the list of
streams are those of the moment needs nothing but `PubsOK` and `Settings`.

**Cards of the page.** Fault panel, editor and viewer share no variable and no
constant; they are proved about in one module, each under a specification of its
own.

*Editor* (`Editing`). Any announcement of the store leaves the editor asking for
nothing, so the label and what Apply would change part only while the user is in the
middle of something, and there `ScreenSays` relates the screen to the session, which
may be about a channel a standard has dropped (`SessionSays`). That a generated name
is new is the pigeon-hole principle: there are more names than channels. `StoreSays`
keeps the pool's names apart and the mirrors of each equation equal to it, and with
it ApplyHitsShown is a matter of the one step.

*Viewer* (`Viewing`). The tree is the one that would be drawn now of `active`,
`config` and the nodes remembered as open, apart from cells, inputs and the name,
which are patched (`DrawnIs`); the stream inspected is a copy of a stream that
exists (`PanelIs`); the line over the tree tells of the frame kept (`ViewIs`). A drawn
tree depends on nothing else, so a handler that draws anew restores `DrawnIs`, and
one that patches is compared with drawing. Lists stay without repetition under
append, removal, exchange and move: each result has its elements at places of their
own in the list before (`DrawnFrom`). PartsNest needs that all ASDUs have one size:
`i` of them lie before the `i`-th. For MadeUpBytesAligned the dump is cut after each of
its pieces; `Laid` says that the fields so far are at their places and nothing else is
there, and one lemma (`Behind`) adds a piece.

FrameIsParsed is about two programs and no state: that what `sv_encoder_encode_packet()`
writes is what `parseRealFrame()` reads. `Holds(b, k, values, m)` says that the bytes
of `b` from `k` on are the given numbers; joining keeps it on the left and shifts it on
the right (`Keeps`, `Shifts`), so the places of all the fields follow from the sizes
of the pieces (`FrameHolds`). The parser is a walk that reads each field's length on
the way. Five steps take it to the end (`WalkIs`), and one that has reached the end
stays there (`WalkEnds`, by induction over the steps left). `Known` gives the frames
there can be: of names, lists and settings the page had. `Readable` asks that they fit
their fields: names of 1 to 255 characters, samples and revision of 32 bits with sign,
a VLAN below 4096, a priority below 8, an application id of two bytes, a flag of one.
It is the encoder that cuts off what does not fit, and writes a name of its own for
an empty one. The limit of fifteen channels is the code's (section 6).

The lemmas about lists that open `StreamSetup_proofs` are repeated here as far as they
are used: a module of their own would have to be told of the operators of two
unrelated models.

Two operators of the models were given another form because nothing could be
concluded from the first: the removal of an entry from the middle of a list
(`Removed`, `RemovePublisher`) is the index and the splice of the code instead of a
filter, and the lists of waiting calls are described by order and content.

Model-checked only:

  * every liveness property (StopReturns, NaturalEnd, NewestIsShown,
    ShutdownReturns, AcceptedIsRouted, CallersDoNotHang, EndIsNoticed, RunIsShown,
    FaultsEndWithRun, NumbersCatchUp): the prover does not treat fairness.

## 6. Observed on the way

What the modules contain because the code does it, and what the properties
therefore leave out. None is a run of its own.

**Engine, GOOSE and kit.**
  * A first interval longer than the heartbeat is kept for good: the ramp is capped only
    in the branch that doubles it (`GooseTxScheduler.cc:149`), although :46 says "Cap
    each interval at heartbeat_ms." InTime bounds the gap by the longer of the two.
  * `shutdown()` does not wait for a submitter between its test of the queue and its
    use of it (`SubstationKit.cc:265`), while `SubstationKit.h:336` calls
    `submitMagnitude()` "Safe to call from ANY number of threads" and the contract of
    `substation_kit/README.md:188-189` asks nobody to rest. With `Quiesce = FALSE` and
    one value TLC finds the use of the deleted queue.
  * The first step of a GOOSE ramp has no slack: a repetition announces twice the
    old interval, then waits the doubled one (`GooseTxScheduler.cc:72`). InTime
    grants the jitter of the last sleep.
  * `SpscBridge::sampleAt()` replaces the time a Boolean was pushed with by the
    time of the call (`SpscBridge.cc:108`).
  * After a run that ended by itself `removePublisher()` leaves entries of a
    destroyed publisher in `m_sharedBuffer`; `controller` shows they are never
    dereferenced.
  * The kit's README names a class `substation::Engine` the code does not have.

**Client.** Replies carry only the command name. A reply that comes after its call
timed out resolves the next call of that command, whose own reply goes on to the one
after (`tauriClient.js:115`); so do the replies to calls of a
`connect` listener and to commands kept in the queue after a failed connection.
RightPromise is stated of the calls without these; without its condition it is false
with two calls of one command and a slow backend.

**Publisher panel.**
  * Removing a publisher while Start is under way leaves a stream at the backend
    that the page no longer lists (`disturbed` in the model).
  * If three calls of `startAll()` overlap, one of them may set `_isRunning` after a
    Reset that had already seen the first two end: the run comes back without a
    reload. Reset is followed up as long as no more than two starts are under way
    (`fresh` in the model).
  * A `mpStartAll` that fails after GOOSE schedulers were started leaves them
    sending, and Stop then returns at once (`MultiPublisher.js:612`). Reset leaves
    them too, although `globalPublishControls.js:88` says that it clears all.
  * `StreamConfigPage.js:324-327` keeps a destination address "so startAll can use
    it"; Start uses the one of the store. A VLAN priority of 0 is published as 4.
    A publisher added after a deletion may get the svID and appID of another.

**Streams.**
  * `startAll()` takes the channels before its awaits and reads frequency and lists
    between them. After a switch from 60 to 50 Hz meanwhile, equations of 60 Hz are
    sent with the frequency 50: the comment at `MultiPublisher.js:508`, "Apply current
    frequency", holds for a switch from 50 to 60 Hz only. SentIsLegal excepts the case
    by name. After a switch to a smaller standard meanwhile, a stream may still be sent
    as many channels as the old one allowed: the limit in SentIsLegal is the one Start
    was pressed under.

**Store, editor, layout.**
  * `clearCustomChannels()` and `resetChannels()` leave ids in the selection that the
    pool has no more (`orphans`). A nested batch drops notifications. `resetData()`,
    which nobody calls, would leave equations of 50 Hz on a 60 Hz system. The ASDU
    list of the viewer offers 4 and 8 for 9-2LE.
  * `\frac{a^{2}}{b}` is converted into a product; a draft "Name = expr" applied to a
    channel is stored with its name; the magnitude box edits the equation of the
    store and not the draft shown; changed rows do not flash because the table is
    drawn twice; the capture tab may be on while `publishing.mode` says equation.
  * Frame side bar and layout mode save over one another on load. Maximising the right
    column marks the first maximise button found in it, which is that of the frame
    moved into it (`columnMaximize.js:117`); the style sheet hides the tool bars without
    a marked button, so the one that would restore the layout is out of reach and
    Escape is left, although `columnMaximize.js:7` says "Clicking again (or pressing
    Escape)". Escape in the middle of a
    resize leaves widths in pixels; below 200 pixels the clamps give negative
    widths.

**Viewer.**
  * Refresh destroys the Edit and Save buttons; a redraw during an edit removes the
    inputs, and Save then reports success without saving.
  * The real frame asked for is always that of the first stream, and stays on
    display after a change of stream until the next answer.
  * `parseASDU()` misreads frames from 16 channels on and shows at most eight.
    Highlighting is off on a real frame: lengths of three bytes, no tag without a
    VLAN. A drag of a row ends in an undeclared `_startY`.

**Faults.**
  * Nobody calls `store.setPublishing()`, so the re-apply on start
    (`FaultInjectionPanel.js:546-555`) never runs. The banner follows the box, not
    the applied configuration. The "durable source of truth" is in memory.
  * A run shorter than the gap between two polls, or a page the browser throttles,
    leaves faults armed; a second `publishingStopped` may disarm faults just applied.
  * The poll goes on after the end of a run and shows its numbers again after they
    were cleared, until the next run; NumbersCatchUp says that they go.

## 7. Not modelled

  * The system calls of libpcap and the sockets: I/O. Whether a send succeeds is a
    choice of the environment.
  * The equation processor and the waveform arithmetic: floating point. Of an
    equation the models keep its shape, magnitude and frequencies.
  * GOOSE receive, the injector's decision per packet, the order and times of the
    merged schedule, the encoders' buffers, the pacer, the start of the server:
    section 2 marks them *open*.
  * CID export, the Tauri shell, build scripts: output and wiring.
  * The layout of three columns after loading: the page hides its picker.
  * The Reset of the header as the fault panel sees it: in `FaultPanel` only the panel's
    own Reset is an action; what the header's sends is in `PublisherPanel`.
  * The places of the fields in a real frame as the viewer highlights them (BytesAgree is
    about the frame it makes up), and what becomes of a value a full ring refused.
  * Parameter forms, validators, formatters, themes, tooltips, toasts and charts:
    assignments of one field, text and rendering. A change of backend in the
    settings is `SetBackend` of `BackendClient`.
  * `wsClient.js`, `createState.js`, `store/bindings.js`, `equationResolver.js`,
    `service/src/ws_server.cc` and `parallelWorkerLoop()`: not reachable in any
    program of the repository. The routes `/api/pcap/*` the capture tab calls have
    no server in it: in the model the answer is a choice.
  * Memory ordering below the level of one atomic access: the flags are
    sequentially consistent or joined with; the ring's own orderings belong to the
    planned `SpscQueue`.
