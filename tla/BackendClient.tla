----------------------------- MODULE BackendClient -----------------------------
(***************************************************************************)
(* The transport of the user interface (web/js/utils/tauriClient.js): one  *)
(* WebSocket that reconnects by itself, over which the application calls   *)
(* commands of the backend.  A reply carries the name of the command and   *)
(* nothing else, so it goes to the oldest call of that name that waits.    *)
(*                                                                         *)
(* The page is one thread: every handler runs to its end.  The backend is  *)
(* the event loop of PubWsServer: it executes the commands of a connection *)
(* in order and answers each of them once.  A call is its number.          *)
(***************************************************************************)
EXTENDS Naturals, Sequences, SequencesExt

CONSTANTS
    Cmds,
    Slow,              \* the backend may take longer than CALL_TIMEOUT_MS
    Flaky,             \* an attempt to connect may fail
    Retargets,         \* the user points the client at another backend
    ListenerCalls,     \* a listener of 'connect' calls a command
    MaxCalls           \* bound: calls made

ASSUME ClientAssumption ==
    /\ {Slow, Flaky, Retargets, ListenerCalls} \subseteq BOOLEAN
    /\ MaxCalls \in Nat

VARIABLES
    conn,              \* _ws and _isOpen
    calls,             \* the calls made: command, what became of the promise,
                       \* whose reply resolved it, and whether a listener of
                       \* 'connect' made it ("early") or the promise was
                       \* rejected and the command kept in the queue ("kept")
    listed,            \* the keys of _pending ...
    pending,           \* ... and its lists, the calls that wait, oldest first
    outbox,            \* _queueOnConnect
    toServer,          \* commands on the connection, and the replies on it
    toClient,
    executed           \* the calls the backend has executed, in order

wire == <<toServer, toClient>>
vars == <<conn, calls, listed, pending, outbox, wire, executed>>

Numbers == 1 .. MaxCalls
Outcomes == {"waiting", "answered", "timeout", "disconnected"}
Upcoming == Len(calls) + 1

Init ==
    /\ conn = "connecting"
    /\ calls = <<>>
    /\ listed = {} /\ pending = [c \in Cmds |-> <<>>]
    /\ outbox = <<>> /\ toServer = <<>> /\ toClient = <<>>
    /\ executed = <<>>

-----------------------------------------------------------------------------
(* The page.                                                               *)

\* call(): the entry of a new call of command c.
Enter(c, way) ==
    /\ Len(calls) < MaxCalls
    /\ calls' = Append(calls, [cmd |-> c, outcome |-> "waiting", by |-> 0,
                              way |-> way])
    /\ listed' = listed \union {c}
    /\ pending' = [pending EXCEPT ![c] = Append(@, Upcoming)]

\* call() and _send(): on an open socket the command leaves, else it waits
\* for one.
Call(c) ==
    /\ Enter(c, "plain")
    /\ IF conn = "open"
       THEN toServer' = Append(toServer, Upcoming) /\ UNCHANGED outbox
       ELSE outbox' = Append(outbox, Upcoming) /\ UNCHANGED toServer
    /\ UNCHANGED <<conn, toClient, executed>>

\* Mutant: the timer looks for an entry that is not listed.
Expires_Never(k) == calls[k].cmd \notin listed
\* The timer of a call finds the list of its command.
Expires(k) == calls[k].cmd \in listed

\* findIndex() and splice()
Removed(s, k) == RemoveAt(s, CHOOSE i \in DOMAIN s : s[i] = k)

Waits(k) == k \in DOMAIN calls /\ calls[k].outcome = "waiting"

\* The timer: the promise is rejected and the entry removed.  The list stays
\* in the map, be it empty.  All timers run for the same time, so those of
\* earlier calls come first.
TimeOut(k) ==
    /\ Slow
    /\ Waits(k) /\ \A j \in 1 .. k - 1 : ~Waits(j)
    /\ Expires(k)
    /\ calls' = [calls EXCEPT ![k].outcome = "timeout"]
    /\ pending' = [pending EXCEPT ![calls[k].cmd] = Removed(@, k)]
    /\ UNCHANGED <<conn, listed, outbox, wire, executed>>

\* Mutant: the queue is not emptied.
OutboxLeft_All == outbox
\* What is queued once the queue has been sent.
OutboxLeft == <<>>
\* onopen sends the queue in the order of the calls.
Flushed == outbox

\* onopen.  The listeners of 'connect' run before the queue is sent, and a
\* command one of them calls leaves at once.
Opens ==
    /\ conn = "connecting"
    /\ conn' = "open"
    /\ toServer' = Flushed /\ outbox' = OutboxLeft
    /\ UNCHANGED <<calls, listed, pending, toClient, executed>>

OpensAndCalls(c) ==
    /\ ListenerCalls
    /\ conn = "connecting"
    /\ conn' = "open"
    /\ Enter(c, "early")
    /\ toServer' = <<Upcoming>> \o Flushed /\ outbox' = OutboxLeft
    /\ UNCHANGED <<toClient, executed>>

\* A list that has become empty leaves the map.
KeysAfter(c, list) == IF list = <<>> THEN listed \ {c} ELSE listed

\* Mutant: the newest call gets the reply.
Oldest_Newest(list) == list[Len(list)]
\* list.shift()
Oldest(list) == list[1]

\* onmessage: a reply to the call k.  It resolves the promise of the oldest
\* call of that command.  If the list is there and empty, shift() gives
\* undefined, the key is deleted, and the use of the entry throws.  A socket
\* that has been asked to close delivers no more messages.
Receive ==
    /\ conn = "open" /\ toClient # <<>>
    /\ LET c == calls[toClient[1]].cmd
           first == Oldest(pending[c])
       IN  IF c \in listed /\ pending[c] # <<>>
           THEN /\ calls' = [calls EXCEPT ![first].outcome = "answered",
                                          ![first].by = toClient[1]]
                /\ pending' = [pending EXCEPT ![c] = Removed(@, first)]
                /\ listed' = KeysAfter(c, pending'[c])
           ELSE /\ listed' = listed \ {c}
                /\ UNCHANGED <<calls, pending>>
    /\ toClient' = Tail(toClient)
    /\ UNCHANGED <<conn, outbox, toServer, executed>>

\* Mutant: _pending.clear() is forgotten.
AfterClose_Kept == pending
\* No call waits after a close ...
AfterClose == [c \in Cmds |-> <<>>]

\* ... because onclose rejects all of them.  The queue is kept.
OnClose ==
    /\ calls' = [k \in DOMAIN calls |->
                   IF Waits(k)
                   THEN [calls[k] EXCEPT !.outcome = "disconnected",
                           !.way = IF k \in ToSet(outbox) THEN "kept" ELSE @]
                   ELSE calls[k]]
    /\ pending' = AfterClose /\ listed' = {}
    /\ conn' = "closed"
    /\ UNCHANGED outbox

\* An attempt to connect fails.
Fails ==
    /\ Flaky /\ conn = "connecting"
    /\ OnClose
    /\ UNCHANGED <<wire, executed>>

\* The connection ends: what the backend has received by then it executes,
\* the rest and every reply under way are lost.
Ends ==
    /\ conn \in {"open", "closing"}
    /\ OnClose
    /\ \E n \in 0 .. Len(toServer) :
         executed' = executed \o SubSeq(toServer, 1, n)
    /\ toServer' = <<>> /\ toClient' = <<>>

\* The timer of onclose calls _connect().
Reconnect ==
    /\ conn = "closed"
    /\ conn' = "connecting"
    /\ UNCHANGED <<calls, listed, pending, outbox, wire, executed>>

\* setBackend() with another URL: the socket is asked to close; onclose comes
\* later and leads to the other backend.
SetBackend ==
    /\ Retargets /\ conn \in {"connecting", "open"}
    /\ conn' = "closing"
    /\ UNCHANGED <<calls, listed, pending, outbox, wire, executed>>

-----------------------------------------------------------------------------
\* The event loop of the backend executes a command and answers it.
Execute ==
    /\ conn \in {"open", "closing"} /\ toServer # <<>>
    /\ executed' = Append(executed, toServer[1])
    /\ toClient' = Append(toClient, toServer[1])
    /\ toServer' = Tail(toServer)
    /\ UNCHANGED <<conn, calls, listed, pending, outbox>>

Next ==
    \/ \E c \in Cmds : Call(c) \/ OpensAndCalls(c)
    \/ \E k \in Numbers : TimeOut(k)
    \/ Opens \/ Receive \/ Fails \/ Ends \/ Reconnect \/ SetBackend \/ Execute

Spec == Init /\ [][Next]_vars

\* Timers fire.
FairSpec == Spec /\ \A k \in Numbers : WF_vars(TimeOut(k))

-----------------------------------------------------------------------------
TypeOK ==
    /\ conn \in {"connecting", "open", "closing", "closed"}
    /\ calls \in Seq([cmd : Cmds, outcome : Outcomes, by : 0 .. MaxCalls,
                      way : {"plain", "early", "kept"}])
    /\ Len(calls) <= MaxCalls
    /\ listed \subseteq Cmds /\ pending \in [Cmds -> Seq(Numbers)]
    /\ \A c \in Cmds : pending[c] # <<>> => c \in listed
    /\ outbox \in Seq(Numbers)
    /\ toServer \in Seq(Numbers) /\ toClient \in Seq(Numbers)
    /\ executed \in Seq(Numbers)

Increasing(s) == \A i, j \in DOMAIN s : i < j => s[i] < s[j]

(* The list of a command holds its waiting calls and no others, in the      *)
(* order they were made, and a command with calls that wait is a key: no    *)
(* caller is forgotten, and no entry is left over that would swallow a      *)
(* later reply.                                                             *)
WaitingAreListed ==
    /\ TypeOK
    /\ \A c \in Cmds :
         /\ Increasing(pending[c])
         /\ ToSet(pending[c]) = {k \in Numbers : Waits(k) /\ calls[k].cmd = c}

(* A command reaches the backend at most once, however often the connection *)
(* is lost, refused or redirected, and in the order of the calls: start,    *)
(* stop and reset are never doubled, and what was queued while the socket   *)
(* was closed is not overtaken, but for the calls of a listener of          *)
(* 'connect', which the queue follows.                                      *)
ExecutedOnceInOrder ==
    \A i, j \in DOMAIN executed :
        i < j => /\ executed[i] # executed[j]
                 /\ executed[i] > executed[j] => calls[executed[i]].way = "early"

(* Concurrent calls get the replies to their own commands, however often    *)
(* the connection is lost: "Backend echoes the cmd name in every response   *)
(* so we can route concurrent calls back to the right promise."  It takes   *)
(* that no call timed out, none of a listener went ahead of the queue, and  *)
(* no connection failed with commands in the queue: the reply to one of     *)
(* these goes to another call of the command.                               *)
RightPromise ==
    (\A k \in DOMAIN calls : calls[k].outcome # "timeout" /\ calls[k].way = "plain")
        => \A k \in DOMAIN calls : calls[k].outcome = "answered" => calls[k].by = k

(* No caller hangs: every promise is settled, whatever the connection does. *)
CallersDoNotHang == \A k \in Numbers : Waits(k) ~> ~Waits(k)
=============================================================================
