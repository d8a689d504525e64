----------------------------- MODULE ServerSession -----------------------------
(***************************************************************************)
(* The coroutines of one client of Server.hpp and the CoroutineSafeQueue   *)
(* they share.  All run on the one thread of the io_context, from one      *)
(* co_await to the next.                                                   *)
(*                                                                         *)
(* co_spawn with use_awaitable only prepares a coroutine: it starts when   *)
(* its result is awaited, and handleClient awaits recv, send and process   *)
(* one after another.  What processTask does with a request is the subject *)
(* of module Node; here a request leads to one answer.                     *)
(***************************************************************************)
EXTENDS Naturals

CONSTANTS
    Client,
    MaxRequests     \* bound on the requests of a client

VARIABLES
    awaits,     \* the coroutine each handleClient waits for
    task,       \* how far each coroutine of each client is
    recvQueue, sendQueue,   \* how many messages are inside
    waiters,    \* timers in the waiters_ of each of the two queues
    sent, wire, answered,   \* requests sent, those not yet read, and answers got
    gone        \* clients that have closed their connection

vars == <<awaits, task, recvQueue, sendQueue, waiters, sent, wire, answered, gone>>
clientVars == <<sent, wire, answered, gone>>

Task == {"recv", "send", "process"}

-----------------------------------------------------------------------------
Init ==
    /\ awaits = [c \in Client |-> "accept"]
    /\ task = [c \in Client |-> [t \in Task |-> "lazy"]]
    /\ recvQueue = [c \in Client |-> 0] /\ sendQueue = [c \in Client |-> 0]
    /\ waiters = [c \in Client |-> [t \in {"send", "process"} |-> 0]]
    /\ sent = [c \in Client |-> 0] /\ wire = [c \in Client |-> 0]
    /\ answered = [c \in Client |-> 0]
    /\ gone = {}

-----------------------------------------------------------------------------
(* handleClient *)

\* An await starts the coroutine.
Await(c, t) ==
    /\ awaits' = [awaits EXCEPT ![c] = t]
    /\ task' = [task EXCEPT ![c][t] = "running"]

\* remote_endpoint throws if the client has already gone.
HandleClient(c) ==
    /\ awaits[c] = "accept"
    /\ \/ Await(c, "recv")
       \/ c \in gone /\ awaits' = [awaits EXCEPT ![c] = "ended"] /\ UNCHANGED task
    /\ UNCHANGED <<recvQueue, sendQueue, waiters, clientVars>>

\* The coroutine awaited has come to its end, and the next is awaited.
Returned(c, t, next) ==
    /\ awaits[c] = t /\ task[c][t] = "returned"
    /\ Await(c, next)
    /\ UNCHANGED <<recvQueue, sendQueue, waiters, clientVars>>

\* It has thrown: the catch block, and handleClient returns.
Thrown(c) ==
    /\ \E t \in Task : awaits[c] = t /\ task[c][t] = "thrown"
    /\ awaits' = [awaits EXCEPT ![c] = "ended"]
    /\ UNCHANGED <<task, recvQueue, sendQueue, waiters, clientVars>>

-----------------------------------------------------------------------------
(* CoroutineSafeQueue *)

\* What enqueue does to coroutine t, the reader of the queue: the first timer
\* is cancelled and destroyed.  If it is the one t waits for, its wait ends with
\* an exception, unless the timer has fired before.
Wake(c, t) ==
    /\ waiters' = [waiters EXCEPT ![c][t] = IF @ > 0 THEN @ - 1 ELSE 0]
    /\ \/ task' = task
       \/ /\ waiters[c][t] = 1 /\ task[c][t] = "waiting"
          /\ task' = [task EXCEPT ![c][t] = "thrown"]

Inside(c, t) == IF t = "send" THEN sendQueue[c] ELSE recvQueue[c]

\* dequeue on an empty queue: a timer is appended whose time is the clock's
\* epoch, so the wait for it ends at the next turn of the loop, and the timer stays.
WaitForTimer(c, t) ==
    /\ task[c][t] = "running" /\ Inside(c, t) = 0
    /\ waiters[c][t] < MaxRequests      \* bound
    /\ waiters' = [waiters EXCEPT ![c][t] = @ + 1]
    /\ task' = [task EXCEPT ![c][t] = "waiting"]
    /\ UNCHANGED <<awaits, recvQueue, sendQueue, clientVars>>

TimerFires(c, t) ==
    /\ task[c][t] = "waiting"
    /\ task' = [task EXCEPT ![c][t] = "running"]
    /\ UNCHANGED <<awaits, recvQueue, sendQueue, waiters, clientVars>>

-----------------------------------------------------------------------------
(* recvTask, processTask, sendTask *)

\* The loop has no exit but the exception of a read.
RecvTask(c) ==
    /\ task[c]["recv"] = "running"
    /\ \/ /\ wire[c] > 0
          /\ wire' = [wire EXCEPT ![c] = @ - 1]
          /\ recvQueue' = [recvQueue EXCEPT ![c] = @ + 1]
          /\ Wake(c, "process")
       \/ /\ c \in gone
          /\ task' = [task EXCEPT ![c]["recv"] = "thrown"]
          /\ UNCHANGED <<wire, recvQueue, waiters>>
    /\ UNCHANGED <<awaits, sendQueue, sent, answered, gone>>

ProcessTask(c) ==
    /\ task[c]["process"] = "running"
    /\ recvQueue[c] > 0
    /\ recvQueue' = [recvQueue EXCEPT ![c] = @ - 1]
    /\ sendQueue' = [sendQueue EXCEPT ![c] = @ + 1]
    /\ Wake(c, "send")
    /\ UNCHANGED <<awaits, clientVars>>

SendTask(c) ==
    /\ task[c]["send"] = "running"
    /\ sendQueue[c] > 0
    /\ sendQueue' = [sendQueue EXCEPT ![c] = @ - 1]
    /\ \/ answered' = [answered EXCEPT ![c] = @ + 1] /\ UNCHANGED task
       \/ c \in gone /\ task' = [task EXCEPT ![c]["send"] = "thrown"] /\ UNCHANGED answered
    /\ UNCHANGED <<awaits, recvQueue, waiters, sent, wire, gone>>

-----------------------------------------------------------------------------
(* The clients *)

Ask(c) ==
    /\ c \notin gone /\ sent[c] < MaxRequests
    /\ sent' = [sent EXCEPT ![c] = @ + 1]
    /\ wire' = [wire EXCEPT ![c] = @ + 1]
    /\ UNCHANGED <<awaits, task, recvQueue, sendQueue, waiters, answered, gone>>

Leave(c) ==
    /\ c \notin gone
    /\ gone' = gone \cup {c}
    /\ UNCHANGED <<awaits, task, recvQueue, sendQueue, waiters, sent, wire, answered>>

EventLoop(c) ==
    \/ HandleClient(c)
    \/ Returned(c, "recv", "send") \/ Returned(c, "send", "process")
    \/ Thrown(c)
    \/ RecvTask(c) \/ ProcessTask(c) \/ SendTask(c)
    \/ \E t \in {"send", "process"} : TimerFires(c, t)

Next == \E c \in Client :
    \/ EventLoop(c)
    \/ \E t \in {"send", "process"} : WaitForTimer(c, t)
    \/ Ask(c) \/ Leave(c)

Spec == Init /\ [][Next]_vars

\* The event loop runs on, whatever a client does.
FairSpec == Spec /\ \A c \in Client : WF_vars(EventLoop(c))

-----------------------------------------------------------------------------
(* Properties *)

\* A client that asks and stays is answered: processTask queries the filter and
\* sendTask sends what it found (Server.hpp:79-106).  It fails: both coroutines
\* wait to be awaited behind a recvTask that does not end (Server.hpp:62-64).
RequestsAnswered == \A c \in Client : sent[c] > 0 ~> (answered[c] > 0 \/ c \in gone)

\* What a client gets instead, whatever it does: its requests are read, and stay in
\* recvQueue (Server.hpp:75, 88); nothing is answered, nor ever put into sendQueue.
PiledUp == \A c \in Client :
    /\ answered[c] = 0 /\ sendQueue[c] = 0
    /\ wire[c] + recvQueue[c] = sent[c]

=============================================================================
