----------------------------- MODULE MasterSession -----------------------------
(***************************************************************************)
(* The connection to the master: MasterSession.hpp with its watchdog, send *)
(* and recv threads, between the two queues, and the threads of Scheduler  *)
(* that use them as far as they bear on the connection: the constructor's  *)
(* request for the parameters, the keepalives, and the message thread that *)
(* reads and now and then answers.                                         *)
(*                                                                         *)
(* The master and the network are external: the master reads a hello and   *)
(* answers it, then reads and pushes as it likes; a connection may break   *)
(* at any time, and a write to a broken one may still seem to succeed.     *)
(*                                                                         *)
(* A thread is a program counter: "none" before it is started and after it *)
(* was joined, "done" once its function has returned.                      *)
(***************************************************************************)
EXTENDS Naturals, Sequences

CONSTANTS
    Capacity,       \* of the queues, QUEUE_DEFAULT_MAXSIZE
    WireCapacity    \* messages the connection buffers, either way

ASSUME SessionAssumption == Capacity \in Nat \ {0} /\ WireCapacity \in Nat \ {0}

VARIABLES
    main,       \* main's thread: in connect, about to request, awaiting, past that
    handler,    \* the message thread: reading, about to answer, or in connect of a slave
    watchDog,   \* the watchdog's thread
    conn,       \* where connect() is, whoever called it
    connErr,    \* connErrFlag
    run,        \* sendRunFlag and recvRunFlag, which are set together
    sendT,      \* the send thread
    recvT,      \* the recv thread
    held,       \* the message the send thread has dequeued
    got,        \* the message the recv thread has read
    sendQueue,
    recvQueue,
    sock,       \* the socket
    master,     \* what the master knows of this connection
    wire,       \* on its way to the master
    back        \* on its way from the master

threads == <<sendT, recvT, held, got>>
network == <<sock, master, wire, back>>
users == <<main, handler>>
vars == <<users, watchDog, conn, connErr, run, threads, sendQueue, recvQueue, network>>

Answers == {"auth_success", "auth_failed", "other"}
Outgoing == {"request", "note"}
Incoming == {"config", "push"}

Init ==
    /\ main = "connect" /\ handler = "read"
    /\ watchDog = "none" /\ conn = "resolve"
    /\ connErr = FALSE /\ run = FALSE
    /\ sendT = "none" /\ recvT = "none" /\ held = "none" /\ got = "none"
    /\ sendQueue = <<>> /\ recvQueue = <<>>
    /\ sock = "closed" /\ master = "none" /\ wire = <<>> /\ back = <<>>

\* An exception that leaves a thread, or the constructors, ends the process.
Terminate ==
    /\ main' = "dead"
    /\ UNCHANGED <<handler, watchDog, conn, connErr, run, threads, sendQueue, recvQueue, network>>

-----------------------------------------------------------------------------
(* connect(), called by the constructor and by the watchdog *)

\* The resolver may throw.
Resolve ==
    /\ conn = "resolve"
    /\ \/ /\ conn' = "dial"
          /\ UNCHANGED <<users, watchDog, connErr, run, threads, sendQueue, recvQueue, network>>
       \/ Terminate

\* A new connection replaces what the socket held.
Dial ==
    /\ conn = "dial"
    /\ conn' = "hello"
    /\ sock' = "open" /\ master' = "new" /\ wire' = <<>> /\ back' = <<>>
    /\ UNCHANGED <<users, watchDog, connErr, run, threads, sendQueue, recvQueue>>

\* No endpoint answers: sleep, then dial again.
DialFails ==
    /\ conn = "dial"
    /\ sock' = "closed" /\ master' = "none" /\ wire' = <<>> /\ back' = <<>>
    /\ UNCHANGED <<users, watchDog, conn, connErr, run, threads, sendQueue, recvQueue>>

\* hello_from_client.  Nothing in connect() catches what a socket throws.
Hello ==
    /\ conn = "hello"
    /\ \/ /\ conn' = "reply"
          /\ wire' = IF sock = "open" THEN Append(wire, "hello") ELSE wire
          /\ UNCHANGED <<users, watchDog, connErr, run, threads, sendQueue, recvQueue,
                         sock, master, back>>
       \/ sock = "broken" /\ Terminate

\* The threads start over, for the constructor or for the watchdog.
StartThreads ==
    /\ run' = TRUE
    /\ sendT' = "check" /\ recvT' = "check"
    /\ watchDog' = "sleep"
    /\ main' = IF main = "connect" THEN "request" ELSE main

\* The answer: go on, give up, or (any other event) dial again.
Reply ==
    /\ conn = "reply"
    /\ \/ /\ back # <<>>
          /\ Head(back) # "auth_failed"
          /\ back' = Tail(back)
          /\ IF Head(back) = "auth_success"
             THEN conn' = "idle" /\ StartThreads
             ELSE conn' = "dial" /\ UNCHANGED <<run, sendT, recvT, watchDog, main>>
          /\ UNCHANGED <<handler, connErr, held, got, sendQueue, recvQueue, sock, master, wire>>
       \/ back # <<>> /\ Head(back) = "auth_failed" /\ Terminate
       \/ back = <<>> /\ sock = "broken" /\ Terminate

-----------------------------------------------------------------------------
(* The watchdog *)

\* Its loop after the sleep: it goes on only when an error was flagged.
WatchDogWakes ==
    /\ watchDog = "sleep"
    /\ connErr
    /\ run' = FALSE
    /\ watchDog' = "joinSend"
    /\ UNCHANGED <<users, conn, connErr, threads, sendQueue, recvQueue, network>>

JoinSend ==
    /\ watchDog = "joinSend"
    /\ sendT = "done"
    /\ sendT' = "none"
    /\ watchDog' = "joinRecv"
    /\ UNCHANGED <<users, conn, connErr, run, recvT, held, got, sendQueue, recvQueue, network>>

\* Mutated form: the recv thread is not joined.
JoinRecvSkipped ==
    /\ watchDog = "joinRecv"
    /\ watchDog' = "close"
    /\ UNCHANGED <<users, conn, connErr, run, threads, sendQueue, recvQueue, network>>

JoinRecv ==
    /\ watchDog = "joinRecv"
    /\ recvT = "done"
    /\ recvT' = "none"
    /\ watchDog' = "close"
    /\ UNCHANGED <<users, conn, connErr, run, sendT, held, got, sendQueue, recvQueue, network>>

\* Mutated form: the flag is not reset.
CloseKeepingFlag ==
    /\ watchDog = "close"
    /\ watchDog' = "connect"
    /\ conn' = "resolve"
    /\ sock' = "closed" /\ master' = "none" /\ wire' = <<>> /\ back' = <<>>
    /\ UNCHANGED <<users, connErr, run, threads, sendQueue, recvQueue>>

Close ==
    /\ watchDog = "close"
    /\ watchDog' = "connect"
    /\ conn' = "resolve"
    /\ connErr' = FALSE
    /\ sock' = "closed" /\ master' = "none" /\ wire' = <<>> /\ back' = <<>>
    /\ UNCHANGED <<users, run, threads, sendQueue, recvQueue>>

-----------------------------------------------------------------------------
(* The send and recv threads *)

SendCheck ==
    /\ sendT = "check"
    /\ sendT' = IF run THEN "take" ELSE "done"
    /\ UNCHANGED <<users, watchDog, conn, connErr, run, recvT, held, got, sendQueue, recvQueue, network>>

SendTake ==
    /\ sendT = "take"
    /\ sendQueue # <<>>
    /\ held' = Head(sendQueue)
    /\ sendQueue' = Tail(sendQueue)
    /\ sendT' = "write"
    /\ UNCHANGED <<users, watchDog, conn, connErr, run, recvT, got, recvQueue, network>>

\* A write blocks while the connection's buffer is full.  What is written to a
\* broken connection is lost, whether the write throws or not.
SendWrite ==
    /\ sendT = "write"
    /\ held' = "none"
    /\ \/ /\ sock = "open" /\ Len(wire) < WireCapacity
          /\ wire' = Append(wire, held)
          /\ sendT' = "check" /\ UNCHANGED connErr
       \/ /\ sock = "broken"
          /\ sendT' = "check" /\ UNCHANGED <<wire, connErr>>
       \/ /\ sock # "open"
          /\ sendT' = "done" /\ connErr' = TRUE /\ UNCHANGED wire
    /\ UNCHANGED <<users, watchDog, conn, run, recvT, got, sendQueue, recvQueue, sock, master, back>>

RecvCheck ==
    /\ recvT = "check"
    /\ recvT' = IF run THEN "read" ELSE "done"
    /\ UNCHANGED <<users, watchDog, conn, connErr, run, sendT, held, got, sendQueue, recvQueue, network>>

\* Mutated form: the error is not flagged.
RecvReadUnflagged ==
    /\ recvT = "read"
    /\ \/ /\ back # <<>>
          /\ got' = Head(back) /\ back' = Tail(back)
          /\ recvT' = "put"
       \/ /\ back = <<>> /\ sock # "open"
          /\ recvT' = "done" /\ UNCHANGED <<got, back>>
    /\ UNCHANGED <<users, watchDog, conn, connErr, run, sendT, held, sendQueue, recvQueue, sock, master, wire>>

RecvRead ==
    /\ recvT = "read"
    /\ \/ /\ back # <<>>
          /\ got' = Head(back) /\ back' = Tail(back)
          /\ recvT' = "put" /\ UNCHANGED connErr
       \/ /\ back = <<>> /\ sock # "open"
          /\ recvT' = "done" /\ connErr' = TRUE /\ UNCHANGED <<got, back>>
    /\ UNCHANGED <<users, watchDog, conn, run, sendT, held, sendQueue, recvQueue, sock, master, wire>>

\* Mutated form: enqueue does not wait for room.
RecvPutNoWait ==
    /\ recvT = "put"
    /\ recvQueue' = Append(recvQueue, got)
    /\ got' = "none"
    /\ recvT' = "check"
    /\ UNCHANGED <<users, watchDog, conn, connErr, run, sendT, held, sendQueue, network>>

RecvPut ==
    /\ recvT = "put"
    /\ Len(recvQueue) < Capacity
    /\ recvQueue' = Append(recvQueue, got)
    /\ got' = "none"
    /\ recvT' = "check"
    /\ UNCHANGED <<users, watchDog, conn, connErr, run, sendT, held, sendQueue, network>>

-----------------------------------------------------------------------------
(* The threads of Scheduler *)

\* asyncSendMsg blocks while the queue is full.
AsyncSendMsg(m) ==
    /\ Len(sendQueue) < Capacity
    /\ sendQueue' = Append(sendQueue, m)
    /\ UNCHANGED <<watchDog, conn, connErr, run, threads, recvQueue, network>>

Request ==
    /\ main = "request"
    /\ AsyncSendMsg("request")
    /\ main' = "await"
    /\ UNCHANGED handler

\* The constructor throws on a first message that is not the answer, and on
\* parameters that Engine::init refuses.
AwaitConfig ==
    /\ main = "await"
    /\ recvQueue # <<>>
    /\ \/ /\ Head(recvQueue) = "config"
          /\ recvQueue' = Tail(recvQueue)
          /\ main' = "running"
          /\ UNCHANGED <<handler, watchDog, conn, connErr, run, threads, sendQueue, network>>
       \/ Terminate

\* keepaliveWorker and bloomFilterStatusReport.
Keepalive ==
    /\ main = "running"
    /\ AsyncSendMsg("note")
    /\ UNCHANGED users

\* recvMsg and what becomes of the message: nothing the session sees; an answer
\* (adjust_bloom_filter); the end of the thread's turns, as the order to become
\* a slave node leads into a connect that never returns; an exception.
Handle ==
    /\ main = "running"
    /\ handler = "read"
    /\ recvQueue # <<>>
    /\ \/ /\ recvQueue' = Tail(recvQueue)
          /\ handler' \in {"read", "answer", "slave"}
          /\ UNCHANGED <<main, watchDog, conn, connErr, run, threads, sendQueue, network>>
       \/ Terminate

Answer ==
    /\ main = "running"
    /\ handler = "answer"
    /\ AsyncSendMsg("note")
    /\ handler' = "read"
    /\ UNCHANGED main

-----------------------------------------------------------------------------
(* The master and the network: external *)

node == <<users, watchDog, conn, connErr, run, threads, sendQueue, recvQueue>>

MasterReadsHello ==
    /\ master = "new" /\ wire # <<>>
    /\ wire' = Tail(wire)
    /\ master' = "asked"
    /\ UNCHANGED <<node, sock, back>>

MasterAnswers(a) ==
    /\ master = "asked" /\ sock = "open"
    /\ back' = Append(back, a)
    /\ master' = IF a = "auth_success" THEN "ok" ELSE "refused"
    /\ UNCHANGED <<node, sock, wire>>

MasterReads ==
    /\ master = "ok" /\ wire # <<>>
    /\ wire' = Tail(wire)
    /\ IF Head(wire) = "request" /\ sock = "open"
       THEN Len(back) < WireCapacity /\ back' = Append(back, "config")
       ELSE UNCHANGED back
    /\ UNCHANGED <<node, sock, master>>

MasterPushes ==
    /\ master = "ok" /\ sock = "open" /\ Len(back) < WireCapacity
    /\ back' = Append(back, "push")
    /\ UNCHANGED <<node, sock, master, wire>>

\* What is in flight may still arrive, or not.
Break ==
    /\ sock = "open"
    /\ sock' = "broken"
    /\ wire' \in {wire, <<>>}
    /\ back' \in {back, <<>>}
    /\ UNCHANGED <<node, master>>

-----------------------------------------------------------------------------
Connect == Resolve \/ Dial \/ Hello \/ Reply
WatchDog == WatchDogWakes \/ JoinSend \/ JoinRecv \/ Close
Send == SendCheck \/ SendTake \/ SendWrite
Recv == RecvCheck \/ RecvRead \/ RecvPut
Scheduler == Request \/ AwaitConfig \/ Keepalive \/ Handle \/ Answer
Master == MasterReadsHello \/ (\E a \in Answers : MasterAnswers(a)) \/ MasterReads \/ MasterPushes

Next ==
    /\ main # "dead"
    /\ Connect \/ DialFails \/ WatchDog \/ Send \/ Recv \/ Scheduler \/ Master \/ Break

Spec == Init /\ [][Next]_vars

\* Every thread of the node runs on.  Of the outside it is assumed that the
\* master can be reached, reads what it is sent, and does not refuse to answer
\* a hello with auth_success for ever, and that writes to a broken connection
\* do not seem to succeed for ever; pushing and breaking are its own affair.
Alive(A) == main # "dead" /\ A

FairSpec ==
    /\ Spec
    /\ WF_vars(Alive(Resolve)) /\ WF_vars(Alive(Dial)) /\ WF_vars(Alive(Hello)) /\ WF_vars(Alive(Reply))
    /\ WF_vars(Alive(WatchDog)) /\ WF_vars(Alive(Send)) /\ WF_vars(Alive(Recv))
    /\ WF_vars(Alive(Request \/ AwaitConfig)) /\ WF_vars(Alive(Keepalive)) /\ WF_vars(Alive(Handle \/ Answer))
    /\ WF_vars(Alive(MasterReadsHello)) /\ WF_vars(Alive(MasterReads))
    /\ SF_vars(Alive(MasterAnswers("auth_success")))
    /\ SF_vars(Alive(SendWrite /\ sendT' = "done"))

-----------------------------------------------------------------------------
(* Properties *)

TypeOK ==
    /\ main \in {"connect", "request", "await", "running", "dead"}
    /\ handler \in {"read", "answer", "slave"}
    /\ watchDog \in {"none", "sleep", "joinSend", "joinRecv", "close", "connect"}
    /\ conn \in {"idle", "resolve", "dial", "hello", "reply"}
    /\ connErr \in BOOLEAN /\ run \in BOOLEAN
    /\ sendT \in {"none", "check", "take", "write", "done"}
    /\ recvT \in {"none", "check", "read", "put", "done"}
    /\ held \in Outgoing \cup {"none"} /\ got \in Incoming \cup {"none"}
    /\ sendQueue \in Seq(Outgoing) /\ Len(sendQueue) <= Capacity
    /\ recvQueue \in Seq(Incoming) /\ Len(recvQueue) <= Capacity
    /\ sock \in {"closed", "open", "broken"}
    /\ master \in {"none", "new", "asked", "ok", "refused"}
    /\ wire \in Seq(Outgoing \cup {"hello"}) /\ back \in Seq(Incoming \cup Answers)

\* While the watchdog sleeps, the connection is served by both threads or the
\* error that ended one of them is still flagged: no error raised while the
\* watchdog joins, closes or reconnects is erased by line 86.
Supervised ==
    watchDog = "sleep" =>
        connErr \/ (sendT \notin {"none", "done"} /\ recvT \notin {"none", "done"})

\* The exchange of connect() is alone on its connection: the master reads the
\* hello before anything that waited in sendQueue, reads it once, and the recv
\* thread never sees the answer (lines 104-118 against 136, 148).
HelloAlone ==
    /\ master = "new" => wire \in {<<>>, <<"hello">>}
    /\ master \in {"asked", "refused"} => wire = <<>>
    /\ conn # "idle" => sendT = "none" /\ recvT = "none"

\* No endpoint of the session is used by one thread while another replaces it
\* (sock.close and connect against read and write, lines 85, 87).
SocketOwned ==
    (sendT = "write" \/ recvT = "read") => conn = "idle" /\ sock # "closed"

\* The session is a LossyLink: whatever breaks, in whichever order the threads
\* end and are started anew, messages keep their order, none is doubled or sent
\* before auth_success, and none is lost but to a connection that has broken.
Link ==
    IF master = "ok" THEN IF sock = "open" THEN "up" ELSE "broken"
    ELSE IF sock = "open" THEN "new" ELSE "down"

\* What has left sendQueue is held by the send thread or on the wire; what has
\* not reached recvQueue is held by the recv thread or behind the answer.
OnWire == IF master = "ok" THEN wire ELSE <<>>
Writing == IF sendT = "write" THEN <<held>> ELSE <<>>
Outbound == OnWire \o Writing \o sendQueue

Reading == IF recvT = "put" THEN <<got>> ELSE <<>>
Arriving == IF conn = "idle" \/ back = <<>> THEN back ELSE Tail(back)
Inbound == recvQueue \o Reading \o Arriving

Lossy == INSTANCE LossyLink WITH link <- Link, outbound <- Outbound, inbound <- Inbound
ImplementsLink == Lossy!Spec

\* The circles of lines 83-84.  At the start: the watchdog waits for the send
\* thread, that for a message, and the constructor, which would send the next
\* ones, for an answer that cannot come.  Later: the watchdog waits for the recv
\* thread, that for the reader of recvQueue, and that for room in sendQueue, which
\* the watchdog's next send thread would make, or for a slave's endless connect.
BlockedAtStart ==
    /\ watchDog = "joinSend" /\ sendT = "take" /\ sendQueue = <<>>
    /\ main = "await" /\ recvT = "done" /\ recvQueue = <<>>

BlockedFull ==
    /\ watchDog = "joinRecv" /\ recvT = "put" /\ Len(recvQueue) = Capacity
    /\ main = "running"
    /\ \/ handler = "answer" /\ Len(sendQueue) = Capacity
       \/ handler = "slave"

Blocked == BlockedAtStart \/ BlockedFull

\* No step of any thread, of the master or of the network opens these circles:
\* they are no slow reconnection but the end of it.
StaysBlocked == [][Blocked => Blocked']_vars

Dead == main = "dead"
Serving == watchDog = "sleep" /\ ~connErr

\* "Connection lost, try to reconnect" (lines 80, 87): a broken connection is
\* noticed, and what was noticed leads to a new authenticated connection
\* served by new threads, or to the end of the process.
Reconnects ==
    /\ (sock = "broken" /\ conn = "idle") ~> (connErr \/ Dead)
    /\ connErr ~> (Serving \/ Dead)

\* The same once the scheduler runs, and so sends keepalives.
ReconnectsOnceRunning ==
    /\ (main = "running" /\ sock = "broken" /\ conn = "idle") ~> (connErr \/ Dead)
    /\ (main = "running" /\ connErr) ~> (Serving \/ Dead)

\* The same, where the message thread never leaves recvQueue full for good.
ReconnectsIfRead == []<>(Len(recvQueue) < Capacity) => ReconnectsOnceRunning

=============================================================================
