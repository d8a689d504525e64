-------------------------- MODULE MasterSessionProofs --------------------------
(***************************************************************************)
(* The safety properties of MasterSession for queues and connections of    *)
(* any size.  What makes them inductive is Stage: where connect() stands   *)
(* determines what the master knows, what is on the wire in either         *)
(* direction, and which threads exist.                                     *)
(***************************************************************************)
EXTENDS MasterSession, TLAPS, SequenceTheorems

\* Which threads exist, by the state of the watchdog.
ThreadsFit ==
    /\ watchDog \in {"none", "connect"} <=> conn # "idle"
    /\ watchDog \in {"joinRecv", "close", "connect", "none"} => sendT = "none"
    /\ watchDog \in {"close", "connect", "none"} => recvT = "none"
    /\ watchDog = "sleep" => run

\* What the I/O threads carry.
Carried ==
    /\ sendT = "write" => held \in Outgoing
    /\ recvT = "put" => got \in Incoming

\* The answer of connect() comes first and decides what the master knows.
AnswerFirst ==
    /\ master \in {"new", "asked"} => back = <<>>
    /\ master = "ok" /\ sock = "open" => back # <<>>
    /\ back # <<>> => /\ Head(back) \in Answers
                      /\ Tail(back) \in Seq(Incoming)
                      /\ Head(back) = "auth_success" <=> master = "ok"

Stage ==
    /\ conn = "resolve" => master = "none"
    /\ conn = "dial" => master \in {"none", "refused"}
    /\ conn = "hello" => master = "new" /\ wire = <<>> /\ back = <<>>
    /\ conn = "reply" => master # "none" /\ AnswerFirst
    /\ conn \in {"hello", "reply", "idle"} => sock # "closed"
    /\ conn = "idle" => master = "ok" /\ back \in Seq(Incoming)

Inv ==
    /\ TypeOK
    /\ ThreadsFit
    /\ Carried
    /\ Stage
    /\ Supervised
    /\ HelloAlone
    /\ SocketOwned

\* An error is flagged only of a connection that broke, and the watchdog takes
\* none down without one.
Flagged ==
    /\ connErr => conn = "idle" /\ sock = "broken"
    /\ watchDog \in {"joinSend", "joinRecv", "close"} => connErr

\* Nothing comes before the answer, and nothing after a refusal.
Quiet ==
    /\ conn \in {"resolve", "dial"} => back = <<>>
    /\ master = "refused" /\ back # <<>> => Tail(back) = <<>>

LInv == Inv /\ Flagged /\ Quiet

-----------------------------------------------------------------------------
(* Sequences *)

LEMMA SeqParts ==
    ASSUME NEW S, NEW s \in Seq(S), s # <<>>
    PROVE  Head(s) \in S /\ Tail(s) \in Seq(S) /\ Len(Tail(s)) = Len(s) - 1 /\ Len(s) \in Nat
OBVIOUS

LEMMA SeqAppend ==
    ASSUME NEW S, NEW s \in Seq(S), NEW m \in S
    PROVE  Append(s, m) \in Seq(S) /\ Len(Append(s, m)) = Len(s) + 1 /\ Len(s) \in Nat
OBVIOUS

-----------------------------------------------------------------------------
(* The steps *)

LEMMA InvInit ==
    Init => Inv
<1> SUFFICES ASSUME Init PROVE Inv
    OBVIOUS
<1>1. connErr \in BOOLEAN /\ run \in BOOLEAN
    BY Zenon DEF Init
<1>2. TypeOK
    BY <1>1, EmptySeq, SessionAssumption DEF Init, TypeOK
<1>3. ThreadsFit /\ Carried /\ Supervised /\ SocketOwned
    BY DEF Init, ThreadsFit, Carried, Supervised, SocketOwned
<1>4. Stage /\ HelloAlone
    BY DEF Init, Stage, HelloAlone
<1> QED  BY <1>2, <1>3, <1>4 DEF Inv

\* asyncSendMsg keeps sendQueue within its capacity.
LEMMA Queued ==
    ASSUME Inv, NEW m \in Outgoing, AsyncSendMsg(m)
    PROVE  sendQueue' \in Seq(Outgoing) /\ Len(sendQueue') <= Capacity
<1>1. sendQueue \in Seq(Outgoing)
    BY DEF Inv, TypeOK
<1> QED  BY <1>1, SeqAppend, SessionAssumption DEF AsyncSendMsg

\* What the master pushes comes after the answer.
LEMMA AnswerStays ==
    ASSUME Inv, NEW m \in Incoming, master = "ok", sock = "open", back' = Append(back, m),
           UNCHANGED <<sock, master>>
    PROVE  /\ AnswerFirst => AnswerFirst'
           /\ back \in Seq(Incoming) => back' \in Seq(Incoming)
<1>1. back \in Seq(Incoming \cup Answers)
    BY DEF Inv, TypeOK
<1>2. ASSUME AnswerFirst PROVE AnswerFirst'
    <2>1. back # <<>> /\ Head(back) = "auth_success" /\ Tail(back) \in Seq(Incoming)
        BY <1>2 DEF AnswerFirst
    <2>2. Head(back') = Head(back) /\ Tail(back') = Append(Tail(back), m) /\ back' # <<>>
        BY <1>1, <2>1
    <2>3. Tail(back') \in Seq(Incoming)
        BY <2>1, <2>2
    <2> QED  BY <2>1, <2>2, <2>3 DEF AnswerFirst, Answers
<1>3. ASSUME back \in Seq(Incoming) PROVE back' \in Seq(Incoming)
    BY <1>3
<1> QED  BY <1>2, <1>3

LEMMA InvResolve ==
    ASSUME Inv, Resolve
    PROVE  Inv'
<1>1. TypeOK'
    BY DEF Resolve, users, threads, network, Terminate, Inv, TypeOK
<1>2. ThreadsFit' /\ Carried' /\ Stage' /\ Supervised' /\ HelloAlone' /\ SocketOwned'
    BY DEF Resolve, users, threads, network, Terminate, Inv, ThreadsFit, Carried, Stage,
           AnswerFirst, Supervised, HelloAlone, SocketOwned
<1> QED  BY <1>1, <1>2 DEF Inv

LEMMA InvDial ==
    ASSUME Inv, Dial
    PROVE  Inv'
<1>1. TypeOK'
    BY DEF Dial, users, threads, Inv, TypeOK
<1>2. ThreadsFit' /\ Carried' /\ Stage' /\ Supervised' /\ HelloAlone' /\ SocketOwned'
    BY DEF Dial, users, threads, Inv, ThreadsFit, Carried, Stage, AnswerFirst, Supervised,
           HelloAlone, SocketOwned
<1> QED  BY <1>1, <1>2 DEF Inv

LEMMA InvDialFails ==
    ASSUME Inv, DialFails
    PROVE  Inv'
<1>1. TypeOK'
    BY DEF DialFails, users, threads, Inv, TypeOK
<1>2. ThreadsFit' /\ Carried' /\ Stage' /\ Supervised' /\ HelloAlone' /\ SocketOwned'
    BY DEF DialFails, users, threads, Inv, ThreadsFit, Carried, Stage, AnswerFirst, Supervised,
           HelloAlone, SocketOwned
<1> QED  BY <1>1, <1>2 DEF Inv

LEMMA InvHello ==
    ASSUME Inv, Hello
    PROVE  Inv'
<1>1. TypeOK'
    <2>1. wire' \in Seq(Outgoing \cup {"hello"})
        <3>1. wire \in Seq(Outgoing \cup {"hello"}) /\ wire' \in {wire, Append(wire, "hello")}
            BY DEF Hello, Terminate, network, Inv, TypeOK
        <3> QED  BY <3>1
    <2> QED  BY <2>1 DEF Hello, Terminate, users, threads, network, Inv, TypeOK
<1>2. Stage'
    <2>1. master = "new" /\ back = <<>> /\ conn = "hello"
        BY DEF Hello, Inv, Stage
    <2>2. CASE conn' = "reply" /\ UNCHANGED <<sock, master, back>>
        BY <2>1, <2>2 DEF Stage, AnswerFirst, Inv
    <2>3. CASE Terminate
        BY <2>1, <2>3 DEF Terminate, network, Inv, Stage
    <2> QED  BY <2>2, <2>3 DEF Hello
<1>3. HelloAlone'
    BY DEF Hello, users, threads, network, Terminate, Inv, HelloAlone, Stage
<1>4. ThreadsFit' /\ Carried' /\ Supervised' /\ SocketOwned'
    BY DEF Hello, users, threads, network, Terminate, Inv, ThreadsFit, Carried, Supervised,
           SocketOwned
<1> QED  BY <1>1, <1>2, <1>3, <1>4 DEF Inv

LEMMA InvReply ==
    ASSUME Inv, Reply
    PROVE  Inv'
<1>1. TypeOK'
    <2>1. connErr' \in BOOLEAN /\ run' \in BOOLEAN
        BY Zenon DEF Reply, StartThreads, Terminate, Inv, TypeOK
    <2>2. back' \in Seq(Incoming \cup Answers)
        <3>1. back \in Seq(Incoming \cup Answers)
            BY DEF Inv, TypeOK
        <3>2. back' = back \/ (back # <<>> /\ back' = Tail(back))
            BY Zenon DEF Reply, Terminate, network
        <3> QED  BY <3>1, <3>2, SeqParts
    <2> QED  BY <2>1, <2>2 DEF Reply, StartThreads, Terminate, users, threads, network, Inv, TypeOK
<1>2. Stage'
    <2>1. conn = "reply" /\ AnswerFirst /\ master # "none" /\ sock \in {"closed", "open", "broken"}
        BY DEF Reply, Inv, TypeOK, Stage
    <2>2. CASE /\ back # <<>> /\ Head(back) = "auth_success" /\ back' = Tail(back)
               /\ conn' = "idle" /\ UNCHANGED <<sock, master>>
        BY <2>1, <2>2 DEF Inv, Stage, AnswerFirst, HelloAlone
    <2>3. CASE back # <<>> /\ Head(back) # "auth_success" /\ conn' = "dial" /\ UNCHANGED master
        BY <2>1, <2>3 DEF Inv, TypeOK, Stage, AnswerFirst
    <2>4. CASE Terminate
        BY <2>4 DEF Terminate, network, Inv, Stage, AnswerFirst
    <2> QED  BY <2>2, <2>3, <2>4, Zenon DEF Reply
<1>3. ThreadsFit' /\ Carried' /\ Supervised' /\ HelloAlone' /\ SocketOwned'
    BY DEF Reply, threads, network, StartThreads, Terminate, Inv, ThreadsFit, Carried,
           Supervised, HelloAlone, SocketOwned
<1> QED  BY <1>1, <1>2, <1>3 DEF Inv

LEMMA InvWatchDogWakes ==
    ASSUME Inv, WatchDogWakes
    PROVE  Inv'
<1>1. TypeOK'
    <2>1. connErr' \in BOOLEAN /\ run' \in BOOLEAN
        BY Zenon DEF WatchDogWakes, Inv, TypeOK
    <2> QED  BY <2>1 DEF WatchDogWakes, users, threads, network, Inv, TypeOK
<1>2. ThreadsFit' /\ Carried' /\ Stage' /\ Supervised' /\ HelloAlone' /\ SocketOwned'
    BY DEF WatchDogWakes, users, threads, network, Inv, ThreadsFit, Carried, Stage,
           AnswerFirst, Supervised, HelloAlone, SocketOwned
<1> QED  BY <1>1, <1>2 DEF Inv

LEMMA InvJoinSend ==
    ASSUME Inv, JoinSend
    PROVE  Inv'
<1>1. TypeOK'
    BY DEF JoinSend, users, network, Inv, TypeOK
<1>2. ThreadsFit' /\ Carried' /\ Stage' /\ Supervised' /\ HelloAlone' /\ SocketOwned'
    BY DEF JoinSend, users, network, Inv, ThreadsFit, Carried, Stage, AnswerFirst, Supervised,
           HelloAlone, SocketOwned
<1> QED  BY <1>1, <1>2 DEF Inv

LEMMA InvJoinRecv ==
    ASSUME Inv, JoinRecv
    PROVE  Inv'
<1>1. TypeOK'
    BY DEF JoinRecv, users, network, Inv, TypeOK
<1>2. ThreadsFit' /\ Carried' /\ Stage' /\ Supervised' /\ HelloAlone' /\ SocketOwned'
    BY DEF JoinRecv, users, network, Inv, ThreadsFit, Carried, Stage, AnswerFirst, Supervised,
           HelloAlone, SocketOwned
<1> QED  BY <1>1, <1>2 DEF Inv

LEMMA InvClose ==
    ASSUME Inv, Close
    PROVE  Inv'
<1>1. TypeOK'
    <2>1. connErr' \in BOOLEAN /\ run' \in BOOLEAN
        BY Zenon DEF Close, Inv, TypeOK
    <2> QED  BY <2>1 DEF Close, users, threads, Inv, TypeOK
<1>2. HelloAlone'
    BY DEF Close, users, threads, Inv, HelloAlone, ThreadsFit
<1>3. SocketOwned'
    BY DEF Close, users, threads, Inv, SocketOwned, ThreadsFit
<1>4. ThreadsFit' /\ Carried' /\ Stage' /\ Supervised'
    BY DEF Close, users, threads, Inv, ThreadsFit, Carried, Stage, AnswerFirst, Supervised
<1> QED  BY <1>1, <1>2, <1>3, <1>4 DEF Inv

LEMMA InvSendCheck ==
    ASSUME Inv, SendCheck
    PROVE  Inv'
<1>1. TypeOK'
    BY DEF SendCheck, users, network, Inv, TypeOK
<1>2. Supervised'
    BY DEF SendCheck, users, network, Inv, Supervised, ThreadsFit
<1>3. ThreadsFit' /\ Carried' /\ Stage' /\ HelloAlone' /\ SocketOwned'
    BY DEF SendCheck, users, network, Inv, ThreadsFit, Carried, Stage, AnswerFirst, HelloAlone,
           SocketOwned
<1> QED  BY <1>1, <1>2, <1>3 DEF Inv

LEMMA InvSendTake ==
    ASSUME Inv, SendTake
    PROVE  Inv'
<1>1. TypeOK'
    <2>1. sendQueue \in Seq(Outgoing) /\ sendQueue # <<>> /\ Len(sendQueue) <= Capacity
        BY DEF SendTake, Inv, TypeOK
    <2>2. held' \in Outgoing /\ sendQueue' \in Seq(Outgoing) /\ Len(sendQueue') <= Capacity
        BY <2>1, SeqParts, SessionAssumption DEF SendTake
    <2> QED  BY <2>2 DEF SendTake, users, network, Inv, TypeOK
<1>2. Carried'
    BY DEF SendTake, users, network, Inv, Carried, TypeOK
<1>3. SocketOwned'
    BY DEF SendTake, users, network, Inv, SocketOwned, ThreadsFit, Stage
<1>4. ThreadsFit' /\ Stage' /\ Supervised' /\ HelloAlone'
    BY DEF SendTake, users, network, Inv, ThreadsFit, Stage, AnswerFirst, Supervised,
           HelloAlone
<1> QED  BY <1>1, <1>2, <1>3, <1>4 DEF Inv

LEMMA InvSendWrite ==
    ASSUME Inv, SendWrite
    PROVE  Inv'
<1>1. TypeOK'
    <2>1. connErr' \in BOOLEAN /\ run' \in BOOLEAN
        BY Zenon DEF SendWrite, Inv, TypeOK
    <2>2. wire' \in Seq(Outgoing \cup {"hello"})
        <3>1. /\ wire \in Seq(Outgoing \cup {"hello"}) /\ held \in Outgoing
              /\ wire' \in {wire, Append(wire, held)}
            BY DEF SendWrite, Inv, TypeOK, Carried
        <3> QED  BY <3>1
    <2> QED  BY <2>1, <2>2 DEF SendWrite, users, Inv, TypeOK
<1>2. Stage'
    BY DEF SendWrite, users, Inv, Stage, AnswerFirst, ThreadsFit
<1>3. HelloAlone'
    BY DEF SendWrite, users, Inv, HelloAlone, Stage
<1>4. ThreadsFit' /\ Carried' /\ Supervised' /\ SocketOwned'
    BY DEF SendWrite, users, Inv, ThreadsFit, Carried, Supervised, SocketOwned
<1> QED  BY <1>1, <1>2, <1>3, <1>4 DEF Inv

LEMMA InvRecvCheck ==
    ASSUME Inv, RecvCheck
    PROVE  Inv'
<1>1. TypeOK'
    BY DEF RecvCheck, users, network, Inv, TypeOK
<1>2. Supervised'
    BY DEF RecvCheck, users, network, Inv, Supervised, ThreadsFit
<1>3. SocketOwned'
    BY DEF RecvCheck, users, network, Inv, SocketOwned, ThreadsFit, Stage
<1>4. ThreadsFit' /\ Carried' /\ Stage' /\ HelloAlone'
    BY DEF RecvCheck, users, network, Inv, ThreadsFit, Carried, Stage, AnswerFirst, HelloAlone
<1> QED  BY <1>1, <1>2, <1>3, <1>4 DEF Inv

LEMMA InvRecvRead ==
    ASSUME Inv, RecvRead
    PROVE  Inv'
<1>1. TypeOK'
    <2>1. connErr' \in BOOLEAN /\ run' \in BOOLEAN
        BY Zenon DEF RecvRead, Inv, TypeOK
    <2>2. back \in Seq(Incoming)
        BY DEF RecvRead, Inv, Stage, SocketOwned
    <2>3. back' \in Seq(Incoming \cup Answers) /\ got' \in Incoming \cup {"none"}
        <3>1. back \in Seq(Incoming \cup Answers) /\ got \in Incoming \cup {"none"}
            BY DEF Inv, TypeOK
        <3>2. \/ UNCHANGED <<back, got>>
              \/ back # <<>> /\ back' = Tail(back) /\ got' = Head(back)
            BY Zenon DEF RecvRead
        <3> QED  BY <2>2, <3>1, <3>2, SeqParts
    <2> QED  BY <2>1, <2>3 DEF RecvRead, users, Inv, TypeOK
<1>2. Carried'
    BY DEF RecvRead, users, Inv, Carried, ThreadsFit, Stage
<1>3. Stage'
    BY DEF RecvRead, users, Inv, Stage, AnswerFirst, ThreadsFit
<1>4. ThreadsFit' /\ Supervised' /\ HelloAlone' /\ SocketOwned'
    BY DEF RecvRead, users, Inv, ThreadsFit, Supervised, HelloAlone, SocketOwned
<1> QED  BY <1>1, <1>2, <1>3, <1>4 DEF Inv

LEMMA InvRecvPut ==
    ASSUME Inv, RecvPut
    PROVE  Inv'
<1>1. TypeOK'
    <2>1. recvQueue \in Seq(Incoming) /\ Len(recvQueue) < Capacity /\ got \in Incoming
        BY DEF RecvPut, Inv, TypeOK, Carried
    <2>2. recvQueue' \in Seq(Incoming) /\ Len(recvQueue') <= Capacity
        BY <2>1, SeqAppend, SessionAssumption DEF RecvPut
    <2> QED  BY <2>2 DEF RecvPut, users, network, Inv, TypeOK
<1>2. ThreadsFit' /\ Carried' /\ Stage' /\ Supervised' /\ HelloAlone' /\ SocketOwned'
    BY DEF RecvPut, users, network, Inv, ThreadsFit, Carried, Stage, AnswerFirst, Supervised,
           HelloAlone, SocketOwned
<1> QED  BY <1>1, <1>2 DEF Inv

LEMMA InvRequest ==
    ASSUME Inv, Request
    PROVE  Inv'
<1>1. TypeOK'
    <2>1. sendQueue' \in Seq(Outgoing) /\ Len(sendQueue') <= Capacity
        BY Queued DEF Request, Outgoing
    <2> QED  BY <2>1 DEF Request, AsyncSendMsg, threads, network, Inv, TypeOK
<1>2. ThreadsFit' /\ Carried' /\ Stage' /\ Supervised' /\ HelloAlone' /\ SocketOwned'
    BY DEF Request, threads, network, AsyncSendMsg, Inv, ThreadsFit, Carried, Stage,
           AnswerFirst, Supervised, HelloAlone, SocketOwned
<1> QED  BY <1>1, <1>2 DEF Inv

LEMMA InvAwaitConfig ==
    ASSUME Inv, AwaitConfig
    PROVE  Inv'
<1>1. TypeOK'
    <2>1. recvQueue' \in Seq(Incoming) /\ Len(recvQueue') <= Capacity
        <3>1. recvQueue \in Seq(Incoming) /\ Len(recvQueue) <= Capacity
            BY DEF Inv, TypeOK
        <3>2. recvQueue' = recvQueue \/ (recvQueue # <<>> /\ recvQueue' = Tail(recvQueue))
            BY Zenon DEF AwaitConfig, Terminate
        <3> QED  BY <3>1, <3>2, SeqParts, SessionAssumption
    <2> QED  BY <2>1 DEF AwaitConfig, Terminate, users, threads, network, Inv, TypeOK
<1>2. ThreadsFit' /\ Carried' /\ Stage' /\ Supervised' /\ HelloAlone' /\ SocketOwned'
    BY DEF AwaitConfig, threads, network, Terminate, Inv, ThreadsFit, Carried, Stage,
           AnswerFirst, Supervised, HelloAlone, SocketOwned
<1> QED  BY <1>1, <1>2 DEF Inv

LEMMA InvKeepalive ==
    ASSUME Inv, Keepalive
    PROVE  Inv'
<1>1. TypeOK'
    <2>1. sendQueue' \in Seq(Outgoing) /\ Len(sendQueue') <= Capacity
        BY Queued DEF Keepalive, Outgoing
    <2> QED  BY <2>1 DEF Keepalive, AsyncSendMsg, users, threads, network, Inv, TypeOK
<1>2. ThreadsFit' /\ Carried' /\ Stage' /\ Supervised' /\ HelloAlone' /\ SocketOwned'
    BY DEF Keepalive, users, threads, network, AsyncSendMsg, Inv, ThreadsFit, Carried, Stage,
           AnswerFirst, Supervised, HelloAlone, SocketOwned
<1> QED  BY <1>1, <1>2 DEF Inv

LEMMA InvHandle ==
    ASSUME Inv, Handle
    PROVE  Inv'
<1>1. TypeOK'
    <2>1. recvQueue' \in Seq(Incoming) /\ Len(recvQueue') <= Capacity
        <3>1. recvQueue \in Seq(Incoming) /\ Len(recvQueue) <= Capacity
            BY DEF Inv, TypeOK
        <3>2. recvQueue' = recvQueue \/ (recvQueue # <<>> /\ recvQueue' = Tail(recvQueue))
            BY Zenon DEF Handle, Terminate
        <3> QED  BY <3>1, <3>2, SeqParts, SessionAssumption
    <2> QED  BY <2>1 DEF Handle, Terminate, users, threads, network, Inv, TypeOK
<1>2. ThreadsFit' /\ Carried' /\ Stage' /\ Supervised' /\ HelloAlone' /\ SocketOwned'
    BY DEF Handle, threads, network, Terminate, Inv, ThreadsFit, Carried, Stage, AnswerFirst,
           Supervised, HelloAlone, SocketOwned
<1> QED  BY <1>1, <1>2 DEF Inv

LEMMA InvAnswer ==
    ASSUME Inv, Answer
    PROVE  Inv'
<1>1. TypeOK'
    <2>1. sendQueue' \in Seq(Outgoing) /\ Len(sendQueue') <= Capacity
        BY Queued DEF Answer, Outgoing
    <2> QED  BY <2>1 DEF Answer, AsyncSendMsg, threads, network, Inv, TypeOK
<1>2. ThreadsFit' /\ Carried' /\ Stage' /\ Supervised' /\ HelloAlone' /\ SocketOwned'
    BY DEF Answer, threads, network, AsyncSendMsg, Inv, ThreadsFit, Carried, Stage,
           AnswerFirst, Supervised, HelloAlone, SocketOwned
<1> QED  BY <1>1, <1>2 DEF Inv

LEMMA InvMasterReadsHello ==
    ASSUME Inv, MasterReadsHello
    PROVE  Inv'
<1>1. TypeOK'
    BY DEF MasterReadsHello, users, threads, node, Inv, TypeOK
<1>2. HelloAlone'
    BY DEF MasterReadsHello, users, threads, node, Inv, HelloAlone, TypeOK
<1>3. ThreadsFit' /\ Carried' /\ Stage' /\ Supervised' /\ SocketOwned'
    BY DEF MasterReadsHello, users, threads, node, Inv, ThreadsFit, Carried, Stage,
           AnswerFirst, Supervised, SocketOwned
<1> QED  BY <1>1, <1>2, <1>3 DEF Inv

LEMMA InvMasterAnswers ==
    ASSUME Inv, NEW a \in Answers, MasterAnswers(a)
    PROVE  Inv'
<1>1. TypeOK'
    BY DEF MasterAnswers, users, threads, node, Inv, TypeOK
<1>2. Stage'
    <2>1. master = "asked" /\ conn = "reply" /\ back = <<>>
        BY DEF MasterAnswers, Inv, TypeOK, Stage, AnswerFirst
    <2>2. UNCHANGED <<conn, sock>> /\ master' = (IF a = "auth_success" THEN "ok" ELSE "refused")
        BY DEF MasterAnswers, node
    <2>3. back' = <<a>>
        BY <2>1 DEF MasterAnswers
    <2>4. AnswerFirst'
        BY <2>2, <2>3 DEF AnswerFirst
    <2> QED  BY <2>1, <2>2, <2>4 DEF Inv, Stage
<1>3. ThreadsFit' /\ Carried' /\ Supervised' /\ HelloAlone' /\ SocketOwned'
    BY DEF MasterAnswers, users, threads, node, Inv, ThreadsFit, Carried, Supervised,
           HelloAlone, SocketOwned
<1> QED  BY <1>1, <1>2, <1>3 DEF Inv

LEMMA InvMasterReads ==
    ASSUME Inv, MasterReads
    PROVE  Inv'
<1>1. TypeOK'
    <2>1. wire' \in Seq(Outgoing \cup {"hello"})
        BY DEF MasterReads, Inv, TypeOK
    <2>2. back' \in Seq(Incoming \cup Answers)
        <3>1. back \in Seq(Incoming \cup Answers) /\ back' \in {back, Append(back, "config")}
            BY Zenon DEF MasterReads, Inv, TypeOK
        <3> QED  BY <3>1 DEF Incoming
    <2> QED  BY <2>1, <2>2 DEF MasterReads, node, users, threads, Inv, TypeOK
<1>2. Stage'
    <2>1. master = "ok" /\ UNCHANGED <<conn, sock, master>> /\ conn # "hello"
        BY DEF MasterReads, node, Inv, Stage
    <2>2. CASE back' = back
        BY <2>1, <2>2 DEF Inv, Stage, AnswerFirst
    <2>3. CASE back' = Append(back, "config") /\ sock = "open"
        BY <2>1, <2>3, AnswerStays DEF Inv, Stage, Incoming
    <2> QED  BY <2>2, <2>3, Zenon DEF MasterReads
<1>3. ThreadsFit' /\ Carried' /\ Supervised' /\ HelloAlone' /\ SocketOwned'
    BY DEF MasterReads, users, threads, node, Inv, ThreadsFit, Carried, Supervised, HelloAlone,
           SocketOwned
<1> QED  BY <1>1, <1>2, <1>3 DEF Inv

LEMMA InvMasterPushes ==
    ASSUME Inv, MasterPushes
    PROVE  Inv'
<1>1. TypeOK'
    BY DEF MasterPushes, users, threads, node, Inv, TypeOK, Answers, Incoming, Outgoing
<1>2. Stage'
    BY DEF MasterPushes, users, threads, node, Inv, Stage, AnswerFirst, TypeOK, Answers,
           Incoming, Outgoing
<1>3. ThreadsFit' /\ Carried' /\ Supervised' /\ HelloAlone' /\ SocketOwned'
    BY DEF MasterPushes, users, threads, node, Inv, ThreadsFit, Carried, Supervised,
           HelloAlone, SocketOwned
<1> QED  BY <1>1, <1>2, <1>3 DEF Inv

LEMMA InvBreak ==
    ASSUME Inv, Break
    PROVE  Inv'
<1>1. TypeOK'
    <2>1. wire' \in Seq(Outgoing \cup {"hello"}) /\ back' \in Seq(Incoming \cup Answers)
        BY EmptySeq DEF Break, Inv, TypeOK
    <2> QED  BY <2>1 DEF Break, node, users, threads, Inv, TypeOK
<1>2. Stage'
    <2>1. /\ sock' = "broken" /\ back' \in {back, <<>>} /\ wire' \in {wire, <<>>}
          /\ UNCHANGED <<conn, master>>
        BY DEF Break, node
    <2>2. back \in Seq(Incoming) => back' \in Seq(Incoming)
        BY <2>1, EmptySeq
    <2>3. AnswerFirst => AnswerFirst'
        BY <2>1 DEF AnswerFirst
    <2> QED  BY <2>1, <2>2, <2>3 DEF Inv, Stage
<1>3. ThreadsFit' /\ Carried' /\ Supervised' /\ HelloAlone' /\ SocketOwned'
    BY DEF Break, users, threads, node, Inv, ThreadsFit, Carried, Supervised, HelloAlone,
           SocketOwned
<1> QED  BY <1>1, <1>2, <1>3 DEF Inv

LEMMA InvNext ==
    Inv /\ [Next]_vars => Inv'
<1> SUFFICES ASSUME Inv, [Next]_vars PROVE Inv'
    OBVIOUS
<1>1. CASE UNCHANGED vars
    <2>1. TypeOK' /\ ThreadsFit' /\ Carried'
        BY <1>1 DEF vars, users, threads, network, Inv, TypeOK, ThreadsFit, Carried
    <2>2. Stage' /\ Supervised' /\ HelloAlone' /\ SocketOwned'
        BY <1>1 DEF vars, users, threads, network, Inv, Stage, AnswerFirst, Supervised,
                    HelloAlone, SocketOwned
    <2> QED  BY <2>1, <2>2 DEF Inv
<1>2. CASE Connect \/ DialFails
    BY <1>2, InvResolve, InvDial, InvHello, InvReply, InvDialFails DEF Connect
<1>3. CASE WatchDog
    BY <1>3, InvWatchDogWakes, InvJoinSend, InvJoinRecv, InvClose DEF WatchDog
<1>4. CASE Send \/ Recv
    BY <1>4, InvSendCheck, InvSendTake, InvSendWrite, InvRecvCheck, InvRecvRead, InvRecvPut
       DEF Send, Recv
<1>5. CASE Scheduler
    BY <1>5, InvRequest, InvAwaitConfig, InvKeepalive, InvHandle, InvAnswer DEF Scheduler
<1>6. CASE Master \/ Break
    BY <1>6, InvMasterReadsHello, InvMasterAnswers, InvMasterReads, InvMasterPushes, InvBreak
       DEF Master
<1> QED  BY <1>1, <1>2, <1>3, <1>4, <1>5, <1>6 DEF Next

LEMMA InvAlways ==
    Spec => []Inv
BY InvInit, InvNext, PTL DEF Spec

-----------------------------------------------------------------------------
(* The theorems *)

\* Types, and neither queue ever exceeds its capacity.
THEOREM SessionTypeCorrect ==
    Spec => []TypeOK
<1>1. Inv => TypeOK
    BY DEF Inv
<1> QED  BY <1>1, InvAlways, PTL

\* No error is forgotten: while the watchdog sleeps, both threads serve the
\* connection or the error that ended one of them is flagged.
THEOREM NoErrorForgotten ==
    Spec => []Supervised
<1>1. Inv => Supervised
    BY DEF Inv
<1> QED  BY <1>1, InvAlways, PTL

\* Nothing that waited in sendQueue precedes the hello of a connection, and
\* the recv thread never sees its answer.
THEOREM AuthenticationIsAlone ==
    Spec => []HelloAlone
<1>1. Inv => HelloAlone
    BY DEF Inv
<1> QED  BY <1>1, InvAlways, PTL

\* No thread reads or writes the socket while the watchdog replaces it.
THEOREM SocketHasOneOwner ==
    Spec => []SocketOwned
<1>1. Inv => SocketOwned
    BY DEF Inv
<1> QED  BY <1>1, InvAlways, PTL

-----------------------------------------------------------------------------
(* Messages in three places, as the send and the recv thread pass them on *)

\* The thread takes the first message of b.
LEMMA Taken ==
    ASSUME NEW S, NEW a \in Seq(S), NEW b \in Seq(S), b # <<>>
    PROVE  (a \o <<Head(b)>>) \o Tail(b) = (a \o <<>>) \o b
<1>1. Head(b) \in S /\ Tail(b) \in Seq(S) /\ <<Head(b)>> \in Seq(S)
    BY HeadTailProperties
<1>2. <<Head(b)>> \o Tail(b) = b
    <2> DEFINE c == <<Head(b)>> \o Tail(b)
    <2>1. c \in Seq(S) /\ Len(c) = 1 + Len(Tail(b)) /\ Len(Tail(b)) = Len(b) - 1 /\ Len(b) \in Nat
        BY <1>1, ConcatProperties, HeadTailProperties, LenProperties
    <2>2. \A i \in 1..Len(b) : c[i] = b[i]
        BY <1>1, <2>1, ConcatProperties, HeadTailProperties
    <2> QED  BY <2>1, <2>2, SeqEqual
<1>3. (a \o <<Head(b)>>) \o Tail(b) = a \o (<<Head(b)>> \o Tail(b))
    BY <1>1, ConcatAssociative
<1> QED  BY <1>2, <1>3, ConcatEmptySeq

\* The thread passes its message on to a.
LEMMA PassedOn ==
    ASSUME NEW S, NEW a \in Seq(S), NEW b \in Seq(S), NEW m \in S
    PROVE  (Append(a, m) \o <<>>) \o b = (a \o <<m>>) \o b
BY AppendIsConcat, AppendProperties, ConcatEmptySeq

\* A message is added at the end.
LEMMA Added ==
    ASSUME NEW S, NEW a \in Seq(S), NEW b \in Seq(S), NEW m \in S
    PROVE  a \o Append(b, m) = Append(a \o b, m)
<1>1. Append(b, m) = b \o <<m>> /\ Append(a \o b, m) = (a \o b) \o <<m>>
    BY AppendIsConcat, ConcatProperties
<1> QED  BY <1>1, ConcatAssociative

\* The first message is taken away.
LEMMA FirstGone ==
    ASSUME NEW S, NEW a \in Seq(S), NEW b \in Seq(S), NEW c \in Seq(S), a # <<>>
    PROVE  (a \o b) \o c # <<>> /\ Tail((a \o b) \o c) = (Tail(a) \o b) \o c
<1> DEFINE d == b \o c
           t == Tail(a \o d)
           u == Tail(a) \o d
<1>1. d \in Seq(S) /\ Tail(a) \in Seq(S) /\ a \o d \in Seq(S) /\ u \in Seq(S)
    BY ConcatProperties, HeadTailProperties
<1>2. a \o d # <<>>
    BY <1>1, ConcatEqualIffEmpty
<1>3. t \in Seq(S) /\ Len(t) = Len(a) + Len(d) - 1 /\ Len(a) \in Nat \ {0} /\ Len(d) \in Nat
    BY <1>1, <1>2, HeadTailProperties, ConcatProperties, LenProperties, EmptySeq
<1>4. Len(u) = Len(t) /\ Len(Tail(a)) = Len(a) - 1
    BY <1>1, <1>3, ConcatProperties, HeadTailProperties
<1>5. \A i \in 1..Len(t) : t[i] = (a \o d)[i + 1]
    BY <1>1, <1>2, HeadTailProperties
<1>6. ASSUME NEW i \in 1..Len(t) PROVE t[i] = u[i]
    <2>1. t[i] = IF i + 1 <= Len(a) THEN a[i + 1] ELSE d[i + 1 - Len(a)]
        BY <1>1, <1>3, <1>5, ConcatProperties
    <2>2. u[i] = IF i <= Len(a) - 1 THEN Tail(a)[i] ELSE d[i - (Len(a) - 1)]
        BY <1>1, <1>3, <1>4, ConcatProperties
    <2>3. i <= Len(a) - 1 => Tail(a)[i] = a[i + 1]
        BY <1>3, <1>4, HeadTailProperties
    <2> QED  BY <1>3, <2>1, <2>2, <2>3
<1>7. t = u
    BY <1>1, <1>3, <1>4, <1>6, SeqEqual
<1>8. (a \o b) \o c = a \o d /\ (Tail(a) \o b) \o c = u
    <2> HIDE DEF d, t, u
    <2>1. (a \o b) \o c = a \o (b \o c)
        BY ConcatAssociative, SMT
    <2>2. Tail(a) \in Seq(S) => (Tail(a) \o b) \o c = Tail(a) \o (b \o c)
        BY ConcatAssociative, SMT
    <2> QED  BY <1>1, <2>1, <2>2 DEF d, u
<1> QED  BY <1>2, <1>7, <1>8

\* What is left when the first or the last part is cut off.
LEMMA CutOff ==
    ASSUME NEW S, NEW a \in Seq(S), NEW b \in Seq(S)
    PROVE  b \in Lossy!Suffixes(a \o b) /\ a \in Lossy!Prefixes(a \o b)
<1>1. Len(a) \in Nat /\ Len(b) \in Nat /\ Len(a \o b) = Len(a) + Len(b) /\ a \o b \in Seq(S)
    BY ConcatProperties, LenProperties
<1>2. CASE b = <<>>
    <2>1. a \o b = a /\ SubSeq(a, 1, Len(a)) = a /\ Len(a) \in 0..Len(a)
        BY <1>1, <1>2, ConcatEmptySeq, SubSeqFull
    <2>2. b \in Lossy!Suffixes(a \o b)
        BY <1>2 DEF Lossy!Suffixes
    <2>3. a \in Lossy!Prefixes(a)
        BY <2>1 DEF Lossy!Prefixes
    <2> QED  BY <2>1, <2>2, <2>3
<1>3. CASE b # <<>>
    <2>1. Len(b) > 0
        BY <1>1, <1>3, EmptySeq
    <2>2. SubSeq(a \o b, Len(a) + 1, Len(a) + Len(b)) = b
        BY <1>1, <2>1, SubSeqOfConcat2, SubSeqFull
    <2>3. SubSeq(a \o b, 1, Len(a)) = a
        <3>1. CASE a = <<>>
            BY <1>1, <3>1, SubSeqEmpty, EmptySeq
        <3>2. CASE a # <<>>
            BY <1>1, <3>2, SubSeqOfConcat1, SubSeqFull, EmptySeq
        <3> QED  BY <3>1, <3>2
    <2>4. Len(a) + 1 \in 1..Len(a \o b) /\ Len(a) \in 0..Len(a \o b)
        BY <1>1, <2>1
    <2>5. SubSeq(a \o b, Len(a) + 1, Len(a \o b)) \in Lossy!Suffixes(a \o b)
        BY <2>4, Zenon DEF Lossy!Suffixes
    <2>6. SubSeq(a \o b, 1, Len(a)) \in Lossy!Prefixes(a \o b)
        BY <2>4, Zenon DEF Lossy!Prefixes
    <2> QED  BY <1>1, <2>2, <2>3, <2>5, <2>6
<1> QED  BY <1>2, <1>3

\* The same of three parts, whether the first is cut off or not.
LEMMA FlightCut ==
    ASSUME NEW S, NEW a \in Seq(S), NEW b \in Seq(S), NEW c \in Seq(S), NEW d \in {a, <<>>}
    PROVE  (d \o b) \o c \in Lossy!Suffixes((a \o b) \o c)
<1>1. b \o c \in Seq(S)
    BY ConcatProperties
<1>2. (a \o b) \o c = a \o (b \o c)
    BY ConcatAssociative, SMT
<1>3. CASE d = a
    <2>1. (a \o b) \o c \in Seq(S)
        BY ConcatProperties
    <2>2. (a \o b) \o c \in Lossy!Suffixes(<<>> \o ((a \o b) \o c))
        BY <2>1, EmptySeq, CutOff
    <2>3. <<>> \o ((a \o b) \o c) = (a \o b) \o c
        BY <2>1, ConcatEmptySeq
    <2> QED  BY <1>3, <2>2, <2>3
<1>4. CASE d = <<>>
    <2>1. (<<>> \o b) \o c = b \o c
        BY ConcatEmptySeq
    <2>2. b \o c \in Lossy!Suffixes(a \o (b \o c))
        BY <1>1, CutOff
    <2> QED  BY <1>2, <1>4, <2>1, <2>2
<1> QED  BY <1>3, <1>4

LEMMA ArrivalCut ==
    ASSUME NEW S, NEW a \in Seq(S), NEW b \in Seq(S), NEW d \in {b, <<>>}
    PROVE  a \o d \in Lossy!Prefixes(a \o b)
<1>1. CASE d = b
    <2>1. a \o b \in Seq(S)
        BY ConcatProperties
    <2>2. a \o b \in Lossy!Prefixes((a \o b) \o <<>>)
        BY <2>1, EmptySeq, CutOff
    <2>3. (a \o b) \o <<>> = a \o b
        BY <2>1, ConcatEmptySeq
    <2> QED  BY <1>1, <2>2, <2>3
<1>2. CASE d = <<>>
    BY <1>2, CutOff, ConcatEmptySeq
<1> QED  BY <1>1, <1>2

\* The message of the thread is lost.
LEMMA MiddleGone ==
    ASSUME NEW S, NEW a \in Seq(S), NEW m \in S, NEW b \in Seq(S)
    PROVE  /\ Len(a) + 1 \in 1..Len((a \o <<m>>) \o b)
           /\ (a \o <<>>) \o b = Lossy!RemoveAt((a \o <<m>>) \o b, Len(a) + 1)
<1> DEFINE am == a \o <<m>>
           s == am \o b
           n == Len(a)
<1>1. /\ <<m>> \in Seq(S) /\ Len(<<m>>) = 1 /\ am \in Seq(S) /\ Len(am) = n + 1
      /\ s \in Seq(S) /\ Len(s) = n + 1 + Len(b) /\ n \in Nat /\ Len(b) \in Nat
    BY ConcatProperties, LenProperties
<1>2. SubSeq(s, 1, n) = a
    <2>1. CASE n = 0
        BY <1>1, <2>1, SubSeqEmpty, EmptySeq
    <2>2. CASE n # 0
        BY <1>1, <2>2, SubSeqOfConcat1, SubSeqFull
    <2> QED  BY <2>1, <2>2
<1>3. SubSeq(s, n + 2, Len(s)) = b
    <2>1. CASE b = <<>>
        BY <1>1, <2>1, SubSeqEmpty, EmptySeq
    <2>2. CASE b # <<>>
        BY <1>1, <2>2, SubSeqOfConcat2, SubSeqFull, EmptySeq
    <2> QED  BY <2>1, <2>2
<1>4. n + 1 \in 1..Len(s) /\ (n + 1) - 1 = n /\ (n + 1) + 1 = n + 2
    BY <1>1
<1>5. Lossy!RemoveAt(s, n + 1) = a \o b
    BY <1>2, <1>3, <1>4 DEF Lossy!RemoveAt
<1> QED  BY <1>4, <1>5, ConcatEmptySeq

-----------------------------------------------------------------------------
(* The session is a LossyLink *)

LEMMA LInvInit ==
    Init => LInv
BY InvInit DEF Init, LInv, Flagged, Quiet

LEMMA LInvNext ==
    LInv /\ [Next]_vars => LInv'
<1> SUFFICES ASSUME LInv, [Next]_vars PROVE Flagged' /\ Quiet'
    BY InvNext DEF LInv
<1>1. CASE UNCHANGED vars
    BY <1>1 DEF vars, users, threads, network, LInv, Flagged, Quiet
<1>2. CASE Resolve \/ Dial \/ DialFails
    BY <1>2 DEF Resolve, Dial, DialFails, Terminate, users, threads, network, LInv, Flagged,
                Quiet
<1>3. CASE Hello
    BY <1>3 DEF Hello, Terminate, users, threads, network, LInv, Inv, Stage, ThreadsFit, Flagged, Quiet
<1>4. CASE Reply
    <2>1. CASE UNCHANGED <<watchDog, conn, connErr, network>>
        BY <2>1 DEF network, LInv, Flagged, Quiet
    <2>2. CASE /\ back # <<>> /\ back' = Tail(back)
               /\ IF Head(back) = "auth_success"
                  THEN conn' = "idle" /\ StartThreads
                  ELSE conn' = "dial" /\ UNCHANGED <<run, sendT, recvT, watchDog, main>>
               /\ UNCHANGED <<connErr, sock, master>>
        <3>1. conn = "reply" /\ ~connErr /\ watchDog \notin {"joinSend", "joinRecv", "close"}
            BY <1>4 DEF Reply, LInv, Inv, ThreadsFit, Flagged
        <3>2. master \in {"ok", "refused"} /\ (Head(back) = "auth_success" <=> master = "ok")
            BY <2>2, <3>1 DEF LInv, Inv, TypeOK, Stage, AnswerFirst
        <3> QED  BY <2>2, <3>1, <3>2 DEF StartThreads, LInv, Flagged, Quiet
    <2> QED  BY <1>4, <2>1, <2>2 DEF Reply, Terminate, network
<1>5. CASE WatchDog
    BY <1>5 DEF WatchDog, WatchDogWakes, JoinSend, JoinRecv, Close, users, threads, network,
                LInv, Inv, ThreadsFit, Stage, Flagged, Quiet
<1>6. CASE Send
    BY <1>6 DEF Send, SendCheck, SendTake, SendWrite, users, threads, network,
                LInv, Inv, TypeOK, SocketOwned, Flagged, Quiet
<1>7. CASE Recv
    BY <1>7 DEF Recv, RecvCheck, RecvRead, RecvPut, users, threads, network,
                LInv, Inv, TypeOK, SocketOwned, Stage, Flagged, Quiet
<1>8. CASE Scheduler
    BY <1>8 DEF Scheduler, Request, AwaitConfig, Keepalive, Handle, Answer, AsyncSendMsg,
                Terminate, users, threads, network, LInv, Flagged, Quiet
<1>9. CASE Master
    <2>1. UNCHANGED <<watchDog, conn, connErr, sock>>
        BY <1>9 DEF Master, MasterReadsHello, MasterAnswers, MasterReads, MasterPushes, node
    <2>2. Flagged'
        BY <2>1 DEF LInv, Flagged
    <2>3. Quiet'
        BY <1>9, <2>1, HeadTailAppend, EmptySeq
           DEF Master, MasterReadsHello, MasterAnswers, MasterReads, MasterPushes, node, LInv,
               Inv, TypeOK, Stage, AnswerFirst, Quiet
    <2> QED  BY <2>2, <2>3
<1>10. CASE Break
    BY <1>10 DEF Break, node, users, LInv, Inv, Stage, Flagged, Quiet
<1> QED  BY <1>1, <1>2, <1>3, <1>4, <1>5, <1>6, <1>7, <1>8, <1>9, <1>10 DEF Next, Connect

Sent == Outgoing \cup {"hello"}
Come == Incoming \cup Answers

LEMMA Singleton ==
    ASSUME NEW S, NEW m \in S
    PROVE  <<m>> \in Seq(S)
OBVIOUS

LEMMA Parts ==
    ASSUME Inv
    PROVE  /\ OnWire \in Seq(Sent) /\ Writing \in Seq(Sent) /\ sendQueue \in Seq(Sent)
           /\ recvQueue \in Seq(Come) /\ Reading \in Seq(Come) /\ Arriving \in Seq(Come)
           /\ OnWire \o Writing \in Seq(Sent) /\ recvQueue \o Reading \in Seq(Come)
<1>0. /\ wire \in Seq(Sent) /\ back \in Seq(Come)
      /\ sendT = "write" => held \in Sent
      /\ recvT = "put" => got \in Come
    BY DEF Inv, TypeOK, Carried, Sent, Come
<1>1. OnWire \in Seq(Sent) /\ Writing \in Seq(Sent)
    BY <1>0, EmptySeq, Singleton DEF OnWire, Writing
<1>2. sendQueue \in Seq(Sent) /\ recvQueue \in Seq(Come)
    BY SeqMonotonic DEF Inv, TypeOK, Sent, Come
<1>3. Reading \in Seq(Come)
    BY <1>0, EmptySeq, Singleton DEF Reading
<1>4. Arriving \in Seq(Come)
    BY <1>0, HeadTailProperties DEF Arriving
<1> QED  BY <1>1, <1>2, <1>3, <1>4, ConcatProperties

\* What leaves the six places and the link alone leaves the abstract state alone.
LEMMA Unmoved ==
    ASSUME UNCHANGED <<Link, OnWire, Writing, sendQueue, recvQueue, Reading, Arriving>>
    PROVE  UNCHANGED Lossy!vars
BY DEF Lossy!vars, Outbound, Inbound

LEMMA LinkConnects ==
    ASSUME LInv, Connect \/ DialFails
    PROVE  Lossy!Dial \/ UNCHANGED Lossy!vars
<1>1. sendT = "none" /\ recvT = "none" /\ Writing = <<>> /\ Reading = <<>> /\ conn # "idle"
    BY DEF LInv, Inv, HelloAlone, Writing, Reading, Connect, Resolve, Dial, DialFails, Hello, Reply
<1>2. ASSUME UNCHANGED <<Link, OnWire, Arriving, sendQueue, recvQueue>>,
             sendT' \in {"none", "check"}, recvT' \in {"none", "check"}
      PROVE  UNCHANGED Lossy!vars
    BY <1>1, <1>2, Unmoved DEF Writing, Reading
<1>3. CASE Resolve
    BY <1>1, <1>2, <1>3 DEF Resolve, Terminate, threads, network, LInv, Quiet, Link, OnWire, Arriving
<1>4. CASE Dial \/ DialFails
    <2>1. /\ UNCHANGED <<sendT, recvT, sendQueue, recvQueue>>
          /\ Link \in {"down", "new"} /\ Link' \in {"down", "new"}
          /\ UNCHANGED <<OnWire, Arriving>>
        BY <1>4 DEF Dial, DialFails, threads, LInv, Inv, Stage, Quiet, Link, OnWire, Arriving
    <2>2. UNCHANGED <<Writing, Reading>>
        BY <1>1, <2>1 DEF Writing, Reading
    <2>3. UNCHANGED <<Outbound, Inbound>>
        BY <2>1, <2>2 DEF Outbound, Inbound
    <2> QED  BY <2>1, <2>3 DEF Lossy!Dial
<1>5. CASE Hello
    BY <1>1, <1>2, <1>5 DEF Hello, Terminate, threads, network, LInv, Inv, Stage, Link, OnWire, Arriving
<1>6. CASE Reply
    <2>1. CASE UNCHANGED <<conn, threads, sendQueue, recvQueue, network>>
        BY <1>1, <1>2, <2>1 DEF threads, network, Link, OnWire, Arriving
    <2>2. CASE /\ back # <<>> /\ back' = Tail(back)
               /\ IF Head(back) = "auth_success"
                  THEN conn' = "idle" /\ StartThreads
                  ELSE conn' = "dial" /\ UNCHANGED <<run, sendT, recvT, watchDog, main>>
               /\ UNCHANGED <<handler, connErr, held, got, sendQueue, recvQueue, sock, master, wire>>
        <3>1. Head(back) # "auth_success" => Tail(back) = <<>>
            BY <1>6, <2>2 DEF Reply, LInv, Inv, TypeOK, Stage, AnswerFirst, Quiet
        <3>2. UNCHANGED <<Link, OnWire, Arriving>>
            BY <1>1, <2>2, <3>1 DEF Link, OnWire, Arriving
        <3> QED  BY <1>1, <1>2, <2>2, <3>2 DEF StartThreads
    <2> QED  BY <1>6, <2>1, <2>2 DEF Reply, Terminate
<1> QED  BY <1>3, <1>4, <1>5, <1>6 DEF Connect

\* A connection that is closed has broken.
LEMMA LinkCloses ==
    ASSUME LInv, WatchDog
    PROVE  Lossy!Close \/ UNCHANGED Lossy!vars
<1>1. CASE WatchDogWakes \/ JoinSend \/ JoinRecv
    BY <1>1, Unmoved DEF WatchDogWakes, JoinSend, JoinRecv, threads, network, Link, OnWire, Writing,
                         Reading, Arriving
<1>2. CASE Close
    <2>1. /\ conn = "idle" /\ master = "ok" /\ sock = "broken" /\ sendT = "none" /\ recvT = "none"
          /\ master' = "none" /\ sock' = "closed" /\ back' = <<>>
          /\ UNCHANGED <<sendT, recvT, sendQueue, recvQueue>>
        BY <1>2 DEF Close, threads, LInv, Inv, ThreadsFit, Stage, Flagged
    <2>2. Link = "broken" /\ Link' = "down"
        BY <2>1 DEF Link
    <2>3. Outbound = OnWire \o sendQueue /\ Outbound' = sendQueue
        <3>1. Writing = <<>> /\ Writing' = <<>> /\ OnWire' = <<>> /\ UNCHANGED sendQueue
            BY <2>1 DEF Writing, OnWire
        <3>2. OnWire \o <<>> = OnWire /\ (<<>> \o <<>>) \o sendQueue = sendQueue
            BY Parts, ConcatEmptySeq, EmptySeq DEF LInv
        <3> QED  BY <3>1, <3>2 DEF Outbound
    <2>4. Inbound = recvQueue \o Arriving /\ Inbound' = recvQueue
        <3>1. Reading = <<>> /\ Reading' = <<>> /\ Arriving' = <<>> /\ UNCHANGED recvQueue
            BY <2>1 DEF Reading, Arriving
        <3>2. (recvQueue \o <<>>) = recvQueue
            BY Parts, ConcatEmptySeq DEF LInv
        <3> QED  BY <3>1, <3>2 DEF Inbound
    <2>5. Lossy!Cut
        BY <2>3, <2>4, CutOff, Parts DEF Lossy!Cut, LInv
    <2> QED  BY <2>2, <2>5 DEF Lossy!Close
<1> QED  BY <1>1, <1>2 DEF WatchDog

\* A message moves on, or is lost to a connection that has broken.
LEMMA LinkSends ==
    ASSUME LInv, Send
    PROVE  Lossy!Lose \/ UNCHANGED Lossy!vars
<1> USE Parts DEF LInv
<1>1. CASE SendCheck
    BY <1>1, Unmoved DEF SendCheck, threads, network, Link, OnWire, Writing, Reading, Arriving, vars
<1>2. CASE SendTake
    <2>1. /\ Writing = <<>> /\ Writing' = <<Head(sendQueue)>> /\ sendQueue # <<>>
          /\ sendQueue' = Tail(sendQueue)
          /\ UNCHANGED <<Link, OnWire, Inbound>>
        BY <1>2 DEF SendTake, network, Link, OnWire, Writing, Reading, Arriving, Inbound
    <2>2. UNCHANGED Outbound
        BY <2>1, Taken DEF Outbound
    <2> QED  BY <2>1, <2>2 DEF Lossy!vars
<1>3. CASE SendWrite
    <2>1. /\ master = "ok" /\ OnWire = wire /\ OnWire' = wire' /\ held \in Sent
          /\ Writing = <<held>> /\ Writing' = <<>>
          /\ UNCHANGED <<sendQueue, Link, Inbound>>
        BY <1>3 DEF SendWrite, Inv, SocketOwned, Stage, Carried, Link, OnWire, Writing, Reading,
                    Arriving, Inbound, Sent
    <2>2. CASE wire' = Append(wire, held)
        <3>1. Outbound' = Outbound
            BY <2>1, <2>2, PassedOn DEF Outbound
        <3> QED  BY <2>1, <3>1 DEF Lossy!vars
    <2>3. CASE wire' = wire /\ sock # "open"
        <3>1. Link = "broken"
            BY <2>1, <2>3 DEF Link
        <3>2. Outbound = (wire \o <<held>>) \o sendQueue /\ Outbound' = (wire \o <<>>) \o sendQueue
            BY <2>1, <2>3 DEF Outbound
        <3>3. wire \in Seq(Sent) /\ held \in Sent /\ sendQueue \in Seq(Sent)
            BY <2>1
        <3>4. /\ Len(wire) + 1 \in 1..Len((wire \o <<held>>) \o sendQueue)
              /\ (wire \o <<>>) \o sendQueue
                    = Lossy!RemoveAt((wire \o <<held>>) \o sendQueue, Len(wire) + 1)
            BY <3>3, MiddleGone
        <3>5. \E n \in 1..Len(Outbound) : Outbound' = Lossy!RemoveAt(Outbound, n)
            BY <3>2, <3>4, Zenon
        <3> QED  BY <2>1, <3>1, <3>5 DEF Lossy!Lose
    <2> QED  BY <1>3, <2>2, <2>3 DEF SendWrite
<1> QED  BY <1>1, <1>2, <1>3 DEF Send

LEMMA LinkReceives ==
    ASSUME LInv, Recv
    PROVE  UNCHANGED Lossy!vars
<1> USE Parts DEF LInv
<1>1. CASE RecvCheck
    BY <1>1, Unmoved DEF RecvCheck, threads, network, Link, OnWire, Writing, Reading, Arriving, vars
<1>2. CASE RecvRead
    <2>1. conn = "idle" /\ conn' = "idle" /\ Reading = <<>> /\ Arriving = back /\ Arriving' = back'
        BY <1>2 DEF RecvRead, Inv, SocketOwned, Reading, Arriving
    <2>2. UNCHANGED <<Link, OnWire, Writing, sendQueue, recvQueue>>
        BY <1>2 DEF RecvRead, Link, OnWire, Writing
    <2>3. CASE back # <<>> /\ got' = Head(back) /\ back' = Tail(back) /\ recvT' = "put"
        <3>1. Reading' = <<Head(back)>>
            BY <2>3 DEF Reading
        <3>2. Inbound' = Inbound
            BY <2>1, <2>2, <2>3, <3>1, Taken DEF Inbound
        <3> QED  BY <2>2, <3>2 DEF Lossy!vars, Outbound
    <2>4. CASE recvT' = "done" /\ UNCHANGED <<got, back>>
        BY <2>1, <2>2, <2>4, Unmoved DEF Reading
    <2> QED  BY <1>2, <2>3, <2>4 DEF RecvRead
<1>3. CASE RecvPut
    <2>1. /\ got \in Come /\ Reading = <<got>> /\ Reading' = <<>>
          /\ recvQueue' = Append(recvQueue, got)
          /\ UNCHANGED <<Arriving, Link, Outbound>>
        BY <1>3 DEF RecvPut, network, Inv, Carried, Reading, Arriving, Link, OnWire, Writing,
                    Outbound, Come
    <2>2. Inbound' = Inbound
        BY <2>1, PassedOn DEF Inbound
    <2> QED  BY <2>1, <2>2 DEF Lossy!vars
<1> QED  BY <1>1, <1>2, <1>3 DEF Recv

LEMMA LinkSendMsg ==
    ASSUME LInv, NEW m \in Outgoing, AsyncSendMsg(m)
    PROVE  Lossy!Send(m)
<1>1. UNCHANGED <<OnWire, Writing, Link, Inbound>>
    BY DEF AsyncSendMsg, threads, network, OnWire, Writing, Link, Reading, Arriving, Inbound
<1>2. Outbound' = Append(Outbound, m)
    BY <1>1, Parts, Added DEF AsyncSendMsg, Outbound, LInv, Sent
<1> QED  BY <1>1, <1>2 DEF Lossy!Send

LEMMA LinkScheduler ==
    ASSUME LInv, Scheduler
    PROVE  \/ \E m \in Outgoing : Lossy!Send(m)
           \/ Lossy!Receive
           \/ UNCHANGED Lossy!vars
<1>1. CASE Request \/ Keepalive \/ Answer
    BY <1>1, LinkSendMsg DEF Request, Keepalive, Answer, Outgoing
<1>2. CASE AwaitConfig \/ Handle
    <2>1. UNCHANGED <<Link, Outbound, Reading, Arriving>>
        BY <1>2 DEF AwaitConfig, Handle, Terminate, threads, network, Link, OnWire, Writing, Outbound,
                    Reading, Arriving
    <2>2. recvQueue' = recvQueue \/ (recvQueue # <<>> /\ recvQueue' = Tail(recvQueue))
        <3>1. CASE AwaitConfig
            BY <3>1 DEF AwaitConfig, Terminate
        <3>2. CASE Handle
            BY <3>2 DEF Handle, Terminate
        <3> QED  BY <1>2, <3>1, <3>2
    <2>3. CASE recvQueue' = recvQueue
        BY <2>1, <2>3 DEF Inbound, Lossy!vars
    <2>4. CASE recvQueue # <<>> /\ recvQueue' = Tail(recvQueue)
        <3>1. recvQueue \in Seq(Come) /\ Reading \in Seq(Come) /\ Arriving \in Seq(Come)
            BY Parts DEF LInv
        <3>2. /\ (recvQueue \o Reading) \o Arriving # <<>>
              /\ Tail((recvQueue \o Reading) \o Arriving) = (Tail(recvQueue) \o Reading) \o Arriving
            BY <2>4, <3>1, FirstGone
        <3>3. Inbound' = (Tail(recvQueue) \o Reading) \o Arriving
            BY <2>1, <2>4 DEF Inbound
        <3>4. Inbound # <<>> /\ Inbound' = Tail(Inbound)
            BY <3>2, <3>3 DEF Inbound
        <3> QED  BY <2>1, <3>4 DEF Lossy!Receive
    <2> QED  BY <2>2, <2>3, <2>4
<1> QED  BY <1>1, <1>2 DEF Scheduler

\* What the master pushes comes last.
LEMMA Pushed ==
    ASSUME LInv, NEW m \in Incoming, master = "ok", sock = "open", back' = Append(back, m),
           UNCHANGED <<conn, recvT, got, recvQueue>>
    PROVE  Inbound' = Append(Inbound, m)
<1>1. m \in Come /\ UNCHANGED Reading
    BY DEF Reading, Come
<1>2. conn # "idle" => back # <<>>
    <2>1. conn \in {"idle", "reply"}
        BY DEF LInv, Inv, TypeOK, Stage
    <2> QED  BY <2>1 DEF LInv, Inv, Stage, AnswerFirst
<1>3. back \in Seq(Come) /\ back' # <<>>
    BY <1>1, AppendProperties DEF LInv, Inv, TypeOK, Come
<1>4. Arriving' = Append(Arriving, m)
    BY <1>1, <1>2, <1>3, HeadTailAppend DEF Arriving
<1>5. recvQueue \o Reading \in Seq(Come) /\ Arriving \in Seq(Come)
    BY Parts DEF LInv
<1>6. (recvQueue \o Reading) \o Append(Arriving, m) = Append((recvQueue \o Reading) \o Arriving, m)
    BY <1>1, <1>5, Added
<1>7. Inbound' = (recvQueue \o Reading) \o Arriving'
    BY <1>1 DEF Inbound
<1> QED  BY <1>4, <1>6, <1>7 DEF Inbound

LEMMA LinkMaster ==
    ASSUME LInv, Master
    PROVE  \/ Lossy!Accept \/ Lossy!Deliver
           \/ \E m \in Incoming : Lossy!Push(m)
           \/ UNCHANGED Lossy!vars
<1> USE DEF node, users, threads
<1>1. CASE MasterReadsHello
    BY <1>1, Unmoved DEF MasterReadsHello, Link, OnWire, Writing, Reading, Arriving
<1>2. ASSUME NEW a \in Answers, MasterAnswers(a) PROVE Lossy!Accept \/ UNCHANGED Lossy!vars
    <2>1. back = <<>> /\ wire = <<>> /\ back' = <<a>> /\ conn # "idle"
        <3>1. master = "asked"
            BY <1>2 DEF MasterAnswers
        <3>2. conn = "reply"
            BY <3>1 DEF LInv, Inv, TypeOK, Stage
        <3> QED  BY <1>2, <3>1, <3>2 DEF MasterAnswers, LInv, Inv, Stage, AnswerFirst, HelloAlone
    <2>2. UNCHANGED <<OnWire, Writing, sendQueue, recvQueue, Reading, Arriving>>
        BY <1>2, <2>1 DEF MasterAnswers, OnWire, Writing, Reading, Arriving
    <2>3. Link = "new" /\ Link' \in {"new", "up"}
        BY <1>2 DEF MasterAnswers, Link
    <2> QED  BY <2>2, <2>3 DEF Lossy!Accept, Lossy!vars, Outbound, Inbound
<1>3. CASE MasterReads
    <2>1. /\ OnWire # <<>> /\ OnWire' = Tail(OnWire)
          /\ Link \in {"up", "broken"} /\ UNCHANGED <<Link, Writing, sendQueue>>
          /\ master = "ok" /\ UNCHANGED <<conn, recvT, got, recvQueue>>
        BY <1>3 DEF MasterReads, Link, OnWire, Writing
    <2>2. Outbound # <<>> /\ Outbound' = Tail(Outbound)
        <3>1. OnWire \in Seq(Sent) /\ Writing \in Seq(Sent) /\ sendQueue \in Seq(Sent)
            BY Parts DEF LInv
        <3>2. /\ (OnWire \o Writing) \o sendQueue # <<>>
              /\ Tail((OnWire \o Writing) \o sendQueue) = (Tail(OnWire) \o Writing) \o sendQueue
            BY <2>1, <3>1, FirstGone
        <3>3. Outbound' = (Tail(OnWire) \o Writing) \o sendQueue
            BY <2>1 DEF Outbound
        <3> QED  BY <3>2, <3>3 DEF Outbound
    <2>3. CASE back' = back
        BY <2>1, <2>2, <2>3 DEF Lossy!Deliver, Inbound, Reading, Arriving
    <2>4. CASE back' = Append(back, "config") /\ sock = "open"
        <3>1. Inbound' = Append(Inbound, "config") /\ "config" \in Incoming /\ Link = "up"
            BY <2>1, <2>4, Pushed DEF Incoming, Link
        <3> QED  BY <2>1, <2>2, <3>1 DEF Lossy!Deliver
    <2> QED  BY <1>3, <2>3, <2>4, Zenon DEF MasterReads
<1>4. CASE MasterPushes
    <2>1. "push" \in Incoming /\ Link = "up" /\ UNCHANGED <<Link, Outbound>>
        BY <1>4 DEF MasterPushes, Incoming, Link, OnWire, Writing, Outbound
    <2>2. Inbound' = Append(Inbound, "push")
        BY <1>4, <2>1, Pushed DEF MasterPushes
    <2> QED  BY <2>1, <2>2 DEF Lossy!Push
<1> QED  BY <1>1, <1>2, <1>3, <1>4 DEF Master

\* Whatever of the flight is lost is the first or the last part.
LEMMA LinkBreaks ==
    ASSUME LInv, Break
    PROVE  Lossy!Dial \/ Lossy!Break \/ UNCHANGED Lossy!vars
<1> USE Parts DEF LInv
<1>1. /\ UNCHANGED <<conn, master, Writing, Reading, sendQueue, recvQueue>>
      /\ sock = "open" /\ sock' = "broken"
      /\ wire' \in {wire, <<>>} /\ back' \in {back, <<>>}
    BY DEF Break, node, users, threads, Writing, Reading
<1>2. Arriving' \in {Arriving, <<>>} /\ OnWire' \in {OnWire, <<>>}
    BY <1>1 DEF Arriving, OnWire
<1>3. CASE master # "ok"
    <2>1. Link = "new" /\ Link' = "down" /\ OnWire = OnWire'
        BY <1>1, <1>3 DEF Link, OnWire
    <2>2. Arriving = <<>> /\ Arriving' = <<>>
        <3>1. conn # "idle"
            BY <1>3 DEF Inv, Stage
        <3>2. back = <<>> \/ Tail(back) = <<>>
            BY <1>3, <3>1 DEF Inv, TypeOK, Stage, AnswerFirst, Quiet
        <3> QED  BY <1>1, <3>1, <3>2 DEF Arriving
    <2> QED  BY <1>1, <2>1, <2>2 DEF Lossy!Dial, Outbound, Inbound
<1>4. CASE master = "ok"
    <2>1. Link = "up" /\ Link' = "broken"
        BY <1>1, <1>4 DEF Link
    <2>2. Outbound' \in Lossy!Suffixes(Outbound)
        <3>1. OnWire \in Seq(Sent) /\ Writing \in Seq(Sent) /\ sendQueue \in Seq(Sent)
            OBVIOUS
        <3>2. Outbound' = (OnWire' \o Writing) \o sendQueue
            BY <1>1 DEF Outbound
        <3> QED  BY <1>2, <3>1, <3>2, FlightCut DEF Outbound
    <2>3. Inbound' \in Lossy!Prefixes(Inbound)
        <3>1. recvQueue \o Reading \in Seq(Come) /\ Arriving \in Seq(Come)
            OBVIOUS
        <3>2. Inbound' = (recvQueue \o Reading) \o Arriving'
            BY <1>1 DEF Inbound
        <3> QED  BY <1>2, <3>1, <3>2, ArrivalCut DEF Inbound
    <2> QED  BY <2>1, <2>2, <2>3 DEF Lossy!Break, Lossy!Cut
<1> QED  BY <1>3, <1>4

LEMMA LinkNext ==
    ASSUME LInv, [Next]_vars
    PROVE  [Lossy!Next]_Lossy!vars
<1>1. CASE UNCHANGED vars
    BY <1>1, Unmoved DEF vars, users, threads, network, Link, OnWire, Writing, Reading, Arriving
<1>2. CASE Next
    BY <1>2, LinkConnects, LinkCloses, LinkSends, LinkReceives, LinkScheduler, LinkMaster, LinkBreaks
       DEF Next, Lossy!Next
<1> QED  BY <1>1, <1>2

\* The session implements LossyLink: order, no message twice, none before the
\* connection is accepted, and loss by a broken connection only.
THEOREM SessionImplementsLink ==
    Spec => ImplementsLink
<1>1. Init => Lossy!Init
    BY ConcatEmptySeq, EmptySeq
       DEF Init, Lossy!Init, Link, OnWire, Writing, Outbound, Reading, Arriving, Inbound
<1>2. LInv /\ [Next]_vars => [Lossy!Next]_Lossy!vars
    BY LinkNext
<1> QED  BY <1>1, <1>2, LInvInit, LInvNext, PTL DEF Spec, ImplementsLink, Lossy!Spec

-----------------------------------------------------------------------------
(* What blocks the session for good *)

LEMMA BlockedNext ==
    ASSUME Inv, Blocked, [Next]_vars
    PROVE  Blocked'
<1>1. conn = "idle" /\ (watchDog = "joinRecv" => sendT = "none")
    BY DEF Inv, ThreadsFit, Blocked, BlockedAtStart, BlockedFull
<1>2. ~Connect /\ ~DialFails
    BY <1>1 DEF Connect, Resolve, Dial, DialFails, Hello, Reply
<1>3. ~WatchDog /\ ~Send /\ ~Recv
    BY <1>1, SessionAssumption
       DEF Blocked, BlockedAtStart, BlockedFull, WatchDog, WatchDogWakes, JoinSend, JoinRecv, Close,
           Send, SendCheck, SendTake, SendWrite, Recv, RecvCheck, RecvRead, RecvPut
<1>4. CASE Master \/ Break \/ UNCHANGED vars
    BY <1>4 DEF Master, MasterReadsHello, MasterAnswers, MasterReads, MasterPushes, Break, node, users,
                threads, network, vars, Blocked, BlockedAtStart, BlockedFull
<1>5. CASE Scheduler
    <2>1. main = "running" /\ BlockedFull
        BY <1>5 DEF Scheduler, Request, AwaitConfig, Keepalive, Handle, Answer, Blocked,
                    BlockedAtStart, BlockedFull
    <2>2. handler # "read" /\ handler = "slave" /\ Keepalive
        BY <1>5, <2>1, SessionAssumption
           DEF Scheduler, Request, AwaitConfig, Keepalive, Handle, Answer, AsyncSendMsg, BlockedFull
    <2> QED  BY <2>1, <2>2 DEF Keepalive, AsyncSendMsg, threads, users, Blocked, BlockedFull
<1> QED  BY <1>2, <1>3, <1>4, <1>5 DEF Next

\* The two circles are closed for queues of any size, 4096 places included.
THEOREM BlockedStays ==
    Spec => StaysBlocked
<1>1. Inv /\ [Next]_vars => [Blocked => Blocked']_vars
    BY BlockedNext
<1> QED  BY <1>1, InvAlways, PTL DEF Spec, StaysBlocked

\* Once in one of them the session never serves again, nor does the process end.
THEOREM BlockedNeverServes ==
    Spec => [](Blocked => [](~Serving /\ ~Dead))
<1>1. Inv /\ Blocked /\ [Next]_vars => Blocked'
    BY BlockedNext
<1>2. Blocked => ~Serving /\ ~Dead
    BY DEF Blocked, BlockedAtStart, BlockedFull, Serving, Dead
<1> QED  BY <1>1, <1>2, InvAlways, PTL DEF Spec

===============================================================================
