--------------------------- MODULE ServerSessionProofs ---------------------------
(***************************************************************************)
(* That the counterexample of one client is every client's lot: for any    *)
(* number of clients and requests, connections made, kept or given up, no  *)
(* coroutine but recvTask ever starts.  The invariant is about the place   *)
(* of handleClient: recvTask ends by an exception only, and an exception   *)
(* ends handleClient, so it never comes to its second await.               *)
(***************************************************************************)
EXTENDS ServerSession, TLAPS

Typed ==
    /\ task \in [Client -> [Task -> {"lazy", "running", "waiting", "returned", "thrown"}]]
    /\ sent \in [Client -> Nat] /\ wire \in [Client -> Nat] /\ recvQueue \in [Client -> Nat]
    /\ sendQueue \in [Client -> Nat] /\ answered \in [Client -> Nat]
    /\ waiters \in [Client -> [{"send", "process"} -> Nat]]
    /\ awaits \in [Client -> {"accept", "recv", "ended"}]

\* The coroutines of a client: the two behind recvTask are never begun.
OnlyReceiving == \A c \in Client :
    /\ task[c]["recv"] \in {"lazy", "running", "thrown"}
    /\ task[c]["send"] = "lazy" /\ task[c]["process"] = "lazy"
    /\ waiters[c]["send"] = 0 /\ waiters[c]["process"] = 0

SInv == Typed /\ OnlyReceiving /\ PiledUp

-----------------------------------------------------------------------------
LEMMA SInvInit ==
    Init => SInv
BY DEF Init, SInv, Typed, OnlyReceiving, PiledUp, Task

\* A step that leaves the coroutines to themselves and no request behind.
LEMMA ReceivingStep ==
    ASSUME SInv, NEW c \in Client, NEW state \in {"lazy", "running", "thrown"},
           task' = [task EXCEPT ![c]["recv"] = state],
           UNCHANGED <<waiters, sendQueue, answered>>,
           awaits' \in [Client -> {"accept", "recv", "ended"}],
           sent' \in [Client -> Nat], wire' \in [Client -> Nat], recvQueue' \in [Client -> Nat],
           \A d \in Client : wire'[d] + recvQueue'[d] = sent'[d]
    PROVE  SInv'
<1>1. task' \in [Client -> [Task -> {"lazy", "running", "waiting", "returned", "thrown"}]]
    BY DEF SInv, Typed, Task
<1>2. ASSUME NEW d \in Client
      PROVE  /\ task'[d]["recv"] \in {"lazy", "running", "thrown"}
             /\ task'[d]["send"] = "lazy" /\ task'[d]["process"] = "lazy"
    BY DEF SInv, Typed, OnlyReceiving, Task
<1> QED  BY <1>1, <1>2 DEF SInv, Typed, OnlyReceiving, PiledUp

LEMMA SInvNext ==
    ASSUME SInv, [Next]_vars
    PROVE  SInv'
<1> USE DEF Task
<1>t. /\ task \in [Client -> [Task -> {"lazy", "running", "waiting", "returned", "thrown"}]]
      /\ awaits \in [Client -> {"accept", "recv", "ended"}]
      /\ sent \in [Client -> Nat] /\ wire \in [Client -> Nat] /\ recvQueue \in [Client -> Nat]
      /\ \A c \in Client : /\ wire[c] + recvQueue[c] = sent[c] /\ sendQueue[c] = 0
                           /\ task[c]["recv"] \in {"lazy", "running", "thrown"}
                           /\ task[c]["send"] = "lazy" /\ task[c]["process"] = "lazy"
                           /\ waiters[c]["send"] = 0 /\ waiters[c]["process"] = 0
    BY DEF SInv, Typed, OnlyReceiving, PiledUp
<1>1. ASSUME NEW c \in Client, HandleClient(c) PROVE SInv'
    <2>1. CASE Await(c, "recv")
        <3>1. task' = [task EXCEPT ![c]["recv"] = "running"]
            BY <2>1 DEF Await
        <3>2. awaits' \in [Client -> {"accept", "recv", "ended"}]
            BY <2>1, <1>t DEF Await
        <3> QED  BY <1>1, <1>t, <3>1, <3>2, ReceivingStep DEF HandleClient, clientVars
    <2>2. CASE awaits' = [awaits EXCEPT ![c] = "ended"] /\ UNCHANGED task
        <3>1. awaits' \in [Client -> {"accept", "recv", "ended"}]
            BY <2>2, <1>t
        <3>2. task' = [task EXCEPT ![c]["recv"] = task[c]["recv"]]
            BY <2>2, <1>t
        <3> QED  BY <1>1, <1>t, <3>1, <3>2, ReceivingStep DEF HandleClient, clientVars
    <2> QED  BY <1>1, <2>1, <2>2 DEF HandleClient
<1>2. ASSUME NEW c \in Client, Returned(c, "recv", "send") \/ Returned(c, "send", "process") PROVE SInv'
    BY <1>2, <1>t DEF Returned
<1>3. ASSUME NEW c \in Client, Thrown(c) PROVE SInv'
    <2>1. awaits' \in [Client -> {"accept", "recv", "ended"}]
        BY <1>3, <1>t DEF Thrown
    <2>2. task' = [task EXCEPT ![c]["recv"] = task[c]["recv"]]
        BY <1>3, <1>t DEF Thrown
    <2> QED  BY <1>3, <1>t, <2>1, <2>2, ReceivingStep DEF Thrown, clientVars
<1>4. ASSUME NEW c \in Client, RecvTask(c) PROVE SInv'
    <2>0. UNCHANGED <<awaits, sendQueue, sent, answered>>
        BY <1>4 DEF RecvTask
    <2>1. CASE /\ wire[c] > 0
               /\ wire' = [wire EXCEPT ![c] = @ - 1]
               /\ recvQueue' = [recvQueue EXCEPT ![c] = @ + 1]
               /\ Wake(c, "process")
        <3>1. waiters' = waiters /\ task' = task
            <4>1. waiters \in [Client -> [{"send", "process"} -> Nat]]
                BY DEF SInv, Typed
            <4>2. waiters[c]["process"] = 0 /\ task[c]["process"] = "lazy"
                BY <1>t
            <4>3. task' = task
                BY <2>1, <4>2 DEF Wake
            <4>4. waiters' = [waiters EXCEPT ![c]["process"] =
                                IF waiters[c]["process"] > 0 THEN waiters[c]["process"] - 1 ELSE 0]
                BY <2>1 DEF Wake
            <4> QED  BY <4>1, <4>2, <4>3, <4>4
        <3>2. task' = [task EXCEPT ![c]["recv"] = task[c]["recv"]]
            BY <3>1, <1>t
        <3>3. wire' \in [Client -> Nat] /\ recvQueue' \in [Client -> Nat]
            BY <2>1, <1>t
        <3>4. ASSUME NEW d \in Client PROVE wire'[d] + recvQueue'[d] = sent'[d]
            BY <2>0, <2>1, <1>t
        <3> QED  BY <1>t, <2>0, <3>1, <3>2, <3>3, <3>4, ReceivingStep
    <2>2. CASE /\ task' = [task EXCEPT ![c]["recv"] = "thrown"]
               /\ UNCHANGED <<wire, recvQueue, waiters>>
        BY <1>t, <2>0, <2>2, ReceivingStep
    <2> QED  BY <1>4, <2>1, <2>2 DEF RecvTask
<1>5. ASSUME NEW c \in Client, ProcessTask(c) \/ SendTask(c) PROVE SInv'
    BY <1>5, <1>t DEF ProcessTask, SendTask
<1>6. ASSUME NEW c \in Client, NEW t \in {"send", "process"}, TimerFires(c, t) \/ WaitForTimer(c, t)
      PROVE  SInv'
    BY <1>6, <1>t DEF TimerFires, WaitForTimer
<1>7. ASSUME NEW c \in Client, Ask(c) PROVE SInv'
    <2>1. sent' \in [Client -> Nat] /\ wire' \in [Client -> Nat]
        BY <1>7, <1>t DEF Ask
    <2>2. ASSUME NEW d \in Client PROVE wire'[d] + recvQueue'[d] = sent'[d]
        BY <1>7, <1>t DEF Ask
    <2>3. task' = [task EXCEPT ![c]["recv"] = task[c]["recv"]]
        BY <1>7, <1>t DEF Ask
    <2> QED  BY <1>7, <1>t, <2>1, <2>2, <2>3, ReceivingStep DEF Ask
<1>8. ASSUME NEW c \in Client, Leave(c) PROVE SInv'
    BY <1>8 DEF Leave, SInv, Typed, OnlyReceiving, PiledUp
<1>9. CASE UNCHANGED vars
    BY <1>9 DEF vars, SInv, Typed, OnlyReceiving, PiledUp
<1> QED  BY <1>1, <1>2, <1>3, <1>4, <1>5, <1>6, <1>7, <1>8, <1>9 DEF Next, EventLoop

-----------------------------------------------------------------------------
\* No client is ever answered, and none of its requests ever leaves recvQueue,
\* however many clients and requests there are (Server.hpp:62-64).
THEOREM RequestsPileUp ==
    Spec => []PiledUp
<1>1. SInv => PiledUp
    BY DEF SInv
<1>2. SInv /\ [Next]_vars => SInv'
    BY SInvNext
<1> QED  BY <1>1, <1>2, SInvInit, PTL DEF Spec

=============================================================================
