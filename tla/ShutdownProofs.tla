----------------------------- MODULE ShutdownProofs -----------------------------
(***************************************************************************)
(* Type correctness of Shutdown, and that no thread outlives what it uses, *)
(* for queues of any size and any number of messages and breaks.  The      *)
(* point of the induction: a thread that has been joined does not come     *)
(* back.  Only the watchdog starts threads, send and recv, and these are   *)
(* joined after it.                                                        *)
(***************************************************************************)
EXTENDS Shutdown, TLAPS

\* What main comes to only after the join of each thread.
Passed ==
    /\ main \in {"keepalive", "report", "rotate", "log", "watchDog", "send", "recv", "exit"} =>
            at["msgProc"] = "ended"
    /\ main \in {"report", "rotate", "log", "watchDog", "send", "recv", "exit"} =>
            at["keepalive"] = "ended"
    /\ main \in {"rotate", "log", "watchDog", "send", "recv", "exit"} => at["report"] = "ended"
    /\ main \in {"log", "watchDog", "send", "recv", "exit"} => at["rotate"] = "ended"
    /\ main \in {"watchDog", "send", "recv", "exit"} => at["log"] = "ended"
    /\ main \in {"send", "recv", "exit"} => at["watchDog"] = "ended"
    /\ main \in {"recv", "exit"} => at["send"] = "ended"
    /\ main = "exit" => at["recv"] = "ended"

Inv == TypeOK /\ Passed

Place == {"dequeue", "enqueue", "read", "wait", "write", "joinSend", "joinRecv", "connect",
          "start", "ended"} \cup Message

-----------------------------------------------------------------------------
LEMMA Loops ==
    ASSUME NEW t, NEW place \in Place, Loop(t, place)
    PROVE  \E p \in Place : Goto(t, p)
BY DEF Loop, Place

\* One thread, not yet ended, goes to another place; main stays where it is.
LEMMA OneMoves ==
    ASSUME Inv, NEW t \in Thread, NEW p \in Place, Goto(t, p), at[t] # "ended", main' = main
    PROVE  at' \in [Thread -> Place] /\ Passed'
<1>1. at \in [Thread -> Place]
    BY DEF Inv, TypeOK, Place
<1>2. at' \in [Thread -> Place] /\ \A u \in Thread : at[u] = "ended" => at'[u] = "ended"
    BY <1>1 DEF Goto
<1>3. Passed'
    BY <1>2 DEF Inv, Passed, Thread
<1> QED  BY <1>2, <1>3

LEMMA LoopMoves ==
    ASSUME Inv, NEW t \in Thread, NEW p \in Place, Loop(t, p), at[t] # "ended", main' = main
    PROVE  at' \in [Thread -> Place] /\ Passed'
BY Loops, OneMoves

LEMMA SeqParts ==
    ASSUME NEW S, NEW s \in Seq(S), s # <<>>
    PROVE  Head(s) \in S /\ Tail(s) \in Seq(S) /\ Len(Tail(s)) = Len(s) - 1 /\ Len(s) \in Nat
OBVIOUS

LEMMA SeqAppend ==
    ASSUME NEW S, NEW s \in Seq(S), NEW m \in S
    PROVE  Append(s, m) \in Seq(S) /\ Len(Append(s, m)) = Len(s) + 1 /\ Len(s) \in Nat
OBVIOUS

\* TypeOK from the parts a step changes.
LEMMA Typed ==
    ASSUME main \in Thread \cup {"serving", "exit", "dead"}, flag \subseteq Thread,
           at \in [Thread -> Place],
           recvQueue \in Seq(Message), Len(recvQueue) <= Capacity,
           sendQueue \in 0..Capacity, logQueue \in 0..Capacity,
           inHand \in Message, connErr \in BOOLEAN, link \in BOOLEAN,
           pushes \in 0..MaxPushes, breaks \in 0..MaxBreaks
    PROVE  TypeOK
BY DEF TypeOK, Place

LEMMA InvInit ==
    Init => Inv
<1> SUFFICES ASSUME Init PROVE Inv
    OBVIOUS
<1>1. at \in [Thread -> Place]
    BY DEF Init, Place
<1>2. recvQueue \in Seq(Message) /\ Len(recvQueue) = 0
    BY DEF Init
<1>3. connErr \in BOOLEAN /\ link \in BOOLEAN
    BY Zenon DEF Init
<1>4. TypeOK
    BY <1>1, <1>2, <1>3, ShutdownAssumption DEF Init, TypeOK, Place, Message
<1> QED  BY <1>4 DEF Init, Inv, Passed

-----------------------------------------------------------------------------
LEMMA MainSteps ==
    ASSUME Inv, Signal \/ Main
    PROVE  Inv'
<1>t. TypeOK
    BY DEF Inv
<1>1. CASE Signal
    <2>1. main = "serving" /\ main' = "msgProc" /\ flag' \subseteq Thread
          /\ UNCHANGED <<at, recvQueue, sendQueue, logQueue, inHand, connErr, link, pushes, breaks>>
        BY <1>1, <1>t DEF Signal, Joins, TypeOK
    <2>2. TypeOK'
        BY <2>1, <1>t DEF TypeOK, Thread
    <2>3. Passed'
        BY <2>1 DEF Passed
    <2> QED  BY <2>2, <2>3 DEF Inv
<1>2. CASE Main
    <2>1. PICK i \in 1..8 : Joined(i)
        BY <1>2 DEF Main, Joins
    <2>2. /\ at[main] = "ended"
          /\ \/ main = "msgProc" /\ main' = "keepalive"
             \/ main = "keepalive" /\ main' = "report"
             \/ main = "report" /\ main' = "rotate"
             \/ main = "rotate" /\ main' = "log"
             \/ main = "log" /\ main' = "watchDog"
             \/ main = "watchDog" /\ main' = "send"
             \/ main = "send" /\ main' = "recv"
             \/ main = "recv" /\ main' = "exit"
        BY <2>1 DEF Joined, Joins
    <2>3. flag' \subseteq flag
          /\ UNCHANGED <<at, recvQueue, sendQueue, logQueue, inHand, connErr, link, pushes, breaks>>
        BY <2>1 DEF Joined
    <2>4. TypeOK'
        BY <2>2, <2>3, <1>t DEF TypeOK, Thread
    <2>5. Passed'
        BY <2>2, <2>3 DEF Inv, Passed
    <2> QED  BY <2>4, <2>5 DEF Inv
<1> QED  BY <1>1, <1>2

LEMMA WorkerSteps ==
    ASSUME Inv, MsgProc \/ (\E t \in {"keepalive", "report"} : Report(t)) \/ RotateTurn \/ LogTurn
    PROVE  Inv'
<1>t. TypeOK /\ Capacity \in Nat
    BY ShutdownAssumption DEF Inv
<1>1. CASE MsgTake
    <2>1. /\ at["msgProc"] = "dequeue" /\ recvQueue # <<>> /\ recvQueue' = Tail(recvQueue)
          /\ Goto("msgProc", Head(recvQueue))
          /\ UNCHANGED <<main, flag, sendQueue, logQueue, inHand, connErr, link, pushes, breaks>>
        BY <1>1 DEF MsgTake
    <2>2. /\ Head(recvQueue) \in Message /\ Tail(recvQueue) \in Seq(Message)
          /\ Len(Tail(recvQueue)) <= Capacity
        BY <2>1, <1>t, SeqParts DEF TypeOK
    <2>3. at' \in [Thread -> Place] /\ Passed'
        BY <2>1, <2>2, OneMoves DEF Thread, Place
    <2>4. TypeOK'
        BY <2>1, <2>2, <2>3, <1>t DEF TypeOK, Place
    <2> QED  BY <2>3, <2>4 DEF Inv
<1>2. CASE MsgRevoke \/ MsgAdjust
    <2>1. /\ at["msgProc"] \in {"revoke", "adjust"} /\ Loop("msgProc", "dequeue")
          /\ logQueue' \in 0..Capacity /\ sendQueue' \in 0..Capacity
          /\ UNCHANGED <<main, flag, recvQueue, inHand, connErr, link, pushes, breaks>>
        BY <1>2, <1>t DEF MsgRevoke, MsgAdjust, TypeOK
    <2>2. at' \in [Thread -> Place] /\ Passed'
        BY <2>1, LoopMoves DEF Thread, Place
    <2>3. TypeOK'
        BY <2>1, <2>2, <1>t DEF TypeOK, Place
    <2> QED  BY <2>2, <2>3 DEF Inv
<1>3. ASSUME NEW t \in {"keepalive", "report"}, Report(t) PROVE Inv'
    <2>1. /\ at[t] = "enqueue" /\ Loop(t, "enqueue") /\ sendQueue' \in 0..Capacity
          /\ UNCHANGED <<main, flag, recvQueue, logQueue, inHand, connErr, link, pushes, breaks>>
        BY <1>3, <1>t DEF Report, TypeOK
    <2>2. at' \in [Thread -> Place] /\ Passed'
        BY <2>1, LoopMoves DEF Thread, Place
    <2>3. TypeOK'
        BY <2>1, <2>2, <1>t DEF TypeOK, Place
    <2> QED  BY <2>2, <2>3 DEF Inv
<1>4. CASE RotateTurn
    <2>1. /\ at["rotate"] = "wait" /\ Loop("rotate", "wait")
          /\ UNCHANGED <<main, flag, recvQueue, sendQueue, logQueue, inHand, connErr, link, pushes, breaks>>
        BY <1>4 DEF RotateTurn
    <2>2. at' \in [Thread -> Place] /\ Passed'
        BY <2>1, LoopMoves DEF Thread, Place
    <2>3. TypeOK'
        BY <2>1, <2>2, <1>t DEF TypeOK, Place
    <2> QED  BY <2>2, <2>3 DEF Inv
<1>5. CASE LogTurn
    <2>1. /\ at["log"] = "dequeue" /\ Loop("log", "dequeue") /\ logQueue' \in 0..Capacity
          /\ UNCHANGED <<main, flag, recvQueue, sendQueue, inHand, connErr, link, pushes, breaks>>
        BY <1>5, <1>t DEF LogTurn, TypeOK
    <2>2. at' \in [Thread -> Place] /\ Passed'
        BY <2>1, LoopMoves DEF Thread, Place
    <2>3. TypeOK'
        BY <2>1, <2>2, <1>t DEF TypeOK, Place
    <2> QED  BY <2>2, <2>3 DEF Inv
<1> QED  BY <1>1, <1>2, <1>3, <1>4, <1>5 DEF MsgProc

LEMMA WatchDogSteps ==
    ASSUME Inv, WatchDog
    PROVE  Inv'
<1>t. TypeOK
    BY DEF Inv
<1>1. CASE WatchDogWakes
    <2>1. /\ at["watchDog"] = "wait" /\ flag' \subseteq flag
          /\ Goto("watchDog", "joinSend") \/ Loop("watchDog", "wait")
          /\ UNCHANGED <<main, recvQueue, sendQueue, logQueue, inHand, connErr, link, pushes, breaks>>
        BY <1>1 DEF WatchDogWakes
    <2>2. at' \in [Thread -> Place] /\ Passed'
        BY <2>1, OneMoves, LoopMoves DEF Thread, Place
    <2>3. TypeOK'
        BY <2>1, <2>2, <1>t DEF TypeOK, Place
    <2> QED  BY <2>2, <2>3 DEF Inv
<1>2. CASE WatchDogJoins
    <2>1. /\ at["watchDog"] \in {"joinSend", "joinRecv"}
          /\ Goto("watchDog", "joinRecv") \/ Goto("watchDog", "connect")
          /\ UNCHANGED <<main, flag, recvQueue, sendQueue, logQueue, inHand, link, pushes, breaks>>
        BY <1>2 DEF WatchDogJoins
    <2>2. connErr' \in BOOLEAN
        BY <1>2, Zenon DEF WatchDogJoins
    <2>3. at' \in [Thread -> Place] /\ Passed'
        BY <2>1, OneMoves DEF Thread, Place
    <2>4. TypeOK'
        BY <2>1, <2>2, <2>3, <1>t DEF TypeOK, Place
    <2> QED  BY <2>3, <2>4 DEF Inv
<1>3. CASE Reconnect
    <2>1. /\ at["watchDog"] = "connect" /\ flag' \subseteq Thread
          /\ UNCHANGED <<main, recvQueue, sendQueue, logQueue, inHand, connErr, pushes, breaks>>
        BY <1>3, <1>t DEF Reconnect, TypeOK, Thread
    <2>2. link' \in BOOLEAN
        BY <1>3, Zenon DEF Reconnect
    <2>3. at \in [Thread -> Place]
        BY <1>t DEF TypeOK, Place
    <2>4. /\ at' \in [Thread -> Place]
          /\ \A u \in Thread \ {"send", "recv", "watchDog"} : at'[u] = at[u]
        BY <1>3, <2>3 DEF Reconnect, Place, Thread
    <2>5. main \notin {"send", "recv", "exit"}
        BY <2>1 DEF Inv, Passed
    <2>6. Passed'
        BY <2>1, <2>4, <2>5 DEF Inv, Passed, Thread
    <2>7. TypeOK'
        BY <2>1, <2>2, <2>4, <1>t DEF TypeOK, Place
    <2> QED  BY <2>6, <2>7 DEF Inv
<1>4. CASE ConnectThrows
    <2>1. main' = "dead"
          /\ UNCHANGED <<flag, at, recvQueue, sendQueue, logQueue, inHand, connErr, link, pushes, breaks>>
        BY <1>4 DEF ConnectThrows
    <2>2. TypeOK'
        BY <2>1, <1>t DEF TypeOK
    <2>3. Passed'
        BY <2>1 DEF Passed
    <2> QED  BY <2>2, <2>3 DEF Inv
<1> QED  BY <1>1, <1>2, <1>3, <1>4 DEF WatchDog

LEMMA SessionSteps ==
    ASSUME Inv, Send \/ Recv \/ Break
    PROVE  Inv'
<1>t. TypeOK /\ Capacity \in Nat /\ MaxPushes \in Nat /\ MaxBreaks \in Nat
    BY ShutdownAssumption DEF Inv
<1>1. ASSUME NEW t \in {"send", "recv"}, NEW p \in {"dequeue", "read"}, Started(t, p) PROVE Inv'
    <2>1. /\ at[t] = "start" /\ Loop(t, p)
          /\ UNCHANGED <<main, flag, recvQueue, sendQueue, logQueue, inHand, connErr, link, pushes, breaks>>
        BY <1>1 DEF Started
    <2>2. at' \in [Thread -> Place] /\ Passed'
        BY <2>1, LoopMoves DEF Thread, Place
    <2>3. TypeOK'
        BY <2>1, <2>2, <1>t DEF TypeOK, Place
    <2> QED  BY <2>2, <2>3 DEF Inv
<1>2. CASE SendTake
    <2>1. /\ at["send"] = "dequeue" /\ Goto("send", "write") /\ sendQueue' \in 0..Capacity
          /\ UNCHANGED <<main, flag, recvQueue, logQueue, inHand, connErr, link, pushes, breaks>>
        BY <1>2, <1>t DEF SendTake, TypeOK
    <2>2. at' \in [Thread -> Place] /\ Passed'
        BY <2>1, OneMoves DEF Thread, Place
    <2>3. TypeOK'
        BY <2>1, <2>2, <1>t DEF TypeOK, Place
    <2> QED  BY <2>2, <2>3 DEF Inv
<1>3. CASE SendWrite
    <2>1. /\ at["send"] = "write" /\ (Loop("send", "dequeue") \/ Goto("send", "ended"))
          /\ UNCHANGED <<main, flag, recvQueue, sendQueue, logQueue, inHand, link, pushes, breaks>>
        BY <1>3 DEF SendWrite
    <2>2. connErr' \in BOOLEAN
        <3>1. connErr \in BOOLEAN
            BY <1>t DEF TypeOK
        <3> QED  BY <1>3, <3>1, Zenon DEF SendWrite
    <2>3. at' \in [Thread -> Place] /\ Passed'
        BY <1>3, <2>1, OneMoves, LoopMoves DEF SendWrite, Thread, Place
    <2>4. TypeOK'
        BY <2>1, <2>2, <2>3, <1>t DEF TypeOK, Place
    <2> QED  BY <2>3, <2>4 DEF Inv
<1>4. CASE RecvRead
    <2>1. /\ at["recv"] = "read" /\ (Goto("recv", "enqueue") \/ Goto("recv", "ended"))
          /\ UNCHANGED <<main, flag, recvQueue, sendQueue, logQueue, link, breaks>>
          /\ pushes' \in 0..MaxPushes /\ inHand' \in Message
        BY <1>4, <1>t DEF RecvRead, TypeOK
    <2>2. connErr' \in BOOLEAN
        <3>1. connErr \in BOOLEAN
            BY <1>t DEF TypeOK
        <3> QED  BY <1>4, <3>1, Zenon DEF RecvRead
    <2>3. at' \in [Thread -> Place] /\ Passed'
        BY <1>4, <2>1, OneMoves DEF RecvRead, Thread, Place
    <2>4. TypeOK'
        BY <2>1, <2>2, <2>3, <1>t DEF TypeOK, Place
    <2> QED  BY <2>3, <2>4 DEF Inv
<1>5. CASE RecvPut
    <2>1. /\ at["recv"] = "enqueue" /\ Loop("recv", "read") /\ Len(recvQueue) < Capacity
          /\ recvQueue' = Append(recvQueue, inHand)
          /\ UNCHANGED <<main, flag, sendQueue, logQueue, inHand, connErr, link, pushes, breaks>>
        BY <1>5 DEF RecvPut
    <2>2. recvQueue' \in Seq(Message) /\ Len(recvQueue') <= Capacity
        BY <2>1, <1>t, SeqAppend DEF TypeOK
    <2>3. at' \in [Thread -> Place] /\ Passed'
        BY <2>1, LoopMoves DEF Thread, Place
    <2>4. TypeOK'
        BY <2>1, <2>2, <2>3, <1>t DEF TypeOK, Place
    <2> QED  BY <2>3, <2>4 DEF Inv
<1>6. CASE Break
    <2>1. /\ breaks' \in 0..MaxBreaks
          /\ UNCHANGED <<main, flag, at, recvQueue, sendQueue, logQueue, inHand, connErr, pushes>>
        BY <1>6, <1>t DEF Break, TypeOK
    <2>2. link' \in BOOLEAN
        BY <1>6, Zenon DEF Break
    <2>3. TypeOK'
        BY <2>1, <2>2, <1>t DEF TypeOK
    <2>4. Passed'
        BY <2>1 DEF Inv, Passed
    <2> QED  BY <2>3, <2>4 DEF Inv
<1> QED  BY <1>1, <1>2, <1>3, <1>4, <1>5, <1>6 DEF Send, Recv

LEMMA InvAlways ==
    Spec => []Inv
<1>1. Init => Inv
    BY InvInit
<1>2. ASSUME Inv, [Next]_vars PROVE Inv'
    <2>1. CASE UNCHANGED vars
        BY <1>2, <2>1 DEF Inv, TypeOK, Passed, vars
    <2> QED  BY <1>2, <2>1, MainSteps, WorkerSteps, WatchDogSteps, SessionSteps DEF Next
<1> QED  BY <1>1, <1>2, PTL DEF Spec

-----------------------------------------------------------------------------
(* The theorems *)

\* Types, and no queue above its capacity while the program ends.
THEOREM ShutdownTypeCorrect ==
    Spec => []TypeOK
<1>1. Inv => TypeOK
    BY DEF Inv
<1> QED  BY <1>1, InvAlways, PTL

\* No thread outlives an object it uses, though the watchdog may start threads
\* while the destructor runs (main.cpp:28-37, MasterSession.hpp:35-43, 88-91).
THEOREM NoThreadOutlivesItsObjects ==
    Spec => []NoUseAfterDestruction
<1>1. Inv => NoUseAfterDestruction
    BY DEF Inv, Passed, NoUseAfterDestruction, SchedulerUsers, EngineUsers, Thread
<1> QED  BY <1>1, InvAlways, PTL

-----------------------------------------------------------------------------
(* What the queues accept at the end *)

\* The log thread does not leave before main has come to it.
Logging ==
    main \in {"serving", "msgProc", "keepalive", "report", "rotate"} =>
        "log" \in flag /\ at["log"] # "ended"

LEMMA LoggingNext ==
    ASSUME Inv, Logging, [Next]_vars
    PROVE  Logging'
<1>t. at \in [Thread -> Place]
    BY DEF Inv, TypeOK, Place
<1>1. ASSUME main' = main, "log" \in flag => "log" \in flag', at'["log"] = at["log"]
      PROVE  Logging'
    BY <1>1 DEF Logging
<1>2. CASE Signal
    <2>1. main = "serving" /\ flag' = flag \ {"msgProc"} /\ UNCHANGED at
        BY <1>2 DEF Signal, Joins, Cleared
    <2> QED  BY <2>1 DEF Logging
<1>3. CASE Main
    <2>1. PICK i \in 1..8 : Joined(i)
        BY <1>3 DEF Main, Joins
    <2>2. CASE main' \in {"serving", "msgProc", "keepalive", "report", "rotate"}
        <3>1. main \in {"msgProc", "keepalive", "report"} /\ flag' = flag \ {main'} /\ UNCHANGED at
            BY <2>1, <2>2 DEF Joined, Joins, Cleared
        <3> QED  BY <2>2, <3>1 DEF Logging
    <2> QED  BY <2>2 DEF Logging
<1>4. CASE LogTurn
    BY <1>4, <1>t DEF LogTurn, Loop, Goto, Logging, Thread
<1>5. CASE MsgProc \/ (\E t \in {"keepalive", "report"} : Report(t)) \/ RotateTurn
    <2>1. UNCHANGED <<main, flag>> /\ at'["log"] = at["log"]
        BY <1>5, <1>t DEF MsgProc, MsgTake, MsgRevoke, MsgAdjust, Report, RotateTurn, Loop, Goto, Thread
    <2> QED  BY <1>1, <2>1
<1>6. CASE WatchDog
    <2>1. CASE ConnectThrows
        BY <2>1 DEF ConnectThrows, Logging
    <2>2. CASE WatchDogWakes \/ WatchDogJoins \/ Reconnect
        <3>1. main' = main /\ ("log" \in flag => "log" \in flag') /\ at'["log"] = at["log"]
            BY <2>2, <1>t DEF WatchDogWakes, WatchDogJoins, Reconnect, Loop, Goto, Thread
        <3> QED  BY <1>1, <3>1
    <2> QED  BY <1>6, <2>1, <2>2 DEF WatchDog
<1>7. CASE Send \/ Recv \/ Break
    <2>1. UNCHANGED <<main, flag>> /\ at'["log"] = at["log"]
        BY <1>7, <1>t DEF Send, Recv, Break, Started, SendTake, SendWrite, RecvRead, RecvPut, Loop,
                          Goto, Thread
    <2> QED  BY <1>1, <2>1
<1>8. CASE UNCHANGED vars
    BY <1>1, <1>8 DEF vars
<1> QED  BY <1>2, <1>3, <1>4, <1>5, <1>6, <1>7, <1>8 DEF Next

\* Nothing enters logQueue or sendQueue once its reader has gone for good: the
\* threads that write to them have been joined before.
THEOREM NothingIsAcceptedTooLate ==
    Spec => NothingAcceptedTooLate
<1> DEFINE Step == /\ at["log"] = "ended" => logQueue' = logQueue
                   /\ main \in {"send", "recv", "exit"} /\ at["send"] = "ended" =>
                        sendQueue' = sendQueue
<1>1. Init => Logging
    BY DEF Init, Logging, Thread
<1>2. ASSUME Inv, Logging, Next PROVE Step
    <2>0. main # "dead"
        BY <1>2 DEF Next
    <2>1. ASSUME at["log"] = "ended" PROVE at["msgProc"] = "ended"
        <3>1. main \in {"log", "watchDog", "send", "recv", "exit"}
            BY <1>2, <2>0, <2>1 DEF Inv, TypeOK, Logging, Thread
        <3> QED  BY <1>2, <3>1 DEF Inv, Passed
    <2>2. ASSUME main \in {"send", "recv", "exit"}
          PROVE  \A t \in {"msgProc", "keepalive", "report"} : at[t] = "ended"
        BY <1>2, <2>2 DEF Inv, Passed
    <2>3. CASE MsgProc \/ (\E t \in {"keepalive", "report"} : Report(t))
        BY <2>1, <2>2, <2>3 DEF MsgProc, MsgTake, MsgRevoke, MsgAdjust, Report, Message
    <2>4. CASE Signal \/ Main \/ RotateTurn \/ LogTurn \/ WatchDog \/ Send \/ Recv \/ Break
        BY <2>4 DEF Signal, Main, Joined, RotateTurn, LogTurn, WatchDog, WatchDogWakes, WatchDogJoins,
                    Reconnect, ConnectThrows, Send, Recv, Started, SendTake, SendWrite, RecvRead, RecvPut, Break
    <2> QED  BY <1>2, <2>3, <2>4 DEF Next
<1>3. Inv /\ Logging /\ [Next]_vars => [Step]_vars
    BY <1>2
<1>4. Inv /\ Logging /\ [Next]_vars => Logging'
    BY LoggingNext
<1> QED  BY <1>1, <1>3, <1>4, InvAlways, PTL DEF Spec, NothingAcceptedTooLate

-----------------------------------------------------------------------------
(* What hangs for good *)

LEMMA HungNext ==
    ASSUME Inv, Hung, [Next]_vars
    PROVE  Hung' \/ main' = "dead"
<1>t. at \in [Thread -> Place]
    BY DEF Inv, TypeOK, Place
<1>1. main \in {"log", "send", "msgProc"} /\ at[main] # "ended"
    BY DEF Hung
<1>2. ~Signal /\ ~Main
    BY <1>1 DEF Signal, Main, Joined
<1>3. /\ main \in {"log", "send"} =>
            at["msgProc"] = "ended" /\ at["keepalive"] = "ended" /\ at["report"] = "ended"
      /\ main = "send" => at["watchDog"] = "ended"
    BY DEF Inv, Passed
<1>4. CASE UNCHANGED vars
    BY <1>4 DEF vars, Hung
<1>5. CASE MsgProc \/ (\E t \in {"keepalive", "report"} : Report(t)) \/ RotateTurn \/ LogTurn
    <2>1. main' = main
        BY <1>5 DEF MsgProc, MsgTake, MsgRevoke, MsgAdjust, Report, RotateTurn, LogTurn
    <2>2. CASE main = "msgProc"
        <3>1. at["msgProc"] = "slave" /\ ~MsgProc
            BY <2>2 DEF Hung, MsgProc, MsgTake, MsgRevoke, MsgAdjust
        <3>2. at'["msgProc"] = at["msgProc"]
            BY <1>5, <1>t, <3>1 DEF Report, RotateTurn, LogTurn, Loop, Goto, Thread
        <3> QED  BY <2>1, <2>2, <3>1, <3>2 DEF Hung
    <2>3. CASE main \in {"log", "send"}
        <3>1. ~MsgProc /\ \A t \in {"keepalive", "report"} : ~Report(t)
            BY <1>3, <2>3 DEF MsgProc, MsgTake, MsgRevoke, MsgAdjust, Report, Message
        <3>2. UNCHANGED sendQueue /\ at'["send"] = at["send"]
            BY <1>5, <1>t, <3>1 DEF RotateTurn, LogTurn, Loop, Goto, Thread
        <3>3. main = "log" => UNCHANGED logQueue /\ at'["log"] = at["log"]
            BY <1>5, <1>t, <3>1 DEF Hung, RotateTurn, LogTurn, Loop, Goto, Thread
        <3> QED  BY <2>1, <2>3, <3>2, <3>3 DEF Hung
    <2> QED  BY <1>1, <2>2, <2>3
<1>6. CASE ConnectThrows
    BY <1>6 DEF ConnectThrows
<1>7. CASE WatchDogWakes \/ WatchDogJoins \/ Reconnect \/ Send \/ Recv \/ Break
    <2>1. UNCHANGED <<main, logQueue>> /\ at'["log"] = at["log"] /\ at'["msgProc"] = at["msgProc"]
        BY <1>7, <1>t DEF WatchDogWakes, WatchDogJoins, Reconnect, Send, Recv, Break, Started,
                          SendTake, SendWrite, RecvRead, RecvPut, Loop, Goto, Thread
    <2>2. CASE main = "send"
        <3>1. at["send"] = "dequeue" /\ sendQueue = 0 /\ at["watchDog"] = "ended"
            BY <1>3, <2>2 DEF Hung
        <3>2. ~WatchDogWakes /\ ~WatchDogJoins /\ ~Reconnect /\ ~Send
            BY <3>1 DEF WatchDogWakes, WatchDogJoins, Reconnect, Send, Started, SendTake, SendWrite
        <3>3. UNCHANGED sendQueue /\ at'["send"] = at["send"]
            BY <1>7, <1>t, <3>2 DEF Recv, Break, Started, RecvRead, RecvPut, Loop, Goto, Thread
        <3> QED  BY <2>1, <2>2, <3>1, <3>3 DEF Hung
    <2> QED  BY <1>1, <2>1, <2>2 DEF Hung
<1> QED  BY <1>2, <1>4, <1>5, <1>6, <1>7 DEF Next, WatchDog

\* The destructors' hangs end with the process only, whatever the master and the
\* network do, for queues of any size.
THEOREM HungStays ==
    Spec => HangsForGood
<1>1. Inv /\ [Next]_vars => [Hung => Hung' \/ main' = "dead"]_vars
    BY HungNext
<1> QED  BY <1>1, InvAlways, PTL DEF Spec, HangsForGood

=============================================================================
