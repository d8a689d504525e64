-------------------------------- MODULE Shutdown --------------------------------
(***************************************************************************)
(* The end of the program: a signal stops the event loop, main returns and *)
(* destroys what it built in reverse order: scheduler, engine, master      *)
(* session (Scheduler.hpp:64-76, Engine.hpp:45-56, MasterSession.hpp:35-43,*)
(* main.cpp).  Each destructor clears the flags of its threads and joins   *)
(* them; the threads look at their flags only between two turns.           *)
(*                                                                         *)
(* A thread's loop condition is evaluated at the end of its turn (a flag   *)
(* cleared in between might as well have been cleared before).  Queues are *)
(* numbers of places taken, or sequences where the content decides.        *)
(***************************************************************************)
EXTENDS Naturals, Sequences

CONSTANTS
    Capacity,   \* QUEUE_DEFAULT_MAXSIZE of ThreadSafeQueue (4096)
    MaxPushes,  \* bound on the messages of the master
    MaxBreaks   \* bound on the times the connection breaks

ASSUME ShutdownAssumption ==
    /\ Capacity \in Nat \ {0}
    /\ MaxPushes \in Nat /\ MaxBreaks \in Nat

VARIABLES
    main,       \* what main is doing: serving, or which thread it joins;
                \* "dead" once an exception has left a thread
    flag,       \* the threads whose run flag is set
    at,         \* where each thread is
    recvQueue, sendQueue, logQueue,
    inHand,     \* the message recv has read and not yet put in its queue
    connErr,    \* connErrFlag
    link,       \* the connection to the master is up
    pushes, breaks

vars == <<main, flag, at, recvQueue, sendQueue, logQueue, inHand, connErr, link, pushes, breaks>>

Thread == {"msgProc", "keepalive", "report", "rotate", "log", "watchDog", "send", "recv"}
Message == {"revoke", "adjust", "slave"}

\* Mutated form: the session declared last in main, and destroyed first.
JoinsSessionFirst ==
    <<"watchDog", "send", "recv", "msgProc", "keepalive", "report", "rotate", "log">>

\* Mutated form: the scheduler declared before the engine, and destroyed after it.
JoinsEngineFirst ==
    <<"rotate", "log", "msgProc", "keepalive", "report", "watchDog", "send", "recv">>

\* The joins of the destructors, in the order main comes to them.
Joins == <<"msgProc", "keepalive", "report", "rotate", "log", "watchDog", "send", "recv">>

\* Thread t goes on, or leaves its loop.
Goto(t, place) == at' = [at EXCEPT ![t] = place]
Loop(t, place) == Goto(t, IF t \in flag THEN place ELSE "ended")

-----------------------------------------------------------------------------
\* All constructors have returned, all threads run.
Init ==
    /\ main = "serving"
    /\ flag = Thread
    /\ at = [t \in Thread |->
                CASE t \in {"msgProc", "log", "send"} -> "dequeue"
                  [] t \in {"keepalive", "report"} -> "enqueue"
                  [] t = "recv" -> "read"
                  [] OTHER -> "wait"]
    /\ recvQueue = <<>> /\ sendQueue = 0 /\ logQueue = 0
    /\ inHand = "revoke"
    /\ connErr = FALSE
    /\ link = TRUE
    /\ pushes = 0 /\ breaks = 0

-----------------------------------------------------------------------------
(* main *)

\* Mutated form: the report thread is joined with its flag still set.
ClearedNot(t) == IF t = "watchDog" THEN {"watchDog", "send", "recv"} ELSE {t} \ {"report"}

\* The flags cleared before the join of t: ~MasterSession clears all of its own.
Cleared(t) == IF t = "watchDog" THEN {"watchDog", "send", "recv"} ELSE {t}

\* SIGINT or SIGTERM: io_context.stop(), and on to the first destructor.
Signal ==
    /\ main = "serving"
    /\ main' = Joins[1]
    /\ flag' = flag \ Cleared(Joins[1])
    /\ UNCHANGED <<at, recvQueue, sendQueue, logQueue, inHand, connErr, link, pushes, breaks>>

Joined(i) ==
    /\ main = Joins[i]
    /\ at[main] = "ended"
    /\ main' = IF i = Len(Joins) THEN "exit" ELSE Joins[i + 1]
    /\ flag' = IF i = Len(Joins) THEN flag ELSE flag \ Cleared(Joins[i + 1])
    /\ UNCHANGED <<at, recvQueue, sendQueue, logQueue, inHand, connErr, link, pushes, breaks>>

-----------------------------------------------------------------------------
(* The threads of the scheduler *)

MsgTake ==
    /\ at["msgProc"] = "dequeue"
    /\ recvQueue # <<>>
    /\ recvQueue' = Tail(recvQueue)
    /\ Goto("msgProc", Head(recvQueue))
    /\ UNCHANGED <<main, flag, sendQueue, logQueue, inHand, connErr, link, pushes, breaks>>

\* Mutated form: the queue takes a line more than it has places.
MsgRevokeNoWait ==
    /\ at["msgProc"] = "revoke"
    /\ logQueue' = logQueue + 1
    /\ Loop("msgProc", "dequeue")
    /\ UNCHANGED <<main, flag, recvQueue, sendQueue, inHand, connErr, link, pushes, breaks>>

\* revoke_jwt ends in logRevoke.
MsgRevoke ==
    /\ at["msgProc"] = "revoke"
    /\ logQueue < Capacity
    /\ logQueue' = logQueue + 1
    /\ Loop("msgProc", "dequeue")
    /\ UNCHANGED <<main, flag, recvQueue, sendQueue, inHand, connErr, link, pushes, breaks>>

\* adjust_bloom_filter ends in its acknowledgement.  Not for a slave: its call
\* of NodeMessageSender::connect never returns.
MsgAdjust ==
    /\ at["msgProc"] = "adjust"
    /\ sendQueue < Capacity
    /\ sendQueue' = sendQueue + 1
    /\ Loop("msgProc", "dequeue")
    /\ UNCHANGED <<main, flag, recvQueue, logQueue, inHand, connErr, link, pushes, breaks>>

\* keepaliveWorker and bloomFilterStatusReport: a message, a sleep.
Report(t) ==
    /\ at[t] = "enqueue"
    /\ sendQueue < Capacity
    /\ sendQueue' = sendQueue + 1
    /\ Loop(t, "enqueue")
    /\ UNCHANGED <<main, flag, recvQueue, logQueue, inHand, connErr, link, pushes, breaks>>

-----------------------------------------------------------------------------
(* The threads of the engine *)

\* wait_for times out or is notified.
RotateTurn ==
    /\ at["rotate"] = "wait"
    /\ Loop("rotate", "wait")
    /\ UNCHANGED <<main, flag, recvQueue, sendQueue, logQueue, inHand, connErr, link, pushes, breaks>>

LogTurn ==
    /\ at["log"] = "dequeue"
    /\ logQueue > 0
    /\ logQueue' = logQueue - 1
    /\ Loop("log", "dequeue")
    /\ UNCHANGED <<main, flag, recvQueue, sendQueue, inHand, connErr, link, pushes, breaks>>

-----------------------------------------------------------------------------
(* The threads of the session *)

WatchDogWakes ==
    /\ at["watchDog"] = "wait"
    /\ IF connErr
       THEN Goto("watchDog", "joinSend") /\ flag' = flag \ {"send", "recv"}
       ELSE Loop("watchDog", "wait") /\ UNCHANGED flag
    /\ UNCHANGED <<main, recvQueue, sendQueue, logQueue, inHand, connErr, link, pushes, breaks>>

WatchDogJoins ==
    /\ \/ at["watchDog"] = "joinSend" /\ at["send"] = "ended" /\ Goto("watchDog", "joinRecv")
       \/ at["watchDog"] = "joinRecv" /\ at["recv"] = "ended" /\ Goto("watchDog", "connect")
    /\ connErr' = (connErr /\ at'["watchDog"] # "connect")
    /\ UNCHANGED <<main, flag, recvQueue, sendQueue, logQueue, inHand, link, pushes, breaks>>

\* connect() succeeds, which it need never do: it tries again every five seconds
\* and reads the master's answer without a limit, and looks at no flag.  Then the
\* flags are set again, whoever cleared them, and two threads start that have
\* not looked at them yet.
Reconnect ==
    /\ at["watchDog"] = "connect"
    /\ link' = TRUE
    /\ flag' = flag \cup {"send", "recv"}
    /\ at' = [at EXCEPT !["send"] = "start", !["recv"] = "start",
                        !["watchDog"] = IF "watchDog" \in flag THEN "wait" ELSE "ended"]
    /\ UNCHANGED <<main, recvQueue, sendQueue, logQueue, inHand, connErr, pushes, breaks>>

\* Or it throws, on a name it cannot resolve, a refusal or a connection lost
\* during the hello; nobody catches that in the watchdog, and the process ends.
ConnectThrows ==
    /\ at["watchDog"] = "connect"
    /\ main' = "dead"
    /\ UNCHANGED <<flag, at, recvQueue, sendQueue, logQueue, inHand, connErr, link, pushes, breaks>>

Started(t, place) ==
    /\ at[t] = "start"
    /\ Loop(t, place)
    /\ UNCHANGED <<main, flag, recvQueue, sendQueue, logQueue, inHand, connErr, link, pushes, breaks>>

SendTake ==
    /\ at["send"] = "dequeue"
    /\ sendQueue > 0
    /\ sendQueue' = sendQueue - 1
    /\ Goto("send", "write")
    /\ UNCHANGED <<main, flag, recvQueue, logQueue, inHand, connErr, link, pushes, breaks>>

\* A write to a broken connection may seem to succeed.
SendWrite ==
    /\ at["send"] = "write"
    /\ \/ Loop("send", "dequeue") /\ UNCHANGED connErr
       \/ ~link /\ Goto("send", "ended") /\ connErr' = TRUE
    /\ UNCHANGED <<main, flag, recvQueue, sendQueue, logQueue, inHand, link, pushes, breaks>>

RecvRead ==
    /\ at["recv"] = "read"
    /\ \/ /\ link /\ pushes < MaxPushes
          /\ pushes' = pushes + 1
          /\ inHand' \in Message
          /\ Goto("recv", "enqueue")
          /\ UNCHANGED connErr
       \/ /\ ~link
          /\ Goto("recv", "ended")
          /\ connErr' = TRUE
          /\ UNCHANGED <<pushes, inHand>>
    /\ UNCHANGED <<main, flag, recvQueue, sendQueue, logQueue, link, breaks>>

RecvPut ==
    /\ at["recv"] = "enqueue"
    /\ Len(recvQueue) < Capacity
    /\ recvQueue' = Append(recvQueue, inHand)
    /\ Loop("recv", "read")
    /\ UNCHANGED <<main, flag, sendQueue, logQueue, inHand, connErr, link, pushes, breaks>>

Break ==
    /\ link
    /\ breaks < MaxBreaks
    /\ breaks' = breaks + 1
    /\ link' = FALSE
    /\ UNCHANGED <<main, flag, at, recvQueue, sendQueue, logQueue, inHand, connErr, pushes>>

Main == \E i \in DOMAIN Joins : Joined(i)
MsgProc == MsgTake \/ MsgRevoke \/ MsgAdjust
WatchDog == WatchDogWakes \/ WatchDogJoins \/ Reconnect \/ ConnectThrows
Send == Started("send", "dequeue") \/ SendTake \/ SendWrite
Recv == Started("recv", "read") \/ RecvRead \/ RecvPut

\* The master need not push, but a break is noticed.
RecvRuns == Recv /\ (at["recv"] = "read" => ~link)

\* The master need not be there, or need not answer: connect() may try for ever.
WatchDogRuns == WatchDogWakes \/ WatchDogJoins

Next ==
    /\ main # "dead"
    /\ \/ Signal
       \/ Main
       \/ MsgProc
       \/ \E t \in {"keepalive", "report"} : Report(t)
       \/ RotateTurn
       \/ LogTurn
       \/ WatchDog
       \/ Send
       \/ Recv
       \/ Break

Spec == Init /\ [][Next]_vars

\* Every thread runs on, and one that waits for room gets a place in the end:
\* the others sleep for seconds between two messages.  Nothing is assumed of
\* connect(), nor of the master.  (The actions of the program stop when it is
\* dead.)
Alive(A) == main # "dead" /\ A

FairSpec ==
    /\ Spec
    /\ WF_vars(Alive(Main))
    /\ WF_vars(Alive(MsgTake)) /\ SF_vars(Alive(MsgRevoke)) /\ SF_vars(Alive(MsgAdjust))
    /\ \A t \in {"keepalive", "report"} : SF_vars(Alive(Report(t)))
    /\ WF_vars(Alive(RotateTurn)) /\ WF_vars(Alive(LogTurn))
    /\ WF_vars(Alive(WatchDogRuns)) /\ WF_vars(Alive(Send))
    /\ WF_vars(Alive(RecvRuns))

-----------------------------------------------------------------------------
(* Properties *)

TypeOK ==
    /\ main \in Thread \cup {"serving", "exit", "dead"}
    /\ flag \subseteq Thread
    /\ at \in [Thread -> {"dequeue", "enqueue", "read", "wait", "write", "joinSend", "joinRecv",
                          "connect", "start", "ended"} \cup Message]
    /\ recvQueue \in Seq(Message) /\ Len(recvQueue) <= Capacity
    /\ sendQueue \in 0..Capacity /\ logQueue \in 0..Capacity
    /\ inHand \in Message
    /\ connErr \in BOOLEAN /\ link \in BOOLEAN
    /\ pushes \in 0..MaxPushes /\ breaks \in 0..MaxBreaks

\* The threads that use the object whose destruction ends with the join of t.
SchedulerUsers == {"msgProc", "keepalive", "report"}
EngineUsers == SchedulerUsers \cup {"rotate", "log"}

\* No thread is left that uses an object when it is destroyed, though the
\* watchdog may start two threads anew while their destructor runs
\* (main.cpp:28-37, MasterSession.hpp:39-41, 88-91, Engine.hpp:51).
NoUseAfterDestruction ==
    /\ main \in {"rotate", "log", "watchDog", "send", "recv", "exit"} =>
            \A t \in SchedulerUsers : at[t] = "ended"
    /\ main \in {"log", "watchDog", "send", "recv", "exit"} => at["rotate"] = "ended"
    /\ main \in {"watchDog", "send", "recv", "exit"} => \A t \in EngineUsers : at[t] = "ended"
    /\ main = "exit" => \A t \in Thread : at[t] = "ended"

\* Nothing is accepted once the thread that would pass it on has gone for good:
\* what the program loses at its end is what those threads left in the queues
\* when they looked at their flags, and nothing after it (Engine.hpp:206,
\* MasterSession.hpp:134; the order of the objects in main.cpp).
NothingAcceptedTooLate ==
    [][/\ at["log"] = "ended" => logQueue' = logQueue
       /\ main \in {"send", "recv", "exit"} /\ at["send"] = "ended" => sendQueue' = sendQueue]_vars

\* The threads that wait for something nobody is going to do: a message in a
\* queue that stays empty, room in one that stays full, a message of the
\* master, a master that can be reached and answers.
Waits(t) ==
    \/ t \in {"msgProc", "log", "send"} /\ at[t] = "dequeue"
    \/ t = "msgProc" /\ at[t] \in {"slave", "adjust"}
    \/ t \in {"keepalive", "report"} /\ at[t] = "enqueue" /\ sendQueue = Capacity
    \/ t = "recv" /\ at[t] \in {"read", "enqueue"}
    \/ t = "watchDog" /\ at[t] \in {"joinSend", "joinRecv", "connect"}

\* The joins nobody can end: of a log or send thread asleep beside an empty queue
\* whose writers have been joined, of a message thread in a slave's connect.
Hung ==
    \/ main = "log" /\ at["log"] = "dequeue" /\ logQueue = 0
    \/ main = "send" /\ at["send"] = "dequeue" /\ sendQueue = 0
    \/ main = "msgProc" /\ at["msgProc"] = "slave"

\* Neither a message of the master nor a break nor a reconnection ends them, only
\* the death of the process in a connect() that throws (Engine.hpp:55,
\* MasterSession.hpp:40, 86, Scheduler.hpp:67).
HangsForGood == [][Hung => Hung' \/ main' = "dead"]_vars

\* After the signal the program ends, unless main joins, for ever, a thread
\* that waits in this way (Scheduler.hpp:67, Engine.hpp:55, MasterSession.hpp:39-41,
\* 100-129); no destructor hangs for another reason.
EndsOrWaits ==
    (main # "serving") ~>
        (main \in {"exit", "dead"} \/ [](main \in Thread /\ Waits(main)))

=============================================================================
