---------------------------- MODULE ThreadSafeQueue ----------------------------
(***************************************************************************)
(* ThreadSafeQueue.hpp: a queue behind one mutex, whose producers and      *)
(* consumer wait on ONE condition variable and wake one another with       *)
(* notify_one.  The mutex makes each stretch between taking it and giving  *)
(* it up (by returning, or inside wait) one step.  A thread that was woken *)
(* takes the mutex again and looks at its predicate again.                 *)
(*                                                                         *)
(* Every queue of the program has one consumer at a time (send, msgProc,   *)
(* logWorker) and fewer producers than places.                             *)
(***************************************************************************)
EXTENDS Naturals, Sequences, FiniteSets

CONSTANTS
    Producers,  \* threads that call enqueue
    Consumer,   \* the thread that calls dequeue
    Capacity,   \* maxSize
    MaxSent     \* bound on the calls of each producer

ASSUME QueueAssumption ==
    /\ IsFiniteSet(Producers) /\ Consumer \notin Producers
    /\ Capacity \in Nat \ {0} /\ MaxSent \in Nat
    /\ Cardinality(Producers) <= Capacity

Threads == Producers \cup {Consumer}

VARIABLES
    calling,    \* threads inside enqueue or dequeue
    waiting,    \* those asleep on queueCv
    sent,       \* how many values each producer has put in
    queue,      \* the values inside, as <<producer, number>>
    taken       \* the values taken out, in order

vars == <<calling, waiting, sent, queue, taken>>

Init ==
    /\ calling = {}
    /\ waiting = {}
    /\ sent = [p \in Producers |-> 0]
    /\ queue = <<>>
    /\ taken = <<>>

\* notify_one wakes some sleeper, if there is one.
NotifyOne ==
    IF waiting = {} THEN UNCHANGED waiting
    ELSE \E t \in waiting : waiting' = waiting \ {t}

\* A thread enters enqueue or dequeue.
Call(t) ==
    /\ t \in Threads \ calling
    /\ t \in Producers => sent[t] < MaxSent
    /\ calling' = calling \cup {t}
    /\ UNCHANGED <<waiting, sent, queue, taken>>

\* A thread inside a call, holding the mutex, its predicate being ready.
Proceed(t, ready) ==
    /\ t \in calling \ waiting
    /\ ready
    /\ calling' = calling \ {t}

Wait(t, ready) ==
    /\ t \in calling \ waiting
    /\ ~ready
    /\ waiting' = waiting \cup {t}
    /\ UNCHANGED <<calling, sent, queue, taken>>

\* Mutated form: the size is compared with <= instead of <.
HasRoomOffByOne == Len(queue) <= Capacity

HasRoom == Len(queue) < Capacity
HasValue == queue # <<>>

\* Mutated form: nobody is notified.
EnqueueSilent(p) ==
    \/ /\ Proceed(p, HasRoom)
       /\ queue' = Append(queue, <<p, sent[p] + 1>>)
       /\ sent' = [sent EXCEPT ![p] = @ + 1]
       /\ UNCHANGED <<waiting, taken>>
    \/ Wait(p, HasRoom)

Enqueue(p) ==
    \/ /\ Proceed(p, HasRoom)
       /\ queue' = Append(queue, <<p, sent[p] + 1>>)
       /\ sent' = [sent EXCEPT ![p] = @ + 1]
       /\ NotifyOne
       /\ UNCHANGED taken
    \/ Wait(p, HasRoom)

\* Mutated form: nobody is notified.
DequeueSilent ==
    \/ /\ Proceed(Consumer, HasValue)
       /\ queue' = Tail(queue)
       /\ taken' = Append(taken, Head(queue))
       /\ UNCHANGED <<waiting, sent>>
    \/ Wait(Consumer, HasValue)

Dequeue ==
    \/ /\ Proceed(Consumer, HasValue)
       /\ queue' = Tail(queue)
       /\ taken' = Append(taken, Head(queue))
       /\ NotifyOne
       /\ UNCHANGED sent
    \/ Wait(Consumer, HasValue)

\* wait may return without a notification.
SpuriousWakeup ==
    /\ \E t \in waiting : waiting' = waiting \ {t}
    /\ UNCHANGED <<calling, sent, queue, taken>>

Next ==
    \/ \E t \in Threads : Call(t)
    \/ \E p \in Producers : Enqueue(p)
    \/ Dequeue
    \/ SpuriousWakeup

Spec == Init /\ [][Next]_vars

\* Every thread that holds no place in the wait set runs on; the consumer asks
\* again after each value (its loop has no other exit while the process runs).
\* Nothing obliges a producer to call, nor the system to wake spuriously.
FairSpec ==
    /\ Spec
    /\ \A p \in Producers : WF_vars(Enqueue(p))
    /\ WF_vars(Dequeue) /\ WF_vars(Call(Consumer))

-----------------------------------------------------------------------------
(* Properties *)

TypeOK ==
    /\ calling \subseteq Threads
    /\ waiting \subseteq calling
    /\ sent \in [Producers -> 0..MaxSent]
    /\ queue \in Seq(Producers \X Nat) /\ Len(queue) <= Capacity
    /\ taken \in Seq(Producers \X Nat)

\* No lost wakeup for the reader: with producers and consumer on one condition
\* variable and notify_one, the consumer is never left asleep beside a value,
\* i.e. no notification meant for it is used up by a producer (line 21).
NoSleepOnValue == Consumer \in waiting => queue = <<>>

\* No lost wakeup for the writers: every sleeping producer is matched by a value
\* whose removal will notify it (line 30), so none sleeps beside an empty queue.
SleepersCovered == Cardinality(waiting \cap Producers) <= Len(queue)

\* The queue is a BoundedFifo: order, no loss, no duplicate, and every value is
\* taken as long as the consumer asks.
Fifo == INSTANCE BoundedFifo
ImplementsFifo == Fifo!Spec

=============================================================================
