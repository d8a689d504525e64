------------------------- MODULE ThreadSafeQueueProofs -------------------------
(***************************************************************************)
(* Theorems about ThreadSafeQueue for any number of producers that is at   *)
(* most the capacity.  Inv is inductive: types, no value beside a sleeping *)
(* reader, and at most as many sleeping writers as values.  The last two   *)
(* need one another: a notification of enqueue reaches the reader because  *)
(* beside an empty queue no writer sleeps.                                 *)
(***************************************************************************)
EXTENDS ThreadSafeQueue, FiniteSetTheorems, TLAPS

\* A producer inside enqueue has a value left to put in.
CallsHaveValues == \A p \in Producers \cap calling : sent[p] < MaxSent

Inv ==
    /\ TypeOK
    /\ CallsHaveValues
    /\ NoSleepOnValue
    /\ SleepersCovered

Writers(S) == S \cap Producers

LEMMA WritersFinite ==
    ASSUME NEW S
    PROVE  /\ IsFiniteSet(Writers(S))
           /\ Cardinality(Writers(S)) \in Nat
           /\ Cardinality(Writers(S)) <= Capacity
<1>1. IsFiniteSet(Producers)
    BY QueueAssumption
<1>2. IsFiniteSet(Writers(S)) /\ Cardinality(Writers(S)) <= Cardinality(Producers)
    BY <1>1, FS_Subset DEF Writers
<1>3. Cardinality(Writers(S)) \in Nat /\ Cardinality(Producers) \in Nat
    BY <1>1, <1>2, FS_CardinalityType
<1> QED  BY <1>2, <1>3, QueueAssumption

\* A notification takes at most sleepers away, and one writer if only they sleep.
LEMMA Notified ==
    ASSUME NotifyOne
    PROVE  /\ waiting' \subseteq waiting
           /\ Cardinality(Writers(waiting')) <= Cardinality(Writers(waiting))
           /\ waiting \subseteq Producers /\ waiting # {} =>
                Cardinality(Writers(waiting')) = Cardinality(Writers(waiting)) - 1
<1>1. waiting' \subseteq waiting
    BY DEF NotifyOne
<1>2. Writers(waiting') \subseteq Writers(waiting)
    BY <1>1 DEF Writers
<1>3. Cardinality(Writers(waiting')) <= Cardinality(Writers(waiting))
    BY <1>2, WritersFinite, FS_Subset
<1>4. ASSUME waiting \subseteq Producers, waiting # {}
      PROVE  Cardinality(Writers(waiting')) = Cardinality(Writers(waiting)) - 1
    <2>1. PICK t \in waiting : waiting' = waiting \ {t}
        BY <1>4 DEF NotifyOne
    <2>2. t \in Writers(waiting) /\ Writers(waiting') = Writers(waiting) \ {t}
        BY <1>4, <2>1 DEF Writers
    <2> QED  BY <2>2, WritersFinite, FS_RemoveElement
<1> QED  BY <1>1, <1>3, <1>4

\* SleepersCovered in terms of Writers, before and after a step.
LEMMA Covered ==
    /\ SleepersCovered <=> Cardinality(Writers(waiting)) <= Len(queue)
    /\ SleepersCovered' <=> Cardinality(Writers(waiting')) <= Len(queue')
BY DEF SleepersCovered, Writers

LEMMA InvInit ==
    Init => Inv
<1> SUFFICES ASSUME Init PROVE Inv
    OBVIOUS
<1>1. TypeOK
    BY QueueAssumption DEF Init, TypeOK
<1>2. waiting \cap Producers = {} /\ Len(queue) = 0
    BY DEF Init
<1>3. SleepersCovered
    BY <1>2, FS_EmptySet DEF SleepersCovered
<1> QED  BY <1>1, <1>3 DEF Inv, NoSleepOnValue, CallsHaveValues, Init

LEMMA InvWait ==
    ASSUME Inv, NEW t \in Threads, NEW ready, Wait(t, ready),
           t = Consumer => queue = <<>>,
           t \in Producers => Len(queue) >= Capacity
    PROVE  Inv'
<1>1. waiting' = waiting \cup {t} /\ t \in calling /\ UNCHANGED <<calling, sent, queue, taken>>
    BY DEF Wait
<1>2. TypeOK' /\ CallsHaveValues'
    BY <1>1 DEF Inv, TypeOK, CallsHaveValues
<1>3. NoSleepOnValue'
    BY <1>1 DEF Inv, NoSleepOnValue
<1>4. SleepersCovered'
    <2>1. CASE t \in Producers
        <3>1. Cardinality(Writers(waiting')) <= Capacity /\ Cardinality(Writers(waiting')) \in Nat
            BY WritersFinite
        <3> QED  BY <1>1, <2>1, <3>1, QueueAssumption DEF SleepersCovered, Writers, Inv, TypeOK
    <2>2. CASE t = Consumer
        <3>1. waiting' \cap Producers = waiting \cap Producers
            BY <1>1, <2>2, QueueAssumption
        <3> QED  BY <1>1, <3>1 DEF SleepersCovered, Inv
    <2> QED  BY <2>1, <2>2 DEF Threads
<1> QED  BY <1>2, <1>3, <1>4 DEF Inv

LEMMA InvEnqueue ==
    ASSUME Inv, NEW p \in Producers, Enqueue(p)
    PROVE  Inv'
<1>1. CASE Wait(p, HasRoom)
    <2>1. Len(queue) >= Capacity
        BY <1>1, QueueAssumption DEF Wait, HasRoom, Inv, TypeOK
    <2> QED  BY <1>1, <2>1, InvWait, QueueAssumption DEF Threads
<1>2. CASE /\ Proceed(p, HasRoom)
           /\ queue' = Append(queue, <<p, sent[p] + 1>>)
           /\ sent' = [sent EXCEPT ![p] = @ + 1]
           /\ NotifyOne
           /\ UNCHANGED taken
    <2>1. p \in calling \ waiting /\ Len(queue) < Capacity /\ calling' = calling \ {p}
        BY <1>2 DEF Proceed, HasRoom
    <2>2. sent[p] \in Nat /\ sent[p] + 1 \in 0..MaxSent
        BY <2>1, QueueAssumption DEF Inv, TypeOK, CallsHaveValues
    <2>3. queue' \in Seq(Producers \X Nat) /\ Len(queue') = Len(queue) + 1 /\ Len(queue) \in Nat
        BY <1>2, <2>2 DEF Inv, TypeOK
    <2>4. TypeOK'
        BY <1>2, <2>1, <2>2, <2>3, Notified, QueueAssumption DEF Inv, TypeOK
    <2>5. CallsHaveValues'
        BY <1>2, <2>1 DEF Inv, CallsHaveValues, TypeOK
    <2>6. SleepersCovered'
        <3>1. Cardinality(Writers(waiting')) \in Nat /\ Cardinality(Writers(waiting)) \in Nat
            BY WritersFinite
        <3> QED  BY <1>2, <2>3, <3>1, Notified, Covered DEF Inv
    <2>7. NoSleepOnValue'
        <3> SUFFICES ASSUME Consumer \in waiting' PROVE FALSE
            BY DEF NoSleepOnValue
        <3>1. Consumer \in waiting /\ queue = <<>>
            BY <1>2, Notified DEF Inv, NoSleepOnValue
        <3>2. Cardinality(Writers(waiting)) = 0
            <4>1. Cardinality(Writers(waiting)) \in Nat /\ Len(queue) = 0
                BY <3>1, WritersFinite
            <4> QED  BY <4>1, Covered DEF Inv
        <3>3. Writers(waiting) = {}
            BY <3>2, WritersFinite, FS_EmptySet
        <3>4. waiting = {Consumer}
            BY <3>1, <3>3 DEF Inv, TypeOK, Threads, Writers
        <3> QED  BY <1>2, <3>4 DEF NotifyOne
    <2> QED  BY <2>4, <2>5, <2>6, <2>7 DEF Inv
<1> QED  BY <1>1, <1>2 DEF Enqueue

LEMMA InvDequeue ==
    ASSUME Inv, Dequeue
    PROVE  Inv'
<1>1. CASE Wait(Consumer, HasValue)
    BY <1>1, InvWait, QueueAssumption DEF Threads, Wait, HasValue
<1>2. CASE /\ Proceed(Consumer, HasValue)
           /\ queue' = Tail(queue)
           /\ taken' = Append(taken, Head(queue))
           /\ NotifyOne
           /\ UNCHANGED sent
    <2>1. Consumer \notin waiting /\ queue # <<>> /\ calling' = calling \ {Consumer}
        BY <1>2 DEF Proceed, HasValue
    <2>2. waiting \subseteq Producers /\ waiting' \subseteq waiting
        BY <1>2, <2>1, Notified DEF Inv, TypeOK, Threads
    <2>3. queue' \in Seq(Producers \X Nat) /\ Len(queue') = Len(queue) - 1 /\ Len(queue) \in Nat \ {0}
          /\ Head(queue) \in Producers \X Nat
        BY <1>2, <2>1 DEF Inv, TypeOK
    <2>4. TypeOK'
        BY <1>2, <2>1, <2>2, <2>3, QueueAssumption DEF Inv, TypeOK
    <2>5. CallsHaveValues' /\ NoSleepOnValue'
        BY <1>2, <2>1, <2>2 DEF Inv, CallsHaveValues, NoSleepOnValue
    <2>6. SleepersCovered'
        <3>1. CASE waiting = {}
            <4>1. Writers(waiting') = {}
                BY <2>2, <3>1 DEF Writers
            <4>2. Cardinality(Writers(waiting')) = 0
                BY <4>1, FS_EmptySet
            <4> QED  BY <2>3, <4>2, Covered
        <3>2. CASE waiting # {}
            <4>1. Cardinality(Writers(waiting)) \in Nat
                BY WritersFinite
            <4> QED  BY <1>2, <2>2, <2>3, <3>2, <4>1, Notified, Covered DEF Inv
        <3> QED  BY <3>1, <3>2
    <2> QED  BY <2>4, <2>5, <2>6 DEF Inv
<1> QED  BY <1>1, <1>2 DEF Dequeue

LEMMA InvNext ==
    ASSUME Inv, [Next]_vars
    PROVE  Inv'
<1>1. ASSUME NEW t \in Threads, Call(t) PROVE Inv'
    BY <1>1 DEF Call, Inv, TypeOK, CallsHaveValues, NoSleepOnValue, SleepersCovered
<1>2. ASSUME NEW p \in Producers, Enqueue(p) PROVE Inv'
    BY <1>2, InvEnqueue
<1>3. CASE Dequeue
    BY <1>3, InvDequeue
<1>4. CASE SpuriousWakeup
    <2>1. NotifyOne /\ UNCHANGED <<calling, sent, queue, taken>>
        BY <1>4 DEF SpuriousWakeup, NotifyOne
    <2>2. TypeOK' /\ CallsHaveValues' /\ NoSleepOnValue'
        BY <2>1, Notified DEF Inv, TypeOK, CallsHaveValues, NoSleepOnValue
    <2>3. SleepersCovered'
        <3>1. Cardinality(Writers(waiting')) \in Nat /\ Cardinality(Writers(waiting)) \in Nat
              /\ Len(queue) \in Nat
            BY WritersFinite DEF Inv, TypeOK
        <3> QED  BY <2>1, <3>1, Notified, Covered DEF Inv
    <2> QED  BY <2>2, <2>3 DEF Inv
<1>5. CASE UNCHANGED vars
    BY <1>5 DEF vars, Inv, TypeOK, CallsHaveValues, NoSleepOnValue, SleepersCovered
<1> QED  BY <1>1, <1>2, <1>3, <1>4, <1>5 DEF Next

LEMMA InvAlways ==
    Spec => []Inv
<1>1. Inv /\ [Next]_vars => Inv'
    BY InvNext
<1> QED  BY InvInit, <1>1, PTL DEF Spec

\* The capacity holds, and every counter and sequence stays in its range.
THEOREM QueueTypeCorrect ==
    Spec => []TypeOK
<1>1. Inv => TypeOK
    BY DEF Inv
<1> QED  BY <1>1, InvAlways, PTL

\* The reader never sleeps beside a value: no notification is lost to a writer.
THEOREM NoLostWakeup ==
    Spec => []NoSleepOnValue
<1>1. Inv => NoSleepOnValue
    BY DEF Inv
<1> QED  BY <1>1, InvAlways, PTL

\* Every sleeping writer is owed the removal of a value.
THEOREM WritersAreOwedAWakeup ==
    Spec => []SleepersCovered
<1>1. Inv => SleepersCovered
    BY DEF Inv
<1> QED  BY <1>1, InvAlways, PTL

\* Readers and writers never sleep at once: while the reader sleeps nobody else
\* does, so calls wait for one another only through the queue's contents, and a
\* model of its users may let dequeue wait for a value and enqueue for room (lines 19, 27).
THEOREM ReaderSleepsAlone ==
    Spec => [](Consumer \in waiting => waiting = {Consumer})
<1>1. ASSUME Inv, Consumer \in waiting PROVE waiting = {Consumer}
    <2>1. Cardinality(Writers(waiting)) <= 0 /\ Cardinality(Writers(waiting)) \in Nat
        BY <1>1, WritersFinite DEF Inv, NoSleepOnValue, SleepersCovered, Writers
    <2>2. Writers(waiting) = {}
        BY <1>1, <2>1, WritersFinite, FS_EmptySet
    <2> QED  BY <1>1, <2>2 DEF Inv, TypeOK, Threads, Writers
<1> QED  BY <1>1, InvAlways, PTL

\* Step by step the queue is a BoundedFifo: order, no loss, no duplicate, never
\* more than Capacity inside.
THEOREM QueueImplementsFifo ==
    Spec => Fifo!SafeSpec
<1>1. Init => Fifo!Init
    BY DEF Init, Fifo!Init
<1>2. ASSUME Inv, [Next]_vars PROVE [Fifo!Next]_Fifo!vars
    <2>1. ASSUME NEW t, NEW ready, Wait(t, ready) PROVE UNCHANGED Fifo!vars
        BY <2>1 DEF Wait, Fifo!vars
    <2>2. ASSUME NEW p \in Producers, Enqueue(p) PROVE Fifo!Put(p) \/ UNCHANGED Fifo!vars
        BY <1>2, <2>1, <2>2 DEF Enqueue, Proceed, HasRoom, Fifo!Put, Inv, CallsHaveValues
    <2>3. CASE Dequeue
        BY <2>1, <2>3 DEF Dequeue, Proceed, HasValue, Fifo!Take, Fifo!Next
    <2>4. CASE (\E t \in Threads : Call(t)) \/ SpuriousWakeup \/ UNCHANGED vars
        BY <2>4 DEF Call, SpuriousWakeup, vars, Fifo!vars
    <2> QED  BY <1>2, <2>2, <2>3, <2>4 DEF Next, Fifo!Next
<1> QED  BY <1>1, <1>2, InvAlways, PTL DEF Spec, Fifo!SafeSpec

=============================================================================
