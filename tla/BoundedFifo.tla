------------------------------ MODULE BoundedFifo ------------------------------
(***************************************************************************)
(* What a bounded queue between threads promises: values come out in the   *)
(* order in which they went in, each once, never more than Capacity wait   *)
(* inside, and a reader that keeps asking gets every one of them.          *)
(* It says nothing of locks, of waiting or of waking.                      *)
(***************************************************************************)
EXTENDS Naturals, Sequences

CONSTANTS Producers, Capacity, MaxSent

VARIABLES
    sent,       \* how many values each producer has put in
    queue,      \* the values inside, as <<producer, number>>
    taken       \* the values taken out, in order

vars == <<sent, queue, taken>>

Init ==
    /\ sent = [p \in Producers |-> 0]
    /\ queue = <<>>
    /\ taken = <<>>

Put(p) ==
    /\ Len(queue) < Capacity
    /\ sent[p] < MaxSent
    /\ sent' = [sent EXCEPT ![p] = @ + 1]
    /\ queue' = Append(queue, <<p, sent[p] + 1>>)
    /\ UNCHANGED taken

Take ==
    /\ queue # <<>>
    /\ queue' = Tail(queue)
    /\ taken' = Append(taken, Head(queue))
    /\ UNCHANGED sent

Next == Take \/ \E p \in Producers : Put(p)

SafeSpec == Init /\ [][Next]_vars
Spec == SafeSpec /\ WF_vars(Take)

=============================================================================
