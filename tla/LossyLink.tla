------------------------------- MODULE LossyLink -------------------------------
(***************************************************************************)
(* What a session promises to those who send and receive through it: over  *)
(* any number of connections messages come out in the order in which they  *)
(* went in, none twice; none leaves for the other side, or comes from it,  *)
(* before that side has accepted the connection; and a message is lost     *)
(* only when its connection breaks, never while one serves.                *)
(* It says nothing of threads, of queues or of the hello.                  *)
(***************************************************************************)
EXTENDS Naturals, Sequences, SequencesExt

CONSTANTS
    Outgoing,   \* what is sent to the other side
    Incoming    \* what comes from it

VARIABLES
    link,       \* no connection, one not accepted, one that serves, one that broke
    outbound,   \* sent and not yet read by the other side
    inbound     \* sent by the other side and not yet received

vars == <<link, outbound, inbound>>

Init == link = "down" /\ outbound = <<>> /\ inbound = <<>>

Dial ==
    /\ link \in {"down", "new"}
    /\ link' \in {"down", "new"}
    /\ UNCHANGED <<outbound, inbound>>

Accept ==
    /\ link = "new" /\ link' = "up"
    /\ UNCHANGED <<outbound, inbound>>

Send(m) ==
    /\ outbound' = Append(outbound, m)
    /\ UNCHANGED <<link, inbound>>

\* The other side reads a message, and may answer in the same step.
Deliver ==
    /\ link \in {"up", "broken"}
    /\ outbound # <<>>
    /\ outbound' = Tail(outbound)
    /\ \/ UNCHANGED inbound
       \/ link = "up" /\ \E m \in Incoming : inbound' = Append(inbound, m)
    /\ UNCHANGED link

Push(m) ==
    /\ link = "up"
    /\ inbound' = Append(inbound, m)
    /\ UNCHANGED <<link, outbound>>

Receive ==
    /\ inbound # <<>>
    /\ inbound' = Tail(inbound)
    /\ UNCHANGED <<link, outbound>>

\* What is in flight is lost: the first of what was sent, the last of what comes.
Cut ==
    /\ outbound' \in Suffixes(outbound)
    /\ inbound' \in Prefixes(inbound)

Break == link = "up" /\ link' = "broken" /\ Cut
Close == link = "broken" /\ link' = "down" /\ Cut

\* A message written to a broken connection.
Lose ==
    /\ link = "broken"
    /\ \E i \in 1..Len(outbound) : outbound' = RemoveAt(outbound, i)
    /\ UNCHANGED <<link, inbound>>

Next ==
    \/ Dial \/ Accept \/ Deliver \/ Receive \/ Break \/ Close \/ Lose
    \/ \E m \in Outgoing : Send(m)
    \/ \E m \in Incoming : Push(m)

Spec == Init /\ [][Next]_vars

=============================================================================
