------------------------------ MODULE RevokedDepth ------------------------------
(***************************************************************************)
(* What the vector of filters promises for one token, whatever the threads *)
(* do: the filters that hold it are the first few, the oldest ones.  An    *)
(* insert takes them in order, a rotation drops the first, a rebuild       *)
(* starts afresh.  Only once an insert has been torn (another thread       *)
(* changed the vector under it, or inserted beside it) may they be any     *)
(* filters, until the next rebuild.                                        *)
(***************************************************************************)
EXTENDS Naturals

VARIABLES
    len,    \* how many filters there are
    held,   \* the places of those that hold the token
    torn    \* an insert of the token was torn

vars == <<len, held, torn>>

Rebuild ==
    /\ len' \in Nat
    /\ \E k \in 0..len' : held' = 1..k
    /\ torn' = FALSE

Init ==
    /\ len \in Nat
    /\ \E k \in 0..len : held = 1..k
    /\ torn = FALSE

Deepen ==
    /\ \E k \in 0..(len - 1) : held = 1..k /\ held' = 1..(k + 1)
    /\ UNCHANGED <<len, torn>>

Rotate ==
    /\ held' = {i \in 1..len : i + 1 \in held}
    /\ UNCHANGED <<len, torn>>

Tear ==
    /\ torn' = TRUE
    /\ held' \subseteq 1..len
    /\ UNCHANGED len

Next == Rebuild \/ Deepen \/ Rotate \/ Tear

Spec == Init /\ [][Next]_vars

=============================================================================
