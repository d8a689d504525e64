---------------------------- MODULE MCEngineThreads ----------------------------
(* A small instance of EngineThreads for TLC. *)
EXTENDS EngineThreads, TLC

\* Two filters and one, so that an adjustment lengthens and shortens the
\* vector, and two intervals.
MCParams == {
    [maxJwtLifeTime |-> 2, rotationInterval |-> 1],
    [maxJwtLifeTime |-> 2, rotationInterval |-> 2]}

Symmetry == Permutations(Token)

=============================================================================
