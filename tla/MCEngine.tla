------------------------------- MODULE MCEngine -------------------------------
(* A small instance of Engine for TLC. *)
EXTENDS Engine, TLC

\* Sizes are read modulo 8 by getNewFilters: 12 is rebuilt as 4 and refused
\* by the next rotation; interval 0 and interval > lifetime are the other ways
\* to lose the process.
MCParams == {
    [maxJwtLifeTime |-> 4, rotationInterval |-> 2, bloomFilterSize |-> 4, hashFunctionNum |-> 2],
    [maxJwtLifeTime |-> 3, rotationInterval |-> 1, bloomFilterSize |-> 2, hashFunctionNum |-> 1],
    [maxJwtLifeTime |-> 1, rotationInterval |-> 1, bloomFilterSize |-> 12, hashFunctionNum |-> 1],
    [maxJwtLifeTime |-> 2, rotationInterval |-> 0, bloomFilterSize |-> 4, hashFunctionNum |-> 1],
    [maxJwtLifeTime |-> 1, rotationInterval |-> 2, bloomFilterSize |-> 4, hashFunctionNum |-> 1]}

\* The server's inserts at an address of their own, the other call sites at one.
MCBufAddr == [s \in Site |-> IF s = "proxy" THEN 3 ELSE 0]

\* Every call site at one address, and the inserts and the queries apart.
MCSameAddr == [s \in Site |-> 0]
MCApartAddr == [s \in Site |-> IF s = "query" THEN 1 ELSE 0]

\* What a master sends that knows the limits of the code.
MCGoodParams ==
    {[maxJwtLifeTime |-> 5, rotationInterval |-> 2, bloomFilterSize |-> 4, hashFunctionNum |-> 2]}

\* No definition tells one token from another.
TokenSymmetry == Permutations(Token)

=============================================================================
