--------------------------- MODULE BaseBloomFilter ---------------------------
(***************************************************************************)
(* The Bloom filter of BaseBloomFilter.hpp as operators on a record: the   *)
(* set of raised bits stands for the vector of booleans.                   *)
(*                                                                         *)
(* hashSHA256 digests the key into a local buffer and then returns the     *)
(* ADDRESS of that buffer (line 66), so an index depends on the call site  *)
(* (the thread and the frames above the call) and neither on the key nor   *)
(* on the hash number.  BufAddr gives that address for every call site and *)
(* is left open: nothing in the source fixes it.                           *)
(***************************************************************************)
EXTENDS Integers, FiniteSets

CONSTANT BufAddr

\* The call sites that reach hashSHA256: Engine::revokeJwt on the thread of
\* the scheduler and on the thread of the server, Engine::isRevoked on the
\* thread of the server, and recoverFromLog inside init and inside
\* adjustFiltersParam.
Site == {"revoke", "proxy", "query", "init", "adjust"}

ASSUME BufAddrAssumption == BufAddr \in [Site -> Nat]

\* The constructor's checks; (n & (n - 1)) = 0 holds of the powers of two.
IsPowerOfTwo(n) == \E k \in 0..n : n = 2 ^ k

ValidFilter(size, hashNum) ==
    /\ size # 0
    /\ IsPowerOfTwo(size)
    /\ hashNum # 0

NewFilter(size, hashNum) ==
    [size |-> size, hashNum |-> hashNum, bits |-> {}, msgNum |-> 0]

\* The filter f with other contents.
Filled(f, bits, msgNum) ==
    [size |-> f.size, hashNum |-> f.hashNum, bits |-> bits, msgNum |-> msgNum]

HashSHA256(site, key, i) == BufAddr[site]

CalcHashIndices(f, site, key) ==
    {HashSHA256(site, key, i) % f.size : i \in 0..(f.hashNum - 1)}

Add(f, site, key) ==
    Filled(f, f.bits \cup CalcHashIndices(f, site, key), f.msgNum + 1)

Contains(f, site, key) == CalcHashIndices(f, site, key) \subseteq f.bits

=============================================================================
