----------------------------- MODULE EngineThreads -----------------------------
(***************************************************************************)
(* The threads inside Engine.hpp.  Two of them take filtersMtx: the        *)
(* message thread for the last lines of adjustFiltersParam, the rotation   *)
(* thread for its turn.  Nobody else does: revokeJwt, isRevoked and        *)
(* getBloomFilterFillingRate walk the vector filter by filter, and the     *)
(* parameters are written before the lock is taken.                        *)
(*                                                                         *)
(* Module Engine says what the filters contain and what a recovery finds;  *)
(* here a filter is the parameters it was made with and the tokens it      *)
(* holds, and a recovery brings each token back to some depth.  Parameters *)
(* that end the process are left to that module.  An add is not atomic:    *)
(* the message thread and the server thread both insert, and the words of  *)
(* a filter's bits are written without a lock.                             *)
(***************************************************************************)
EXTENDS Naturals, Sequences, FiniteSets

CONSTANTS
    Token,
    NoToken,    \* the token of a walk that has none
    Params,     \* what the master may send, as records
    MaxTime,    \* bound on the clock
    MaxWalks    \* bound on how many loops over the vector run at once

Param == [maxJwtLifeTime : Nat, rotationInterval : Nat \ {0}]

ASSUME ThreadsAssumption ==
    /\ NoToken \notin Token
    /\ \A p \in Params : p \in Param /\ p.rotationInterval <= p.maxJwtLifeTime
    /\ MaxTime \in Nat
    /\ MaxWalks \in Nat

Walker == {"message", "server", "report"}
Kind == {"insert", "query", "report"}

VARIABLES
    now,        \* the clock of wait_for, in seconds
    param,      \* maxJwtLifeTime, rotationInterval (with size and hashes)
    filtersNum,
    filters,    \* the vector, filters[1] the oldest
    msg,        \* how far the message thread is in adjustFiltersParam
    rot,        \* where the rotation thread is
    deadline,   \* when its wait_for times out; 0 outside one
    walk,       \* the loop over the vector each other thread is in
    torn,       \* history: tokens inserted while the vector changed, or while the
                \* other thread was inserting
    lastRotation \* history: when the vector last rotated, forgotten by an adjustment

vars == <<now, param, filtersNum, filters, msg, rot, deadline, walk, torn, lastRotation>>

Filter == [made : Params, holds : SUBSET Token]

\* clean (history): no change of the vector has overlapped the walk, and no other
\* insert if it is one; beside: the tokens whose bits the add in progress may lose.
Walk == [kind : Kind, token : Token \cup {NoToken}, next : Nat \ {0}, last : Nat, clean : BOOLEAN,
         beside : SUBSET Token]
NoWalk == [kind |-> "query", token |-> NoToken, next |-> 1, last |-> 0,
           clean |-> FALSE, beside |-> {}]

FiltersNum(p) == p.maxJwtLifeTime \div p.rotationInterval

\* A thread is inside the loop; of an insert.
Walking(w) == walk[w].next <= walk[w].last
Inserting(w) == Walking(w) /\ walk[w].kind = "insert"

\* Who holds filtersMtx; wait_for gives it up while it waits.
Rotating == rot \in {"rotating", "appending"}
Locked == msg = "swap" \/ Rotating

\* A recovered vector: each token in the first few filters, as many as what
\* is left of its life says.
Recovered(p, fs) ==
    /\ fs \in [1..FiltersNum(p) -> {f \in Filter : f.made = p}]
    /\ \A t \in Token : \E k \in 0..FiltersNum(p) :
            {i \in DOMAIN fs : t \in fs[i].holds} = 1..k

\* Every walk of the moment is overlapped by a change.
Disturbed == [w \in Walker |-> [walk[w] EXCEPT !.clean = FALSE, !.beside = {}]]

-----------------------------------------------------------------------------
\* After Engine::init, whose threads the constructor of Scheduler has just started.
Init ==
    /\ now = 0
    /\ param \in Params
    /\ filtersNum = FiltersNum(param)
    /\ Recovered(param, filters)
    /\ msg = "idle"
    /\ rot = "enter"
    /\ deadline = 0
    /\ walk = [w \in Walker |-> NoWalk]
    /\ torn = {}
    /\ lastRotation = {}

Tick ==
    /\ now < MaxTime
    /\ now' = now + 1
    /\ UNCHANGED <<param, filtersNum, filters, msg, rot, deadline, walk, torn, lastRotation>>

-----------------------------------------------------------------------------
(* adjustFiltersParam, on the message thread *)

SetParam(p) ==
    /\ msg = "idle"
    /\ ~Walking("message")
    /\ msg' = "param"
    /\ param' = p
    /\ walk' = Disturbed
    /\ lastRotation' = {}
    /\ UNCHANGED <<now, filtersNum, filters, rot, deadline, torn>>

SetFiltersNum ==
    /\ msg = "param"
    /\ msg' = "build"
    /\ filtersNum' = FiltersNum(param)
    /\ UNCHANGED <<now, param, filters, rot, deadline, walk, torn, lastRotation>>

\* Mutated form: the lock is not taken.
LockFiltersNoWait ==
    /\ msg = "build"
    /\ msg' = "swap"
    /\ UNCHANGED <<now, param, filtersNum, filters, rot, deadline, walk, torn, lastRotation>>

LockFilters ==
    /\ msg = "build"
    /\ ~Locked
    /\ msg' = "swap"
    /\ UNCHANGED <<now, param, filtersNum, filters, rot, deadline, walk, torn, lastRotation>>

\* The recovered vector is local to the thread until here, where the lock is
\* given up again.
Swap ==
    /\ msg = "swap"
    /\ msg' = "notify"
    /\ \E fs \in [1..FiltersNum(param) -> Filter] : Recovered(param, fs) /\ filters' = fs
    /\ walk' = Disturbed
    /\ torn' = {}
    /\ lastRotation' = {}
    /\ UNCHANGED <<now, param, filtersNum, rot, deadline>>

Notify ==
    /\ msg = "notify"
    /\ msg' = "idle"
    /\ rot' = IF rot = "waiting" THEN "notified" ELSE rot
    /\ UNCHANGED <<now, param, filtersNum, filters, deadline, walk, torn, lastRotation>>

-----------------------------------------------------------------------------
(* rotateBloomFilterWorker *)

\* wait_for computes its deadline with the interval of that moment.
EnterWait ==
    /\ rot = "enter"
    /\ ~Locked
    /\ rot' = "waiting"
    /\ deadline' = now + param.rotationInterval
    /\ UNCHANGED <<now, param, filtersNum, filters, msg, walk, torn, lastRotation>>

TimeOut ==
    /\ rot = "waiting"
    /\ now >= deadline
    /\ rot' = "timedOut"
    /\ UNCHANGED <<now, param, filtersNum, filters, msg, deadline, walk, torn, lastRotation>>

SpuriousWakeup ==
    /\ rot = "waiting"
    /\ rot' = "notified"
    /\ UNCHANGED <<now, param, filtersNum, filters, msg, deadline, walk, torn, lastRotation>>

\* Mutated form: the status of the wait is not looked at.
ReturnsAnyhow ==
    /\ rot \in {"notified", "timedOut"}
    /\ ~Locked
    /\ rot' = "rotating"
    /\ walk' = Disturbed
    /\ deadline' = 0
    /\ UNCHANGED <<now, param, filtersNum, filters, msg, torn, lastRotation>>

\* wait_for returns once it has the lock again.  A standard library may
\* report a timeout to a thread that was notified in time but got the lock late.
Returns ==
    /\ rot \in {"notified", "timedOut"}
    /\ ~Locked
    /\ \/ /\ rot = "notified"
          /\ rot' = "enter"
          /\ UNCHANGED walk
       \/ /\ now >= deadline
          /\ rot' = "rotating"
          /\ walk' = Disturbed
    /\ deadline' = 0
    /\ UNCHANGED <<now, param, filtersNum, filters, msg, torn, lastRotation>>

Erase ==
    /\ rot = "rotating"
    /\ rot' = "appending"
    /\ filters' = Tail(filters)
    /\ UNCHANGED <<now, param, filtersNum, msg, deadline, walk, torn, lastRotation>>

\* Mutated forms: the new filter goes to the front; it is forgotten.
EmplaceFront ==
    /\ rot = "appending"
    /\ rot' = "enter"
    /\ filters' = <<[made |-> param, holds |-> {}]>> \o filters
    /\ lastRotation' = {now}
    /\ UNCHANGED <<now, param, filtersNum, msg, deadline, walk, torn>>
EmplaceNothing ==
    /\ rot = "appending"
    /\ rot' = "enter"
    /\ lastRotation' = {now}
    /\ UNCHANGED <<now, param, filtersNum, filters, msg, deadline, walk, torn>>

\* emplace_back with the parameters of that moment, and unlock.
EmplaceBack ==
    /\ rot = "appending"
    /\ rot' = "enter"
    /\ filters' = Append(filters, [made |-> param, holds |-> {}])
    /\ lastRotation' = {now}
    /\ UNCHANGED <<now, param, filtersNum, msg, deadline, walk, torn>>

-----------------------------------------------------------------------------
(* The loops that take no lock *)

\* Two inserts at a time overlap each other.
Begin(w, kind, token, last) ==
    LET meets == {v \in Walker : kind = "insert" /\ Inserting(v)}
        new == [kind |-> kind, token |-> token, next |-> 1, last |-> last,
                clean |-> msg = "idle" /\ ~Rotating /\ meets = {}, beside |-> {}]
    IN  /\ ~Walking(w)
        /\ Cardinality({v \in Walker : Walking(v)}) < MaxWalks
        /\ walk' = [v \in Walker |-> IF v = w THEN new
                                     ELSE [walk[v] EXCEPT !.clean = @ /\ v \notin meets]]
        /\ UNCHANGED <<now, param, filtersNum, filters, msg, rot, deadline, torn, lastRotation>>

\* revokeJwt and isRevoked with rem seconds left: the early returns, and the
\* number of filters, from parameters as they happen to be.
BeginDepth(w, kind, token, rem) ==
    /\ w = "message" => msg = "idle"
    /\ rem <= param.maxJwtLifeTime
    /\ rem \div param.rotationInterval \in 1..filtersNum
    /\ Begin(w, kind, token, rem \div param.rotationInterval)

\* The range-for of getBloomFilterFillingRate takes its end once.
BeginReport == Begin("report", "report", NoToken, Len(filters))

\* add raises bits of a vector<bool> one by one: it reads a word, and writes it
\* back with a bit more.  What another thread has written to the word in between
\* is lost: its bits to this one, this one's earlier bits to it.

\* The walks after w has done its turn and goes on as new.  An insert in the same
\* filter may lose the bits that are new of either (of one token inserted by both,
\* too: more than the words can do).
Passed(w, new) ==
    walk' = [v \in Walker |->
        IF v = w THEN new
        ELSE IF /\ Inserting(w) /\ Inserting(v)
                /\ walk[v].next = walk[w].next /\ walk[w].next \in DOMAIN filters
        THEN [walk[v] EXCEPT !.beside =
                @ \cup ({walk[v].token, walk[w].token} \ filters[walk[w].next].holds)]
        ELSE walk[v]]

\* The last word of an add is written.
Add(i, t, lost) == filters' = [filters EXCEPT ![i].holds = (@ \cup {t}) \ lost]

\* A word of it before the last.
Overwrite(w) ==
    LET i == walk[w].next
    IN  /\ Inserting(w)
        /\ i \in DOMAIN filters
        /\ \E lost \in SUBSET walk[w].beside :
                /\ filters' = [filters EXCEPT ![i].holds = @ \ lost]
                /\ torn' = torn \cup lost
        /\ UNCHANGED <<now, param, filtersNum, msg, rot, deadline, walk, lastRotation>>

\* Mutated form: the query does not stop at the first filter without the token.
AccessToTheEnd(w) ==
    LET i == walk[w].next
        t == walk[w].token
    IN  /\ Walking(w)
        /\ \/ /\ walk[w].kind = "insert" /\ i \in DOMAIN filters
              /\ \E lost \in SUBSET walk[w].beside : Add(i, t, lost)
           \/ walk[w].kind # "insert" /\ UNCHANGED filters
        /\ torn' = IF walk[w].kind = "insert" /\ ~walk[w].clean THEN torn \cup {t} ELSE torn
        /\ Passed(w, IF i = walk[w].last THEN NoWalk
                     ELSE [walk[w] EXCEPT !.next = i + 1, !.beside = {}])
        /\ UNCHANGED <<now, param, filtersNum, msg, rot, deadline, lastRotation>>

\* One turn of the loop.  An access past the end or beside erase, emplace_back
\* or the assignment is undefined: it takes effect or not.
Access(w) ==
    LET i == walk[w].next
        t == walk[w].token
        sound == i \in DOMAIN filters /\ ~Locked
    IN  /\ Walking(w)
        /\ \/ /\ walk[w].kind = "insert" /\ i \in DOMAIN filters
              /\ \E lost \in SUBSET walk[w].beside : Add(i, t, lost)
           \/ /\ walk[w].kind # "insert" \/ ~sound
              /\ UNCHANGED filters
        /\ torn' = IF walk[w].kind = "insert" /\ ~walk[w].clean THEN torn \cup {t} ELSE torn
        /\ Passed(w, IF \/ i = walk[w].last
                        \/ walk[w].kind = "query" /\ sound /\ t \notin filters[i].holds
                     THEN NoWalk ELSE [walk[w] EXCEPT !.next = i + 1, !.beside = {}])
        /\ UNCHANGED <<now, param, filtersNum, msg, rot, deadline, lastRotation>>

-----------------------------------------------------------------------------
Lifetimes == UNION {1..p.maxJwtLifeTime : p \in Params}

Next ==
    \/ Tick
    \/ \E p \in Params : SetParam(p)
    \/ SetFiltersNum
    \/ LockFilters
    \/ Swap
    \/ Notify
    \/ EnterWait
    \/ TimeOut
    \/ SpuriousWakeup
    \/ Returns
    \/ Erase
    \/ EmplaceBack
    \/ \E t \in Token, rem \in Lifetimes :
        \/ \E w \in {"message", "server"} : BeginDepth(w, "insert", t, rem)
        \/ BeginDepth("server", "query", t, rem)
    \/ BeginReport
    \/ \E w \in Walker : Overwrite(w) \/ Access(w)

Spec == Init /\ [][Next]_vars

-----------------------------------------------------------------------------
(* Properties *)

\* The length of the vector, counting the filter a rotation is about to add.
Size == Len(filters) + (IF rot = "appending" THEN 1 ELSE 0)

TypeOK ==
    /\ now \in Nat /\ deadline \in Nat
    /\ param \in Params
    /\ filtersNum \in Nat
    /\ filters \in Seq(Filter) /\ Size > 0
    /\ msg \in {"idle", "param", "build", "swap", "notify"}
    /\ rot \in {"enter", "waiting", "notified", "timedOut", "rotating", "appending"}
    /\ walk \in [Walker -> Walk]
    /\ torn \subseteq Token
    /\ lastRotation \subseteq Nat

\* Whatever rotations fell between the writing of the parameters and the swap,
\* once an adjustment is through the vector has the length and its filters the
\* parameters in force (Engine.hpp:101-107, 119-122, 322-323).
Settled ==
    msg \in {"idle", "notify"} =>
        /\ Size = filtersNum
        /\ \A i \in DOMAIN filters : filters[i].made = param

\* A walk that neither an adjustment nor a rotation overlaps stays inside the
\* vector, though nothing it reads is read under the lock (Engine.hpp:139-143,
\* 159-165, 185).
CleanWalkInBounds ==
    \A w \in Walker : (Walking(w) /\ walk[w].clean) => walk[w].last <= Len(filters)

\* A revocation that nothing overlaps, and a query that no change of the vector
\* overlaps, are as good as one step taken at their last access: all the filters
\* they have passed hold their token at once.  The token of such a query must not
\* be torn, for a late write of an overlapped insert may take it away again
\* (Engine.hpp:143, 163-168, BaseBloomFilter.hpp:26-30).
CleanWalkHolds ==
    \A w \in Walker :
        (/\ Walking(w) /\ walk[w].clean
         /\ \/ walk[w].kind = "insert"
            \/ walk[w].kind = "query" /\ walk[w].token \notin torn) =>
            \A j \in DOMAIN filters : j < walk[w].next => walk[w].token \in filters[j].holds

\* A token is in the oldest filters, without a gap, unless the vector changed or
\* the other thread inserted while it was being inserted (Engine.hpp:143, 164:
\* a query stops at the first gap; BaseBloomFilter.hpp:26-30).
HeldInOrder ==
    \A t \in Token \ torn : \A i, j \in DOMAIN filters :
        (i < j /\ t \in filters[j].holds) => t \in filters[i].holds

\* After an adjustment the first rotation may come at once (the wait had timed
\* out while the lock was held, or before the notification); no later one
\* comes sooner than the new interval after the one before (Engine.hpp:123, 316).
RotationsApart ==
    rot = "rotating" => \A t \in lastRotation : now >= t + param.rotationInterval

\* For each token the vector is a RevokedDepth.
Held(t) == {i \in DOMAIN filters : t \in filters[i].holds}
Depth(t) == INSTANCE RevokedDepth WITH
                len <- Size, held <- Held(t), torn <- t \in torn
ImplementsDepth ==
    /\ \A t \in Token : Depth(t)!Init
    /\ [][\A t \in Token : [Depth(t)!Next]_(Depth(t)!vars)]_vars

=============================================================================
