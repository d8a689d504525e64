-------------------------- MODULE EngineThreadsProofs --------------------------
(***************************************************************************)
(* The safety properties of EngineThreads for any tokens, parameters and   *)
(* duration, and the steps of its refinement of RevokedDepth.  What makes  *)
(* them inductive: the lock has one owner; a walk marked clean runs while  *)
(* nobody adjusts or rotates, so the vector keeps its length under it; two *)
(* inserts at a time are both marked, so what the words of one may lose of *)
(* the other is torn, and a clean insert is alone; the tokens outside torn *)
(* are in a prefix of the vector; and the deadline of a wait lies an       *)
(* interval after the rotation before it.                                  *)
(***************************************************************************)
EXTENDS EngineThreads, TLAPS

LockHeldOnce == ~(msg = "swap" /\ Rotating)

NumFits == msg # "param" => filtersNum = FiltersNum(param)

\* A clean walk, and what it has already done.
Firm(w) ==
    \/ walk[w].kind = "insert"
    \/ walk[w].kind = "query" /\ walk[w].token \notin torn
WalksClean ==
    \A w \in Walker : (Walking(w) /\ walk[w].clean) =>
        /\ msg = "idle" /\ ~Rotating
        /\ walk[w].last <= Len(filters)
        /\ Firm(w) =>
             \A j \in DOMAIN filters : j < walk[w].next => walk[w].token \in filters[j].holds

\* Two inserts at a time know of each other, and what one may lose is torn.
Meeting ==
    /\ \A w \in Walker : Inserting(w) =>
            /\ walk[w].token \in Token
            /\ walk[w].beside \subseteq torn \cup {walk[w].token}
            /\ walk[w].clean => walk[w].beside = {}
    /\ \A v, w \in Walker : (v # w /\ Inserting(v) /\ Inserting(w)) => ~walk[v].clean

Prefix(t, fs) == \E k \in 0..Len(fs) : {i \in DOMAIN fs : t \in fs[i].holds} = 1..k
Prefixes == \A t \in Token \ torn : Prefix(t, filters)

DeadlineLate ==
    /\ \A t \in lastRotation : t <= now
    /\ rot \in {"waiting", "notified", "timedOut"} =>
         \A t \in lastRotation : t + param.rotationInterval <= deadline
    /\ rot = "rotating" => \A t \in lastRotation : t + param.rotationInterval <= now

Inv ==
    /\ TypeOK
    /\ LockHeldOnce
    /\ NumFits
    /\ Settled
    /\ WalksClean
    /\ Meeting
    /\ Prefixes
    /\ DeadlineLate

-----------------------------------------------------------------------------
(* Parameters, sequences, walks *)

LEMMA DivPositive ==
    ASSUME NEW a \in Nat, NEW d \in Nat \ {0}, d <= a
    PROVE  a \div d \in Nat \ {0}
BY SMTT(30)

LEMMA FiltersNumType ==
    ASSUME NEW p \in Params
    PROVE  FiltersNum(p) \in Nat \ {0} /\ p.rotationInterval \in Nat \ {0}
<1>1. p.maxJwtLifeTime \in Nat /\ p.rotationInterval \in Nat \ {0}
      /\ p.rotationInterval <= p.maxJwtLifeTime
    BY ThreadsAssumption DEF Param
<1> QED  BY <1>1, DivPositive DEF FiltersNum

LEMMA SeqDomain ==
    ASSUME NEW S, NEW s \in Seq(S)
    PROVE  DOMAIN s = 1..Len(s) /\ Len(s) \in Nat /\ \A i \in DOMAIN s : s[i] \in S
OBVIOUS

LEMMA SeqTail ==
    ASSUME NEW S, NEW s \in Seq(S), Len(s) > 0
    PROVE  /\ Tail(s) \in Seq(S) /\ Len(Tail(s)) = Len(s) - 1
           /\ \A i \in DOMAIN Tail(s) : i + 1 \in DOMAIN s /\ Tail(s)[i] = s[i + 1]
<1>1. s # <<>>
    OBVIOUS
<1> QED  BY <1>1

LEMMA SeqAppend ==
    ASSUME NEW S, NEW s \in Seq(S), NEW e \in S
    PROVE  /\ Append(s, e) \in Seq(S) /\ Len(Append(s, e)) = Len(s) + 1
           /\ \A i \in DOMAIN s : Append(s, e)[i] = s[i]
           /\ Append(s, e)[Len(s) + 1] = e
OBVIOUS

LEMMA SeqOfFunction ==
    ASSUME NEW S, NEW n \in Nat, NEW f \in [1..n -> S]
    PROVE  f \in Seq(S) /\ Len(f) = n /\ DOMAIN f = 1..n
OBVIOUS

\* One filter takes some tokens, and loses some.
Written(fs, i, in, lost) == [fs EXCEPT ![i].holds = (@ \cup in) \ lost]

WrittenFrom(ws, fs, i, in, lost) ==
    /\ ws \in Seq(Filter) /\ Len(ws) = Len(fs) /\ DOMAIN ws = DOMAIN fs
    /\ \A j \in DOMAIN fs :
        /\ ws[j].made = fs[j].made
        /\ j = i => ws[j].holds = (fs[j].holds \cup in) \ lost
        /\ j # i => ws[j].holds = fs[j].holds

LEMMA WrittenType ==
    ASSUME NEW fs \in Seq(Filter), NEW i \in DOMAIN fs,
           NEW in, in \subseteq Token, NEW lost, lost \subseteq Token
    PROVE  WrittenFrom(Written(fs, i, in, lost), fs, i, in, lost)
<1>1. fs[i] \in Filter
    BY SeqDomain
<1> DEFINE g == [fs[i] EXCEPT !.holds = (@ \cup in) \ lost]
<1>2. g \in Filter /\ g.made = fs[i].made /\ g.holds = (fs[i].holds \cup in) \ lost
    BY <1>1 DEF Filter
<1>3. Written(fs, i, in, lost) = [fs EXCEPT ![i] = g]
    BY DEF Written
<1> HIDE DEF g
<1>4. [fs EXCEPT ![i] = g] \in Seq(Filter) /\ Len([fs EXCEPT ![i] = g]) = Len(fs)
    BY <1>2
<1> QED  BY <1>2, <1>3, <1>4 DEF WrittenFrom

LEMMA NoWalkType ==
    NoWalk \in Walk /\ NoWalk.next = 1 /\ NoWalk.last = 0
BY DEF NoWalk, Walk, Kind

LEMMA DisturbedType ==
    ASSUME walk \in [Walker -> Walk]
    PROVE  /\ Disturbed \in [Walker -> Walk]
           /\ \A w \in Walker :
                /\ Disturbed[w].clean = FALSE /\ Disturbed[w].beside = {}
                /\ Disturbed[w].next = walk[w].next /\ Disturbed[w].last = walk[w].last
                /\ Disturbed[w].kind = walk[w].kind /\ Disturbed[w].token = walk[w].token
<1>1. ASSUME NEW w \in Walker, NEW new, new = [walk[w] EXCEPT !.clean = FALSE, !.beside = {}]
      PROVE  /\ new \in Walk
             /\ new.clean = FALSE /\ new.beside = {}
             /\ new.next = walk[w].next /\ new.last = walk[w].last
             /\ new.kind = walk[w].kind /\ new.token = walk[w].token
    <2>1. walk[w] \in Walk
        OBVIOUS
    <2> QED  BY <1>1, <2>1 DEF Walk
<1>2. \A w \in Walker : Disturbed[w] = [walk[w] EXCEPT !.clean = FALSE, !.beside = {}]
    BY DEF Disturbed
<1>3. Disturbed = [w \in Walker |-> Disturbed[w]]
    BY DEF Disturbed
<1> QED  BY <1>1, <1>2, <1>3

LEMMA NoneClean ==
    ASSUME Inv, walk' = Disturbed
    PROVE  walk' \in [Walker -> Walk] /\ WalksClean' /\ Meeting'
<1>1. walk \in [Walker -> Walk]
    BY DEF Inv, TypeOK
<1>2. /\ walk' \in [Walker -> Walk]
      /\ \A w \in Walker :
            /\ walk'[w].clean = FALSE /\ walk'[w].beside = {}
            /\ walk'[w].next = walk[w].next /\ walk'[w].last = walk[w].last
            /\ walk'[w].kind = walk[w].kind /\ walk'[w].token = walk[w].token
    BY <1>1, DisturbedType
<1>3. WalksClean'
    BY <1>2 DEF WalksClean
<1>4. Meeting'
    BY <1>2 DEF Inv, Meeting, Inserting, Walking
<1> QED  BY <1>2, <1>3, <1>4

LEMMA RecoveredType ==
    ASSUME NEW p \in Params, NEW fs, Recovered(p, fs)
    PROVE  /\ fs \in Seq(Filter) /\ Len(fs) = FiltersNum(p)
           /\ \A i \in DOMAIN fs : fs[i].made = p
           /\ \A t \in Token : Prefix(t, fs)
<1>1. fs \in [1..FiltersNum(p) -> Filter] /\ FiltersNum(p) \in Nat
      /\ \A i \in 1..FiltersNum(p) : fs[i].made = p
    BY FiltersNumType DEF Recovered
<1>2. fs \in Seq(Filter) /\ Len(fs) = FiltersNum(p) /\ DOMAIN fs = 1..FiltersNum(p)
    BY <1>1, SeqOfFunction
<1> QED  BY <1>1, <1>2 DEF Recovered, Prefix

-----------------------------------------------------------------------------
LEMMA InvInit ==
    Init => Inv
<1> SUFFICES ASSUME Init PROVE Inv
    OBVIOUS
<1>1. param \in Params /\ filtersNum = FiltersNum(param) /\ FiltersNum(param) \in Nat \ {0}
    BY FiltersNumType DEF Init
<1>2. /\ filters \in Seq(Filter) /\ Len(filters) = filtersNum
      /\ \A i \in DOMAIN filters : filters[i].made = param
      /\ \A t \in Token : Prefix(t, filters)
    BY <1>1, RecoveredType DEF Init
<1>3. walk = [w \in Walker |-> NoWalk] /\ msg = "idle" /\ rot = "enter"
    BY DEF Init
<1>4. walk \in [Walker -> Walk] /\ \A w \in Walker : ~Walking(w)
    BY <1>3, NoWalkType DEF Walking
<1>5. TypeOK
    BY <1>1, <1>2, <1>4 DEF Init, TypeOK, Size
<1>6. Settled
    BY <1>1, <1>2, <1>3 DEF Settled, Size
<1>7. WalksClean /\ Meeting /\ Prefixes
    BY <1>2, <1>4 DEF WalksClean, Meeting, Inserting, Prefixes
<1>8. LockHeldOnce /\ NumFits /\ DeadlineLate
    BY <1>1 DEF Init, LockHeldOnce, NumFits, DeadlineLate
<1> QED  BY <1>5, <1>6, <1>7, <1>8 DEF Inv

\* Steps that only move the message or the rotation thread, or the clock.
LEMMA Frames ==
    ASSUME Inv
    PROVE  /\ UNCHANGED <<msg, param, filtersNum>> => NumFits'
           /\ UNCHANGED <<msg, rot>> => LockHeldOnce'
           /\ UNCHANGED <<filters, torn>> => Prefixes'
           /\ UNCHANGED <<rot, lastRotation, deadline, param, now>> => DeadlineLate'
           /\ (UNCHANGED <<param, filters, filtersNum>> /\ (rot = "appending" <=> rot' = "appending")
               /\ (msg' \in {"idle", "notify"} => msg \in {"idle", "notify"})) => Settled'
           /\ (UNCHANGED <<walk, filters, torn>> /\ (msg = "idle" => msg' = "idle") /\ (Rotating' => Rotating))
               => WalksClean'
           /\ UNCHANGED <<walk, torn>> => Meeting'
<1>1. UNCHANGED <<msg, param, filtersNum>> => NumFits'
    BY DEF Inv, NumFits
<1>2. UNCHANGED <<msg, rot>> => LockHeldOnce'
    BY DEF Inv, LockHeldOnce, Rotating
<1>3. UNCHANGED <<filters, torn>> => Prefixes'
    BY DEF Inv, Prefixes, Prefix
<1>4. UNCHANGED <<rot, lastRotation, deadline, param, now>> => DeadlineLate'
    BY DEF Inv, DeadlineLate
<1>5. (UNCHANGED <<param, filters, filtersNum>> /\ (rot = "appending" <=> rot' = "appending")
               /\ (msg' \in {"idle", "notify"} => msg \in {"idle", "notify"})) => Settled'
    BY DEF Inv, Settled, Size
<1>6. (UNCHANGED <<walk, filters, torn>> /\ (msg = "idle" => msg' = "idle") /\ (Rotating' => Rotating))
               => WalksClean'
    BY DEF Inv, WalksClean, Firm, Walking
<1>7. UNCHANGED <<walk, torn>> => Meeting'
    BY DEF Inv, Meeting, Inserting, Walking
<1> QED  BY <1>1, <1>2, <1>3, <1>4, <1>5, <1>6, <1>7

-----------------------------------------------------------------------------
(* The message thread *)

LEMMA MessageSteps ==
    ASSUME Inv, (\E p \in Params : SetParam(p)) \/ SetFiltersNum \/ LockFilters \/ Swap \/ Notify
    PROVE  Inv'
<1>t. /\ TypeOK /\ param \in Params /\ FiltersNum(param) \in Nat \ {0}
    BY FiltersNumType DEF Inv, TypeOK
<1>1. ASSUME NEW p \in Params, SetParam(p) PROVE Inv'
    <2>1. /\ msg = "idle" /\ msg' = "param" /\ param' = p /\ walk' = Disturbed /\ lastRotation' = {}
          /\ UNCHANGED <<now, filtersNum, filters, rot, deadline, torn>>
        BY <1>1 DEF SetParam
    <2>2. walk' \in [Walker -> Walk] /\ WalksClean' /\ Meeting'
        BY <2>1, NoneClean
    <2>3. TypeOK'
        BY <2>1, <2>2, <1>t DEF TypeOK, Size
    <2>4. LockHeldOnce' /\ NumFits' /\ Settled' /\ DeadlineLate'
        BY <2>1 DEF Inv, LockHeldOnce, NumFits, Settled, DeadlineLate
    <2> QED  BY <2>1, <2>2, <2>3, <2>4, Frames DEF Inv
<1>2. CASE SetFiltersNum
    <2>1. /\ msg = "param" /\ msg' = "build" /\ filtersNum' = FiltersNum(param)
          /\ UNCHANGED <<now, param, filters, rot, deadline, walk, torn, lastRotation>>
        BY <1>2 DEF SetFiltersNum
    <2>2. TypeOK'
        BY <2>1, <1>t DEF TypeOK, Size
    <2>3. LockHeldOnce' /\ NumFits' /\ Settled'
        BY <2>1 DEF Inv, LockHeldOnce, NumFits, Settled, FiltersNum
    <2>4. WalksClean'
        BY <2>1, Frames DEF Rotating
    <2> QED  BY <2>1, <2>2, <2>3, <2>4, Frames DEF Inv
<1>3. CASE LockFilters
    <2>1. /\ msg = "build" /\ msg' = "swap" /\ ~Locked
          /\ UNCHANGED <<now, param, filtersNum, filters, rot, deadline, walk, torn, lastRotation>>
        BY <1>3 DEF LockFilters
    <2>2. TypeOK'
        BY <2>1, <1>t DEF TypeOK, Size
    <2>3. LockHeldOnce' /\ NumFits' /\ Settled'
        BY <2>1 DEF Inv, LockHeldOnce, NumFits, Settled, Locked, Rotating
    <2>4. WalksClean'
        BY <2>1, Frames DEF Rotating
    <2> QED  BY <2>1, <2>2, <2>3, <2>4, Frames DEF Inv
<1>4. CASE Swap
    <2>1. /\ msg = "swap" /\ msg' = "notify" /\ walk' = Disturbed /\ torn' = {} /\ lastRotation' = {}
          /\ UNCHANGED <<now, param, filtersNum, rot, deadline>>
          /\ Recovered(param, filters')
        BY <1>4 DEF Swap
    <2>2. /\ filters' \in Seq(Filter) /\ Len(filters') = FiltersNum(param)
          /\ \A i \in DOMAIN filters' : filters'[i].made = param
          /\ \A t \in Token : Prefix(t, filters')
        <3>1. PICK fs : fs = filters' /\ Recovered(param, fs)
            BY <2>1
        <3>2. /\ fs \in Seq(Filter) /\ Len(fs) = FiltersNum(param)
              /\ \A i \in DOMAIN fs : fs[i].made = param
              /\ \A t \in Token : Prefix(t, fs)
            BY <3>1, <1>t, RecoveredType
        <3> QED  BY <3>1, <3>2
    <2>3. walk' \in [Walker -> Walk] /\ WalksClean' /\ Meeting'
        BY <2>1, NoneClean
    <2>4. rot # "appending"
        BY <2>1 DEF Inv, LockHeldOnce, Rotating
    <2>5. TypeOK' /\ Settled'
        BY <2>1, <2>2, <2>3, <2>4, <1>t DEF Inv, NumFits, TypeOK, Settled, Size
    <2>6. Prefixes'
        BY <2>1, <2>2 DEF Prefixes, Prefix
    <2>7. LockHeldOnce' /\ NumFits' /\ DeadlineLate'
        BY <2>1 DEF Inv, LockHeldOnce, NumFits, DeadlineLate
    <2> QED  BY <2>3, <2>5, <2>6, <2>7 DEF Inv
<1>5. CASE Notify
    <2>1. /\ msg = "notify" /\ msg' = "idle"
          /\ rot' = IF rot = "waiting" THEN "notified" ELSE rot
          /\ UNCHANGED <<now, param, filtersNum, filters, deadline, walk, torn, lastRotation>>
        BY <1>5 DEF Notify
    <2>2. TypeOK'
        BY <2>1, <1>t DEF TypeOK, Size
    <2>3. LockHeldOnce' /\ NumFits' /\ DeadlineLate'
        BY <2>1 DEF Inv, LockHeldOnce, NumFits, DeadlineLate, FiltersNum
    <2>4. Settled' /\ WalksClean'
        BY <2>1, Frames DEF Rotating
    <2> QED  BY <2>1, <2>2, <2>3, <2>4, Frames DEF Inv
<1> QED  BY <1>1, <1>2, <1>3, <1>4, <1>5

-----------------------------------------------------------------------------
(* The rotation thread *)

LEMMA PrefixTail ==
    ASSUME NEW fs \in Seq(Filter), Len(fs) > 0, NEW t, Prefix(t, fs)
    PROVE  Prefix(t, Tail(fs))
<1>1. PICK k \in 0..Len(fs) : {i \in DOMAIN fs : t \in fs[i].holds} = 1..k
    BY DEF Prefix
<1>2. /\ Tail(fs) \in Seq(Filter) /\ Len(Tail(fs)) = Len(fs) - 1 /\ Len(fs) \in Nat
      /\ DOMAIN Tail(fs) = 1..(Len(fs) - 1) /\ DOMAIN fs = 1..Len(fs)
      /\ \A i \in DOMAIN Tail(fs) : i + 1 \in DOMAIN fs /\ Tail(fs)[i] = fs[i + 1]
    BY SeqTail, SeqDomain
<1>3. ASSUME NEW i \in DOMAIN Tail(fs)
      PROVE  t \in Tail(fs)[i].holds <=> i + 1 \in 1..k
    BY <1>1, <1>2
<1>4. CASE k = 0
    <2>1. {i \in DOMAIN Tail(fs) : t \in Tail(fs)[i].holds} = 1..0
        BY <1>3, <1>4
    <2> QED  BY <2>1, <1>2 DEF Prefix
<1>5. CASE k # 0
    <2>1. ASSUME NEW i \in Nat
          PROVE  (i \in DOMAIN Tail(fs) /\ i + 1 \in 1..k) <=> i \in 1..(k - 1)
        BY <1>2, <1>5
    <2>2. {i \in DOMAIN Tail(fs) : t \in Tail(fs)[i].holds} = 1..(k - 1)
        BY <1>2, <1>3, <2>1
    <2>3. k - 1 \in 0..Len(Tail(fs))
        BY <1>2, <1>5
    <2> QED  BY <2>2, <2>3 DEF Prefix
<1> QED  BY <1>4, <1>5

LEMMA PrefixAppend ==
    ASSUME NEW fs \in Seq(Filter), NEW e \in Filter, e.holds = {}, NEW t, Prefix(t, fs)
    PROVE  Prefix(t, Append(fs, e))
<1>1. PICK k \in 0..Len(fs) : {i \in DOMAIN fs : t \in fs[i].holds} = 1..k
    BY DEF Prefix
<1>2. /\ Len(Append(fs, e)) = Len(fs) + 1 /\ Len(fs) \in Nat
      /\ DOMAIN Append(fs, e) = 1..(Len(fs) + 1) /\ DOMAIN fs = 1..Len(fs)
      /\ \A i \in DOMAIN fs : Append(fs, e)[i] = fs[i]
      /\ Append(fs, e)[Len(fs) + 1] = e
    BY SeqAppend, SeqDomain
<1>3. {i \in DOMAIN Append(fs, e) : t \in Append(fs, e)[i].holds} = 1..k
    BY <1>1, <1>2
<1>4. k \in 0..Len(Append(fs, e))
    BY <1>2
<1> QED  BY <1>3, <1>4 DEF Prefix

LEMMA RotationSteps ==
    ASSUME Inv, EnterWait \/ TimeOut \/ SpuriousWakeup \/ Returns \/ Erase \/ EmplaceBack
    PROVE  Inv'
<1>t. /\ TypeOK /\ param \in Params /\ param.rotationInterval \in Nat \ {0}
      /\ FiltersNum(param) \in Nat \ {0}
      /\ now \in Nat /\ deadline \in Nat /\ lastRotation \subseteq Nat
      /\ filters \in Seq(Filter) /\ Len(filters) \in Nat
    BY FiltersNumType, SeqDomain DEF Inv, TypeOK
<1>1. CASE EnterWait
    <2>1. /\ rot = "enter" /\ rot' = "waiting" /\ deadline' = now + param.rotationInterval
          /\ UNCHANGED <<now, param, filtersNum, filters, msg, walk, torn, lastRotation>>
        BY <1>1 DEF EnterWait
    <2>2. TypeOK' /\ LockHeldOnce'
        BY <2>1, <1>t DEF Inv, TypeOK, Size, LockHeldOnce, Rotating
    <2>3. DeadlineLate'
        BY <2>1, <1>t DEF Inv, DeadlineLate
    <2>4. Settled' /\ WalksClean'
        BY <2>1, Frames DEF Rotating
    <2> QED  BY <2>1, <2>2, <2>3, <2>4, Frames DEF Inv
<1>2. CASE TimeOut \/ SpuriousWakeup
    <2>1. /\ rot = "waiting" /\ rot' \in {"timedOut", "notified"}
          /\ UNCHANGED <<now, param, filtersNum, filters, msg, deadline, walk, torn, lastRotation>>
        BY <1>2 DEF TimeOut, SpuriousWakeup
    <2>2. TypeOK' /\ LockHeldOnce'
        BY <2>1, <1>t DEF Inv, TypeOK, Size, LockHeldOnce, Rotating
    <2>3. DeadlineLate'
        BY <2>1, <1>t DEF Inv, DeadlineLate
    <2>4. Settled' /\ WalksClean'
        BY <2>1, Frames DEF Rotating
    <2> QED  BY <2>1, <2>2, <2>3, <2>4, Frames DEF Inv
<1>3. CASE Returns
    <2>1. /\ rot \in {"notified", "timedOut"} /\ ~Locked
          /\ \/ rot' = "enter" /\ UNCHANGED walk
             \/ now >= deadline /\ rot' = "rotating" /\ walk' = Disturbed
          /\ deadline' = 0
          /\ UNCHANGED <<now, param, filtersNum, filters, msg, torn, lastRotation>>
        BY <1>3 DEF Returns
    <2>2. walk' \in [Walker -> Walk] /\ WalksClean' /\ Meeting'
        <3>1. CASE rot' = "enter" /\ UNCHANGED walk
            BY <2>1, <3>1, <1>t, Frames DEF TypeOK, Rotating
        <3>2. CASE walk' = Disturbed
            BY <3>2, NoneClean
        <3> QED  BY <2>1, <3>1, <3>2
    <2>3. TypeOK' /\ LockHeldOnce'
        BY <2>1, <2>2, <1>t DEF Inv, TypeOK, Size, LockHeldOnce, Locked
    <2>4. DeadlineLate'
        BY <2>1, <1>t DEF Inv, DeadlineLate
    <2>5. Settled'
        BY <2>1, Frames
    <2> QED  BY <2>1, <2>2, <2>3, <2>4, <2>5, Frames DEF Inv
<1>4. CASE Erase
    <2>1. /\ rot = "rotating" /\ rot' = "appending" /\ filters' = Tail(filters)
          /\ UNCHANGED <<now, param, filtersNum, msg, deadline, walk, torn, lastRotation>>
        BY <1>4 DEF Erase
    <2>2. Len(filters) > 0
        BY <2>1, <1>t DEF TypeOK, Size
    <2>3. /\ filters' \in Seq(Filter) /\ Len(filters') = Len(filters) - 1
          /\ \A i \in DOMAIN filters' : i + 1 \in DOMAIN filters /\ filters'[i] = filters[i + 1]
        BY <2>1, <2>2, <1>t, SeqTail
    <2>4. TypeOK' /\ LockHeldOnce'
        BY <2>1, <2>2, <2>3, <1>t DEF Inv, TypeOK, Size, LockHeldOnce, Rotating
    <2>5. Settled'
        BY <2>1, <2>3, <1>t DEF Inv, Settled, Size
    <2>6. WalksClean' /\ Meeting'
        BY <2>1, Frames DEF Inv, WalksClean, Walking, Rotating
    <2>7. Prefixes'
        BY <2>1, <2>2, <1>t, PrefixTail DEF Inv, Prefixes
    <2>8. NumFits' /\ DeadlineLate'
        BY <2>1, Frames DEF DeadlineLate, Inv
    <2> QED  BY <2>4, <2>5, <2>6, <2>7, <2>8 DEF Inv
<1>5. CASE EmplaceBack
    <2> DEFINE e == [made |-> param, holds |-> {}]
    <2>1. /\ rot = "appending" /\ rot' = "enter" /\ filters' = Append(filters, e)
          /\ lastRotation' = {now}
          /\ UNCHANGED <<now, param, filtersNum, msg, deadline, walk, torn>>
        BY <1>5 DEF EmplaceBack
    <2>2. e \in Filter /\ e.holds = {} /\ e.made = param
        BY <1>t DEF Filter
    <2> HIDE DEF e
    <2>3. /\ filters' \in Seq(Filter) /\ Len(filters') = Len(filters) + 1
          /\ DOMAIN filters' = 1..(Len(filters) + 1) /\ DOMAIN filters = 1..Len(filters)
          /\ \A i \in DOMAIN filters : filters'[i] = filters[i]
          /\ filters'[Len(filters) + 1] = e
        BY <2>1, <2>2, <1>t, SeqAppend, SeqDomain
    <2>4. TypeOK' /\ LockHeldOnce'
        BY <2>1, <2>3, <1>t DEF Inv, TypeOK, Size, LockHeldOnce, Rotating
    <2>5. Settled'
        BY <2>1, <2>2, <2>3, <1>t DEF Inv, Settled, Size
    <2>6. WalksClean' /\ Meeting'
        BY <2>1, Frames DEF Inv, WalksClean, Walking, Rotating
    <2>7. Prefixes'
        BY <2>1, <2>2, <1>t, PrefixAppend DEF Inv, Prefixes
    <2>8. NumFits' /\ DeadlineLate'
        BY <2>1, <1>t, Frames DEF DeadlineLate, Inv
    <2> QED  BY <2>4, <2>5, <2>6, <2>7, <2>8 DEF Inv
<1> QED  BY <1>1, <1>2, <1>3, <1>4, <1>5

-----------------------------------------------------------------------------
(* The walks *)

LEMMA PrefixWritten ==
    ASSUME NEW fs \in Seq(Filter), NEW i \in DOMAIN fs,
           NEW in, in \subseteq Token, NEW lost, lost \subseteq Token, NEW u \in Token \ lost,
           Prefix(u, fs),
           u \in in => \A j \in DOMAIN fs : j < i => u \in fs[j].holds
    PROVE  Prefix(u, Written(fs, i, in, lost))
<1>1. PICK k \in 0..Len(fs) : {j \in DOMAIN fs : u \in fs[j].holds} = 1..k
    BY DEF Prefix
<1> DEFINE ws == Written(fs, i, in, lost)
<1>2. /\ Len(ws) = Len(fs) /\ DOMAIN ws = DOMAIN fs
      /\ \A j \in DOMAIN fs :
            /\ j = i => (u \in ws[j].holds <=> u \in fs[j].holds \/ u \in in)
            /\ j # i => ws[j].holds = fs[j].holds
      /\ DOMAIN fs = 1..Len(fs) /\ Len(fs) \in Nat
    <2>1. DOMAIN fs = 1..Len(fs) /\ Len(fs) \in Nat
        BY SeqDomain
    <2>2. WrittenFrom(ws, fs, i, in, lost)
        BY WrittenType, Zenon
    <2> QED  BY <2>1, <2>2 DEF WrittenFrom
<1> HIDE DEF ws
<1>3. CASE u \notin in \/ u \in fs[i].holds
    <2>1. {j \in DOMAIN ws : u \in ws[j].holds} = 1..k
        BY <1>1, <1>2, <1>3
    <2> QED  BY <2>1, <1>2 DEF Prefix, ws
<1>4. CASE u \in in /\ u \notin fs[i].holds
    <2>1. i = k + 1
        <3>1. ~(i \in 1..k)
            BY <1>1, <1>4
        <3>2. ASSUME k + 1 < i PROVE FALSE
            <4>1. k + 1 \in DOMAIN fs
                BY <3>2, <1>2
            <4>2. k + 1 \in 1..k
                BY <4>1, <3>2, <1>1, <1>4
            <4> QED  BY <4>2
        <3> QED  BY <3>1, <3>2, <1>2
    <2>2. {j \in DOMAIN ws : u \in ws[j].holds} = 1..(k + 1)
        <3>1. ASSUME NEW j \in DOMAIN fs
              PROVE  u \in ws[j].holds <=> j \in 1..(k + 1)
            BY <1>1, <1>2, <1>4, <2>1
        <3>2. \A j \in 1..(k + 1) : j \in DOMAIN fs
            BY <1>2, <2>1
        <3> QED  BY <1>2, <3>1, <3>2
    <2>3. k + 1 \in 0..Len(ws)
        BY <1>2, <2>1
    <2> QED  BY <2>2, <2>3 DEF Prefix, ws
<1> QED  BY <1>3, <1>4

\* A walk that begins cleanly finds the length of the vector in filtersNum.
LEMMA BeginStep ==
    ASSUME Inv, NEW w \in Walker, NEW kind \in Kind, NEW token \in Token \cup {NoToken},
           kind = "insert" => token \in Token, NEW last \in Nat,
           Begin(w, kind, token, last),
           (msg = "idle" /\ ~Rotating) => last <= Len(filters)
    PROVE  Inv'
<1> DEFINE meets == {v \in Walker : kind = "insert" /\ Inserting(v)}
           new == [kind |-> kind, token |-> token, next |-> 1, last |-> last,
                   clean |-> msg = "idle" /\ ~Rotating /\ meets = {}, beside |-> {}]
<1>1. /\ walk' = [v \in Walker |-> IF v = w THEN new
                                   ELSE [walk[v] EXCEPT !.clean = @ /\ v \notin meets]]
      /\ UNCHANGED <<now, param, filtersNum, filters, msg, rot, deadline, torn, lastRotation>>
      /\ ~Walking(w)
    BY DEF Begin
<1>2. /\ new \in Walk /\ new.next = 1 /\ new.last = last
      /\ new.kind = kind /\ new.token = token /\ new.beside = {}
    BY DEF Walk, Rotating
<1>3. new.clean <=> (msg = "idle" /\ ~Rotating /\ meets = {})
    BY Zenon
<1>4. \A v \in Walker : v \in meets <=> (kind = "insert" /\ Inserting(v))
    OBVIOUS
<1> HIDE DEF new, meets
<1>5. walk \in [Walker -> Walk] /\ filters \in Seq(Filter)
    BY DEF Inv, TypeOK
<1>6. ASSUME NEW v \in Walker, v # w
      PROVE  /\ walk'[v] \in Walk
             /\ walk'[v].next = walk[v].next /\ walk'[v].last = walk[v].last
             /\ walk'[v].kind = walk[v].kind /\ walk'[v].token = walk[v].token
             /\ walk'[v].beside = walk[v].beside
             /\ walk'[v].clean => walk[v].clean /\ v \notin meets
    <2>1. walk[v] \in Walk
        BY <1>5
    <2>2. PICK c \in BOOLEAN : c <=> (walk[v].clean /\ v \notin meets)
        OBVIOUS
    <2>3. walk[v].clean \in BOOLEAN
        BY <2>1 DEF Walk
    <2>4. (walk[v].clean /\ v \notin meets) = c
        BY <2>2, <2>3
    <2>5. walk'[v] = [walk[v] EXCEPT !.clean = c]
        BY <1>1, <1>6, <2>4
    <2>6. [walk[v] EXCEPT !.clean = c] \in Walk
        BY <2>1 DEF Walk
    <2>7. LET n == [walk[v] EXCEPT !.clean = c]
          IN  /\ n.next = walk[v].next /\ n.last = walk[v].last /\ n.kind = walk[v].kind
              /\ n.token = walk[v].token /\ n.beside = walk[v].beside /\ n.clean = c
        BY <2>1 DEF Walk
    <2> QED  BY <2>2, <2>5, <2>6, <2>7
<1>7. walk'[w] = new /\ walk' \in [Walker -> Walk]
    <2>1. walk'[w] = new /\ walk' = [v \in Walker |-> walk'[v]]
        BY <1>1
    <2> QED  BY <1>2, <1>6, <2>1
<1>8. TypeOK'
    BY <1>1, <1>7 DEF Inv, TypeOK, Size
<1>9. WalksClean'
    <2> SUFFICES ASSUME NEW v \in Walker, Walking(v)', walk'[v].clean
                 PROVE  /\ msg = "idle" /\ ~Rotating
                        /\ walk'[v].last <= Len(filters)
                        /\ Firm(v)' =>
                             \A j \in DOMAIN filters :
                                j < walk'[v].next => walk'[v].token \in filters[j].holds
        BY <1>1 DEF WalksClean, Rotating
    <2>1. CASE v = w
        <3>1. \A j \in DOMAIN filters : ~(j < 1)
            BY <1>5, SeqDomain
        <3> QED  BY <2>1, <3>1, <1>2, <1>3, <1>7
    <2>2. CASE v # w
        <3>1. Walking(v) /\ walk[v].clean /\ (Firm(v)' => Firm(v))
            <4>1. /\ walk'[v].next = walk[v].next /\ walk'[v].last = walk[v].last
                  /\ walk'[v].kind = walk[v].kind /\ walk'[v].token = walk[v].token
                  /\ walk'[v].clean => walk[v].clean
                  /\ torn' = torn
                BY <1>1, <1>6, <2>2
            <4> QED  BY <4>1 DEF Walking, Firm
        <3> QED  BY <3>1, <1>6, <2>2 DEF Inv, WalksClean
    <2> QED  BY <2>1, <2>2
<1>10. Meeting'
    <2>1. ASSUME NEW v \in Walker, Inserting(v)'
          PROVE  /\ walk'[v].token \in Token
                 /\ walk'[v].beside \subseteq torn' \cup {walk'[v].token}
                 /\ walk'[v].clean => walk'[v].beside = {}
        <3>1. CASE v = w
            BY <2>1, <3>1, <1>2, <1>7 DEF Inserting
        <3>2. CASE v # w
            <4>1. Inserting(v)
                BY <2>1, <3>2, <1>6 DEF Inserting, Walking
            <4> QED  BY <4>1, <3>2, <1>1, <1>6 DEF Inv, Meeting
        <3> QED  BY <3>1, <3>2
    <2>2. ASSUME NEW v \in Walker, NEW x \in Walker, v # x, Inserting(v)', Inserting(x)'
          PROVE  ~walk'[v].clean
        <3>1. CASE v = w
            <4>1. Inserting(x) /\ kind = "insert"
                BY <2>2, <3>1, <1>2, <1>6, <1>7 DEF Inserting, Walking
            <4> QED  BY <4>1, <3>1, <1>3, <1>4, <1>7
        <3>2. CASE x = w
            <4>1. Inserting(v) /\ kind = "insert"
                BY <2>2, <3>2, <1>2, <1>6, <1>7 DEF Inserting, Walking
            <4> QED  BY <2>2, <4>1, <3>2, <1>4, <1>6
        <3>3. CASE v # w /\ x # w
            <4>1. Inserting(v) /\ Inserting(x)
                BY <2>2, <3>3, <1>6 DEF Inserting, Walking
            <4> QED  BY <2>2, <4>1, <3>3, <1>6 DEF Inv, Meeting
        <3> QED  BY <3>1, <3>2, <3>3
    <2> QED  BY <2>1, <2>2 DEF Meeting
<1>11. Settled'
    BY <1>1, Frames
<1> QED  BY <1>1, <1>8, <1>9, <1>10, <1>11, Frames DEF Inv

LEMMA BeginDepthStep ==
    ASSUME Inv, NEW w \in Walker, NEW t \in Token, NEW kind \in Kind, NEW rem \in Nat,
           BeginDepth(w, kind, t, rem)
    PROVE  Inv'
<1>1. /\ rem \div param.rotationInterval \in 1..filtersNum
      /\ Begin(w, kind, t, rem \div param.rotationInterval)
    BY DEF BeginDepth
<1>2. filtersNum \in Nat
    BY DEF Inv, TypeOK
<1>3. (msg = "idle" /\ ~Rotating) => filtersNum = Len(filters)
    BY DEF Inv, Settled, Size, Rotating
<1>4. PICK n : n = rem \div param.rotationInterval
    OBVIOUS
<1>5. n \in Nat /\ n <= filtersNum /\ Begin(w, kind, t, n)
    BY <1>1, <1>2, <1>4
<1> QED  BY <1>3, <1>5, BeginStep

LEMMA BeginReportStep ==
    ASSUME Inv, BeginReport
    PROVE  Inv'
<1>1. PICK n : n = Len(filters)
    OBVIOUS
<1>2. n \in Nat
    BY <1>1, SeqDomain DEF Inv, TypeOK
<1>3. Begin("report", "report", NoToken, n)
    BY <1>1 DEF BeginReport
<1> QED  BY <1>1, <1>2, <1>3, BeginStep DEF Walker, Kind

\* A walk that has come to place n.
MovedOn(new, r, n, b) ==
    /\ new \in Walk /\ new.next = n /\ new.beside = b
    /\ new.last = r.last /\ new.kind = r.kind
    /\ new.token = r.token /\ new.clean = r.clean

LEMMA WalkOn ==
    ASSUME NEW r \in Walk, NEW n \in Nat \ {0}, NEW b, b \subseteq Token
    PROVE  MovedOn([r EXCEPT !.next = n, !.beside = b], r, n, b)
<1>1. [r EXCEPT !.next = n, !.beside = b] \in Walk
    BY DEF Walk
<1>2. /\ [r EXCEPT !.next = n, !.beside = b].next = n
      /\ [r EXCEPT !.next = n, !.beside = b].beside = b
      /\ [r EXCEPT !.next = n, !.beside = b].last = r.last
      /\ [r EXCEPT !.next = n, !.beside = b].kind = r.kind
      /\ [r EXCEPT !.next = n, !.beside = b].token = r.token
      /\ [r EXCEPT !.next = n, !.beside = b].clean = r.clean
    BY Zenon DEF Walk
<1> QED  BY <1>1, <1>2, Zenon DEF MovedOn

LEMMA WalkBeside ==
    ASSUME NEW r \in Walk, NEW b, b \subseteq Token
    PROVE  MovedOn([r EXCEPT !.beside = b], r, r.next, b)
<1>1. [r EXCEPT !.beside = b] \in Walk
    BY DEF Walk
<1>2. /\ [r EXCEPT !.beside = b].beside = b
      /\ [r EXCEPT !.beside = b].next = r.next
      /\ [r EXCEPT !.beside = b].last = r.last
      /\ [r EXCEPT !.beside = b].kind = r.kind
      /\ [r EXCEPT !.beside = b].token = r.token
      /\ [r EXCEPT !.beside = b].clean = r.clean
    BY Zenon DEF Walk
<1> QED  BY <1>1, <1>2, Zenon DEF MovedOn

\* The filter a walk has come to holds its token.
Holding(w) ==
    walk[w].next \in DOMAIN filters /\ walk[w].token \in filters[walk[w].next].holds

\* The vector after a write of walk w, which takes in and loses tokens.
Write(w, in, lost) ==
    /\ Inserting(w)
    /\ walk[w].next \in DOMAIN filters
    /\ in \subseteq {walk[w].token}
    /\ lost \subseteq walk[w].beside
    /\ filters' = Written(filters, walk[w].next, in, lost)

\* What one turn of a loop does to the vector and to its own walk.
LEMMA AccessEffect ==
    ASSUME Inv, NEW w \in Walker, Access(w)
    PROVE  /\ Walking(w)
           /\ \/ filters' = filters /\ ~(walk[w].kind = "insert" /\ walk[w].clean)
              \/ \E lost : Write(w, {walk[w].token}, lost)
           /\ walk[w].kind # "insert" => filters' = filters
           /\ torn' = IF walk[w].kind = "insert" /\ ~walk[w].clean
                      THEN torn \cup {walk[w].token} ELSE torn
           /\ walk'[w] \in Walk
           /\ \/ walk'[w].next > walk'[w].last
              \/ /\ walk'[w].next = walk[w].next + 1 /\ walk'[w].clean = walk[w].clean
                 /\ walk'[w].last = walk[w].last /\ walk'[w].kind = walk[w].kind
                 /\ walk'[w].token = walk[w].token /\ walk'[w].beside = {}
                 /\ (walk'[w].kind = "query" /\ walk'[w].clean) => Holding(w)
           /\ UNCHANGED <<now, param, filtersNum, msg, rot, deadline, lastRotation>>
<1>1. /\ walk \in [Walker -> Walk] /\ filters \in Seq(Filter)
      /\ walk[w] \in Walk /\ walk[w].next \in Nat \ {0}
      /\ DOMAIN filters = 1..Len(filters) /\ Len(filters) \in Nat
    BY SeqDomain DEF Inv, TypeOK, Walk
<1>2. /\ Walking(w)
      /\ \/ /\ walk[w].kind = "insert" /\ walk[w].next \in DOMAIN filters
            /\ \E lost \in SUBSET walk[w].beside :
                    filters' = Written(filters, walk[w].next, {walk[w].token}, lost)
         \/ /\ walk[w].kind # "insert" \/ ~(walk[w].next \in DOMAIN filters /\ ~Locked)
            /\ UNCHANGED filters
    BY DEF Access, Add, Written
<1>3. torn' = IF walk[w].kind = "insert" /\ ~walk[w].clean
              THEN torn \cup {walk[w].token} ELSE torn
    BY DEF Access
<1>4. UNCHANGED <<now, param, filtersNum, msg, rot, deadline, lastRotation>>
    BY DEF Access
<1>5. walk[w].clean => ~Locked /\ walk[w].next \in DOMAIN filters
    <2>1. walk[w].clean => msg = "idle" /\ ~Rotating /\ walk[w].last <= Len(filters)
        BY <1>2 DEF Inv, WalksClean
    <2>2. walk[w].next <= walk[w].last /\ walk[w].last \in Nat
        BY <1>1, <1>2 DEF Walking, Walk
    <2> QED  BY <1>1, <2>1, <2>2 DEF Locked
<1>6. \/ filters' = filters /\ ~(walk[w].kind = "insert" /\ walk[w].clean)
      \/ \E lost : Write(w, {walk[w].token}, lost)
    <2>1. CASE /\ walk[w].kind = "insert" /\ walk[w].next \in DOMAIN filters
               /\ \E lost \in SUBSET walk[w].beside :
                       filters' = Written(filters, walk[w].next, {walk[w].token}, lost)
        BY <1>2, <2>1 DEF Write, Inserting
    <2>2. CASE /\ walk[w].kind # "insert" \/ ~(walk[w].next \in DOMAIN filters /\ ~Locked)
               /\ UNCHANGED filters
        BY <1>5, <2>2
    <2> QED  BY <1>2, <2>1, <2>2
<1>7. walk[w].kind # "insert" => filters' = filters
    BY <1>2
<1>8. /\ walk'[w] \in Walk
      /\ \/ walk'[w].next > walk'[w].last
         \/ /\ walk'[w].next = walk[w].next + 1 /\ walk'[w].clean = walk[w].clean
            /\ walk'[w].last = walk[w].last /\ walk'[w].kind = walk[w].kind
            /\ walk'[w].token = walk[w].token /\ walk'[w].beside = {}
            /\ (walk'[w].kind = "query" /\ walk'[w].clean) => Holding(w)
    <2>1. PICK n \in Nat \ {0} : n = walk[w].next + 1
        BY <1>1
    <2> DEFINE next == [walk[w] EXCEPT !.next = n, !.beside = {}]
    <2>2. \/ walk'[w] = NoWalk
          \/ /\ walk'[w] = next
             /\ ~(/\ walk[w].kind = "query" /\ walk[w].next \in DOMAIN filters /\ ~Locked
                  /\ walk[w].token \notin filters[walk[w].next].holds)
        BY <2>1 DEF Access, Passed
    <2>3. /\ next \in Walk /\ next.next = walk[w].next + 1 /\ next.beside = {}
          /\ next.last = walk[w].last /\ next.kind = walk[w].kind
          /\ next.token = walk[w].token /\ next.clean = walk[w].clean
        <3>1. {} \subseteq Token /\ walk[w] \in Walk
            BY <1>1
        <3>2. MovedOn(next, walk[w], n, {})
            BY <3>1, WalkOn, Zenon
        <3> HIDE DEF next
        <3> QED  BY <2>1, <3>2 DEF MovedOn
    <2> HIDE DEF next
    <2>4. CASE walk'[w] = NoWalk
        <3>1. NoWalk \in Walk /\ NoWalk.next > NoWalk.last
            BY NoWalkType
        <3> QED  BY <2>4, <3>1, Zenon
    <2>5. CASE walk'[w] = next /\ walk'[w] # NoWalk
        <3>1. ASSUME next.kind = "query", next.clean PROVE Holding(w)
            BY <1>1, <1>5, <2>2, <2>3, <2>5, <3>1 DEF Holding
        <3> QED  BY <2>3, <2>5, <3>1, Zenon
    <2> QED  BY <2>2, <2>4, <2>5
<1> QED  BY <1>2, <1>3, <1>4, <1>6, <1>7, <1>8

\* And to the other walks.
LEMMA AccessBeside ==
    ASSUME Inv, NEW w \in Walker, Access(w), NEW v \in Walker, v # w
    PROVE  /\ walk'[v] \in Walk
           /\ walk'[v].next = walk[v].next /\ walk'[v].last = walk[v].last
           /\ walk'[v].kind = walk[v].kind /\ walk'[v].token = walk[v].token
           /\ walk'[v].clean = walk[v].clean
           /\ walk'[v].beside # walk[v].beside =>
                /\ Inserting(w) /\ Inserting(v)
                /\ walk'[v].beside \subseteq walk[v].beside \cup {walk[v].token, walk[w].token}
<1>1. walk[v] \in Walk /\ walk[v].beside \in SUBSET Token
    BY DEF Inv, TypeOK, Walk
<1> DEFINE more == walk[v].beside
                    \cup ({walk[v].token, walk[w].token} \ filters[walk[w].next].holds)
<1>2. \/ walk'[v] = walk[v]
      \/ /\ Inserting(w) /\ Inserting(v)
         /\ walk'[v] = [walk[v] EXCEPT !.beside = more]
    BY DEF Access, Passed
<1>3. CASE walk'[v] = walk[v]
    BY <1>1, <1>3
<1>4. CASE /\ Inserting(w) /\ Inserting(v)
           /\ walk'[v] = [walk[v] EXCEPT !.beside = more]
    <2>1. more \in SUBSET Token
        BY <1>1, <1>4 DEF Inv, Meeting
    <2>2. more \subseteq walk[v].beside \cup {walk[v].token, walk[w].token}
        OBVIOUS
    <2> HIDE DEF more
    <2>3. PICK b \in SUBSET Token : b = more
        BY <2>1
    <2>4. walk'[v] = [walk[v] EXCEPT !.beside = b]
        BY <1>4, <2>3
    <2>5. MovedOn(walk'[v], walk[v], walk[v].next, b)
        BY <1>1, <2>3, <2>4, WalkBeside, Zenon
    <2> QED  BY <1>4, <2>2, <2>3, <2>5 DEF MovedOn
<1> QED  BY <1>2, <1>3, <1>4

\* What a write may take out of a filter is torn once it is done.
LEMMA WriteEffect ==
    ASSUME Inv, NEW w \in Walker, NEW in, NEW lost, Write(w, in, lost)
    PROVE  /\ filters' \in Seq(Filter) /\ Len(filters') = Len(filters)
           /\ DOMAIN filters' = DOMAIN filters
           /\ in \in SUBSET Token /\ lost \in SUBSET Token
           /\ lost \subseteq torn \cup {walk[w].token}
           /\ walk[w].clean => lost = {}
           /\ \A j \in DOMAIN filters :
                /\ filters'[j].made = filters[j].made
                /\ j = walk[w].next => filters'[j].holds = (filters[j].holds \cup in) \ lost
                /\ j # walk[w].next => filters'[j].holds = filters[j].holds
<1>1. /\ filters \in Seq(Filter) /\ Inserting(w) /\ walk[w].token \in Token
      /\ walk[w].beside \subseteq torn \cup {walk[w].token}
      /\ walk[w].clean => walk[w].beside = {}
      /\ walk[w].beside \subseteq Token
    BY DEF Inv, TypeOK, Meeting, Walk, Write
<1>2. in \in SUBSET Token /\ lost \in SUBSET Token
    BY <1>1 DEF Write
<1>3. PICK i \in DOMAIN filters : i = walk[w].next
    BY DEF Write
<1>4. filters' = Written(filters, i, in, lost)
    BY <1>3 DEF Write
<1>5. /\ lost \subseteq torn \cup {walk[w].token}
      /\ walk[w].clean => lost = {}
    BY <1>1 DEF Write
<1>6. /\ filters' \in Seq(Filter) /\ Len(filters') = Len(filters)
      /\ DOMAIN filters' = DOMAIN filters
      /\ \A j \in DOMAIN filters :
            /\ filters'[j].made = filters[j].made
            /\ j = i => filters'[j].holds = (filters[j].holds \cup in) \ lost
            /\ j # i => filters'[j].holds = filters[j].holds
    <2>1. PICK fs \in Seq(Filter) : fs = filters
        BY <1>1
    <2>2. i \in DOMAIN fs /\ filters' = Written(fs, i, in, lost)
        BY <1>4, <2>1
    <2>3. WrittenFrom(Written(fs, i, in, lost), fs, i, in, lost)
        BY <1>2, <2>2, WrittenType, Zenon
    <2> QED  BY <2>1, <2>2, <2>3 DEF WrittenFrom
<1> QED  BY <1>2, <1>3, <1>5, <1>6

\* A step takes out of the filters torn tokens only, and makes no filter.
Keeps ==
    /\ filters' \in Seq(Filter) /\ Len(filters') = Len(filters)
    /\ DOMAIN filters' = DOMAIN filters
    /\ \A j \in DOMAIN filters :
            /\ filters'[j].made = filters[j].made
            /\ filters[j].holds \subseteq filters'[j].holds \cup torn'

LEMMA AccessKeeps ==
    ASSUME Inv, NEW w \in Walker, Access(w)
    PROVE  /\ Keeps
           /\ (walk[w].kind = "insert" /\ walk[w].clean) =>
                /\ \A j \in DOMAIN filters : filters[j].holds \subseteq filters'[j].holds
                /\ walk[w].token \in filters'[walk[w].next].holds
<1>1. filters \in Seq(Filter)
    BY DEF Inv, TypeOK
<1>2. CASE filters' = filters /\ ~(walk[w].kind = "insert" /\ walk[w].clean)
    BY <1>1, <1>2 DEF Keeps
<1>3. ASSUME NEW lost, Write(w, {walk[w].token}, lost)
      PROVE  /\ Keeps
             /\ (walk[w].kind = "insert" /\ walk[w].clean) =>
                  /\ \A j \in DOMAIN filters : filters[j].holds \subseteq filters'[j].holds
                  /\ walk[w].token \in filters'[walk[w].next].holds
    <2>1. /\ filters' \in Seq(Filter) /\ Len(filters') = Len(filters)
          /\ DOMAIN filters' = DOMAIN filters
          /\ lost \subseteq torn \cup {walk[w].token}
          /\ walk[w].clean => lost = {}
          /\ \A j \in DOMAIN filters :
                /\ filters'[j].made = filters[j].made
                /\ j = walk[w].next =>
                     filters'[j].holds = (filters[j].holds \cup {walk[w].token}) \ lost
                /\ j # walk[w].next => filters'[j].holds = filters[j].holds
        BY <1>3, WriteEffect
    <2>2. lost \subseteq torn' /\ walk[w].next \in DOMAIN filters
        BY <1>3, <2>1, AccessEffect DEF Write, Inserting
    <2>3. Keeps
        BY <2>1, <2>2 DEF Keeps
    <2>4. ASSUME walk[w].clean
          PROVE  /\ \A j \in DOMAIN filters : filters[j].holds \subseteq filters'[j].holds
                 /\ walk[w].token \in filters'[walk[w].next].holds
        BY <2>1, <2>2, <2>4
    <2> QED  BY <2>3, <2>4
<1> QED  BY <1>2, <1>3, AccessEffect

\* The tokens not torn stay in a prefix under a write.
LEMMA WritePrefixes ==
    ASSUME Inv, NEW w \in Walker, NEW in, NEW lost, Write(w, in, lost),
           lost \subseteq torn', torn \subseteq torn',
           in \subseteq torn' \/ walk[w].clean
    PROVE  Prefixes'
<1> SUFFICES ASSUME NEW u \in Token \ torn' PROVE Prefix(u, filters')
    BY DEF Prefixes, Prefix
<1>1. u \in Token \ lost /\ Prefix(u, filters)
    BY DEF Inv, Prefixes
<1>2. filters \in Seq(Filter) /\ in \in SUBSET Token /\ lost \in SUBSET Token
    BY WriteEffect DEF Inv, TypeOK
<1>3. PICK i \in DOMAIN filters : i = walk[w].next
    BY DEF Write
<1>4. u \in in => \A j \in DOMAIN filters : j < i => u \in filters[j].holds
    <2>1. u \in in => walk[w].clean /\ u = walk[w].token
        BY DEF Write
    <2>2. Walking(w) /\ Firm(w)
        BY DEF Write, Inserting, Firm
    <2> QED  BY <1>3, <2>1, <2>2 DEF Inv, WalksClean
<1>5. filters' = Written(filters, i, in, lost)
    BY <1>3 DEF Write
<1> QED  BY <1>1, <1>2, <1>4, <1>5, PrefixWritten

LEMMA AccessStep ==
    ASSUME Inv, NEW w \in Walker, Access(w)
    PROVE  Inv'
<1>1. /\ walk \in [Walker -> Walk] /\ filters \in Seq(Filter) /\ torn \subseteq Token
      /\ walk[w] \in Walk /\ walk[w].next \in Nat
      /\ DOMAIN filters = 1..Len(filters) /\ Len(filters) \in Nat
    BY SeqDomain DEF Inv, TypeOK, Walk
<1>2. /\ Walking(w)
      /\ UNCHANGED <<now, param, filtersNum, msg, rot, deadline, lastRotation>>
      /\ torn' = IF walk[w].kind = "insert" /\ ~walk[w].clean
                 THEN torn \cup {walk[w].token} ELSE torn
      /\ walk[w].kind # "insert" => filters' = filters
    BY AccessEffect
<1>3. /\ walk'[w] \in Walk
      /\ Walking(w)' =>
            /\ walk'[w].next = walk[w].next + 1 /\ walk'[w].clean = walk[w].clean
            /\ walk'[w].last = walk[w].last /\ walk'[w].kind = walk[w].kind
            /\ walk'[w].token = walk[w].token /\ walk'[w].beside = {}
            /\ (walk'[w].kind = "query" /\ walk'[w].clean) => Holding(w)
    <2>1. walk'[w] \in Walk
        BY AccessEffect
    <2>2. walk'[w].next \in Nat /\ walk'[w].last \in Nat
        BY <2>1 DEF Walk
    <2>3. Walking(w)' => ~(walk'[w].next > walk'[w].last)
        BY <2>2 DEF Walking
    <2> QED  BY <2>1, <2>3, AccessEffect
<1>4. Keeps /\ torn \subseteq torn'
    BY <1>2, AccessKeeps
<1>5. TypeOK'
    <2>1. walk' \in [Walker -> Walk]
        <3>1. walk' = [v \in Walker |-> walk'[v]]
            BY DEF Access, Passed
        <3>2. \A v \in Walker : walk'[v] \in Walk
            BY <1>3, AccessBeside
        <3> QED  BY <3>1, <3>2
    <2>2. torn' \subseteq Token
        BY <1>1, <1>2 DEF Inv, Meeting, Inserting
    <2> QED  BY <1>2, <1>4, <2>1, <2>2 DEF Inv, TypeOK, Size, Keeps
<1>6. Settled'
    BY <1>2, <1>4 DEF Inv, Settled, Size, Keeps
<1>7. WalksClean'
    <2> SUFFICES ASSUME NEW v \in Walker, Walking(v)', walk'[v].clean
                 PROVE  /\ msg = "idle" /\ ~Rotating
                        /\ walk'[v].last <= Len(filters)
                        /\ Firm(v)' =>
                             \A j \in DOMAIN filters :
                                j < walk'[v].next => walk'[v].token \in filters'[j].holds
        BY <1>2, <1>4 DEF WalksClean, Rotating, Keeps
    <2>1. CASE v # w
        <3>1. /\ Walking(v) /\ walk[v].clean /\ walk'[v].last = walk[v].last
              /\ walk'[v].next = walk[v].next /\ walk'[v].token = walk[v].token
              /\ walk'[v].kind = walk[v].kind
            BY <2>1, AccessBeside DEF Walking
        <3>2. Firm(v)' => Firm(v)
            BY <1>4, <3>1 DEF Firm
        <3>3. /\ msg = "idle" /\ ~Rotating /\ walk[v].last <= Len(filters)
              /\ Firm(v) =>
                   \A j \in DOMAIN filters : j < walk[v].next => walk[v].token \in filters[j].holds
            BY <3>1 DEF Inv, WalksClean
        <3>4. CASE walk[v].kind = "insert"
            <4>1. ~Inserting(w)
                BY <2>1, <3>1, <3>4 DEF Inv, Meeting, Inserting
            <4>2. filters' = filters
                BY <1>2, <4>1 DEF Inserting
            <4> QED  BY <3>1, <3>2, <3>3, <4>2
        <3>5. CASE walk[v].kind # "insert"
            <4>1. Firm(v)' => walk[v].token \notin torn'
                BY <3>1, <3>5 DEF Firm
            <4> QED  BY <1>4, <3>1, <3>2, <3>3, <4>1 DEF Keeps
        <3> QED  BY <3>4, <3>5
    <2>2. CASE v = w
        <3>1. /\ walk'[w].next = walk[w].next + 1 /\ walk[w].clean
              /\ walk'[w].last = walk[w].last /\ walk'[w].kind = walk[w].kind
              /\ walk'[w].token = walk[w].token
              /\ walk[w].kind = "query" => Holding(w)
            BY <1>3, <2>2
        <3>2. /\ msg = "idle" /\ ~Rotating /\ walk[w].last <= Len(filters)
              /\ Firm(w) =>
                   \A j \in DOMAIN filters : j < walk[w].next => walk[w].token \in filters[j].holds
            BY <1>2, <3>1 DEF Inv, WalksClean
        <3>3. Firm(w)' => Firm(w)
            BY <1>4, <3>1 DEF Firm
        <3>4. ASSUME Firm(w), NEW j \in DOMAIN filters, j < walk[w].next + 1
              PROVE  walk[w].token \in filters'[j].holds
            <4>1. j < walk[w].next \/ j = walk[w].next
                BY <1>1, <3>4
            <4>2. CASE walk[w].kind = "insert"
                BY <3>1, <3>2, <3>4, <4>1, <4>2, AccessKeeps
            <4>3. CASE walk[w].kind = "query"
                BY <1>2, <3>1, <3>2, <3>4, <4>1, <4>3 DEF Holding
            <4> QED  BY <3>4, <4>2, <4>3 DEF Firm
        <3> QED  BY <2>2, <3>1, <3>2, <3>3, <3>4
    <2> QED  BY <2>1, <2>2
<1>8. Meeting'
    <2>1. ASSUME NEW v \in Walker, Inserting(v)'
          PROVE  /\ Inserting(v) /\ walk'[v].clean = walk[v].clean
                 /\ walk'[v].token = walk[v].token
                 /\ walk'[v].beside \subseteq torn' \cup {walk'[v].token}
                 /\ walk'[v].clean => walk'[v].beside = {}
        <3>1. CASE v = w
            BY <1>2, <1>3, <2>1, <3>1 DEF Inserting
        <3>2. CASE v # w
            <4>1. /\ Inserting(v) /\ walk'[v].token = walk[v].token
                  /\ walk'[v].clean = walk[v].clean
                  /\ walk'[v].beside # walk[v].beside =>
                        /\ Inserting(w)
                        /\ walk'[v].beside
                                \subseteq walk[v].beside \cup {walk[v].token, walk[w].token}
                BY <2>1, <3>2, AccessBeside DEF Inserting, Walking
            <4>2. /\ walk[v].beside \subseteq torn \cup {walk[v].token}
                  /\ walk[v].clean => walk[v].beside = {}
                BY <4>1 DEF Inv, Meeting
            <4>3. Inserting(w) => ~walk[w].clean /\ ~walk[v].clean
                BY <3>2, <4>1 DEF Inv, Meeting
            <4>4. Inserting(w) => walk[w].token \in torn'
                BY <1>2, <4>3 DEF Inserting
            <4> QED  BY <1>4, <4>1, <4>2, <4>3, <4>4
        <3> QED  BY <3>1, <3>2
    <2>2. \A v \in Walker : Inserting(v)' => walk'[v].token \in Token
        BY <2>1 DEF Inv, Meeting
    <2>3. \A v, x \in Walker : (v # x /\ Inserting(v)' /\ Inserting(x)') => ~walk'[v].clean
        BY <2>1 DEF Inv, Meeting
    <2> QED  BY <2>1, <2>2, <2>3 DEF Meeting
<1>9. Prefixes'
    <2>1. CASE filters' = filters
        BY <1>4, <2>1 DEF Inv, Prefixes, Prefix
    <2>2. ASSUME NEW lost, Write(w, {walk[w].token}, lost)
          PROVE  Prefixes'
        <3>1. Inserting(w) /\ (~walk[w].clean => walk[w].token \in torn')
            BY <1>2, <2>2 DEF Write, Inserting
        <3>2. lost \subseteq torn'
            BY <1>4, <2>2, <3>1, WriteEffect
        <3> QED  BY <1>4, <2>2, <3>1, <3>2, WritePrefixes
    <2> QED  BY <2>1, <2>2, AccessEffect
<1> QED  BY <1>2, <1>5, <1>6, <1>7, <1>8, <1>9, Frames DEF Inv

LEMMA OverwriteEffect ==
    ASSUME Inv, NEW w \in Walker, Overwrite(w)
    PROVE  /\ UNCHANGED <<now, param, filtersNum, msg, rot, deadline, walk, lastRotation>>
           /\ Keeps
           /\ \E lost : /\ Write(w, {}, lost)
                        /\ torn' = torn \cup lost /\ lost \subseteq Token
           /\ ~walk[w].clean \/ filters' = filters
<1>1. UNCHANGED <<now, param, filtersNum, msg, rot, deadline, walk, lastRotation>>
    BY DEF Overwrite
<1>2. PICK lost \in SUBSET walk[w].beside :
            /\ filters' = [filters EXCEPT ![walk[w].next].holds = @ \ lost]
            /\ torn' = torn \cup lost
            /\ Inserting(w) /\ walk[w].next \in DOMAIN filters
    BY DEF Overwrite
<1>3. \A S : (S \cup {}) \ lost = S \ lost
    OBVIOUS
<1>4. Write(w, {}, lost)
    BY <1>2, <1>3 DEF Write, Written
<1>5. /\ filters' \in Seq(Filter) /\ Len(filters') = Len(filters)
      /\ DOMAIN filters' = DOMAIN filters
      /\ lost \in SUBSET Token
      /\ walk[w].clean => lost = {}
      /\ \A j \in DOMAIN filters :
            /\ filters'[j].made = filters[j].made
            /\ j = walk[w].next => filters'[j].holds = (filters[j].holds \cup {}) \ lost
            /\ j # walk[w].next => filters'[j].holds = filters[j].holds
    BY <1>4, WriteEffect
<1>6. Keeps
    BY <1>2, <1>5 DEF Keeps
<1>7. walk[w].clean => filters' = filters
    <2>1. ASSUME lost = {} PROVE filters' = filters
        <3>1. filters \in Seq(Filter) /\ filters[walk[w].next] \in Filter
            BY <1>2, SeqDomain DEF Inv, TypeOK
        <3>2. PICK f \in Filter, i \in DOMAIN filters : f = filters[i] /\ i = walk[w].next
            BY <1>2, <3>1
        <3>3. [f EXCEPT !.holds = @ \ lost] = f
            BY <2>1 DEF Filter
        <3>4. filters' = [filters EXCEPT ![i] = f]
            BY <1>2, <3>2, <3>3
        <3> QED  BY <3>1, <3>2, <3>4
    <2> QED  BY <1>5, <2>1
<1> QED  BY <1>1, <1>2, <1>4, <1>5, <1>6, <1>7

LEMMA OverwriteStep ==
    ASSUME Inv, NEW w \in Walker, Overwrite(w)
    PROVE  Inv'
<1>1. /\ UNCHANGED <<now, param, filtersNum, msg, rot, deadline, walk, lastRotation>>
      /\ Keeps
    BY OverwriteEffect
<1>2. PICK lost : /\ Write(w, {}, lost)
                  /\ torn' = torn \cup lost /\ lost \subseteq Token
    BY OverwriteEffect
<1>3. TypeOK' /\ Settled'
    BY <1>1, <1>2 DEF Inv, TypeOK, Settled, Size, Keeps
<1>4. WalksClean'
    <2> SUFFICES ASSUME NEW v \in Walker, Walking(v), walk[v].clean, Firm(v)',
                        NEW j \in DOMAIN filters, j < walk[v].next
                 PROVE  walk[v].token \in filters'[j].holds
        BY <1>1 DEF Inv, WalksClean, Walking, Rotating, Keeps
    <2>1. Firm(v)
        BY <1>1, <1>2 DEF Firm
    <2>2. walk[v].token \in filters[j].holds
        BY <2>1 DEF Inv, WalksClean
    <2>3. CASE walk[v].kind = "insert"
        <3>1. Inserting(v) /\ Inserting(w)
            BY <1>2, <2>3 DEF Inserting, Write
        <3>2. v # w => FALSE
            BY <3>1 DEF Inv, Meeting
        <3>3. filters' = filters
            BY <3>2, OverwriteEffect
        <3> QED  BY <2>2, <3>3
    <2>4. CASE walk[v].kind # "insert"
        BY <1>1, <2>2, <2>4 DEF Firm, Keeps
    <2> QED  BY <2>3, <2>4
<1>5. Meeting'
    BY <1>1, <1>2 DEF Inv, Meeting, Inserting, Walking
<1>6. Prefixes'
    BY <1>2, WritePrefixes
<1> QED  BY <1>1, <1>3, <1>4, <1>5, <1>6, Frames DEF Inv

LEMMA InvNext ==
    ASSUME Inv, [Next]_vars
    PROVE  Inv'
<1>t. now \in Nat /\ deadline \in Nat /\ lastRotation \subseteq Nat
      /\ param.rotationInterval \in Nat
    BY FiltersNumType DEF Inv, TypeOK
<1>1. CASE Tick
    <2>1. now' = now + 1
          /\ UNCHANGED <<param, filtersNum, filters, msg, rot, deadline, walk, torn, lastRotation>>
        BY <1>1 DEF Tick
    <2>2. TypeOK'
        BY <2>1 DEF Inv, TypeOK, Size
    <2>3. DeadlineLate'
        BY <2>1, <1>t DEF Inv, DeadlineLate
    <2>4. WalksClean' /\ Settled'
        BY <2>1, Frames DEF Rotating
    <2> QED  BY <2>1, <2>2, <2>3, <2>4, Frames DEF Inv
<1>2. CASE (\E p \in Params : SetParam(p)) \/ SetFiltersNum \/ LockFilters \/ Swap \/ Notify
    BY <1>2, MessageSteps
<1>3. CASE EnterWait \/ TimeOut \/ SpuriousWakeup \/ Returns \/ Erase \/ EmplaceBack
    BY <1>3, RotationSteps
<1>4. CASE \E t \in Token, rem \in Lifetimes :
              \/ \E w \in {"message", "server"} : BeginDepth(w, "insert", t, rem)
              \/ BeginDepth("server", "query", t, rem)
    <2>1. Lifetimes \subseteq Nat
        BY ThreadsAssumption DEF Lifetimes, Param
    <2> QED  BY <1>4, <2>1, BeginDepthStep DEF Walker, Kind
<1>5. CASE BeginReport
    BY <1>5, BeginReportStep
<1>6. CASE \E w \in Walker : Overwrite(w) \/ Access(w)
    BY <1>6, AccessStep, OverwriteStep
<1>7. CASE UNCHANGED vars
    <2>1. UNCHANGED <<now, param, filtersNum, filters, msg, rot, deadline, walk, torn, lastRotation>>
        BY <1>7 DEF vars
    <2>2. TypeOK'
        BY <2>1 DEF Inv, TypeOK, Size
    <2>3. WalksClean' /\ Settled'
        BY <2>1, Frames DEF Rotating
    <2> QED  BY <2>1, <2>2, <2>3, Frames DEF Inv
<1> QED  BY <1>1, <1>2, <1>3, <1>4, <1>5, <1>6, <1>7 DEF Next

LEMMA InvAlways ==
    Spec => []Inv
<1>1. Init => Inv
    BY InvInit
<1>2. Inv /\ [Next]_vars => Inv'
    BY InvNext
<1> QED  BY <1>1, <1>2, PTL DEF Spec

-----------------------------------------------------------------------------
(* The theorems on invariants *)

\* Types of the engine's shared state, and a vector never empty outside a
\* rotation, whatever threads overlap (Engine.hpp:99-124, 311-333).
THEOREM ThreadsTypeCorrect ==
    Spec => []TypeOK
<1>1. Inv => TypeOK
    BY DEF Inv
<1> QED  BY <1>1, InvAlways, PTL

\* After every adjustment the vector fits the parameters, though they are
\* written piece by piece outside the lock (Engine.hpp:101-107, 119-122, 322-323).
THEOREM AdjustmentsSettle ==
    Spec => []Settled
<1>1. Inv => Settled
    BY DEF Inv
<1> QED  BY <1>1, InvAlways, PTL

\* Without the lock, a loop over the filters that nothing overlaps stays inside
\* the vector (Engine.hpp:143, 163-165, 185).
THEOREM CleanWalksStayInside ==
    Spec => []CleanWalkInBounds
<1>1. Inv => CleanWalkInBounds
    BY DEF Inv, WalksClean, CleanWalkInBounds
<1> QED  BY <1>1, InvAlways, PTL

\* A revocation that nothing overlaps is as good as atomic, and so is a query that
\* no change of the vector overlaps, unless an insert of its token met another:
\* what it has passed is all still there at its last access (Engine.hpp:143,
\* 163-168, BaseBloomFilter.hpp:26-30).
THEOREM CleanWalksKeepHold ==
    Spec => []CleanWalkHolds
<1>1. Inv => CleanWalkHolds
    BY DEF Inv, WalksClean, Firm, CleanWalkHolds
<1> QED  BY <1>1, InvAlways, PTL

\* Inserts that neither a change of the vector nor another insert overlaps leave no
\* gap, whatever rotations, rebuilds and inserts come after them (Engine.hpp:143,
\* 322-323, BaseBloomFilter.hpp:26-30).
THEOREM InsertsLeaveNoGap ==
    Spec => []HeldInOrder
<1>1. ASSUME Inv PROVE HeldInOrder
    <2> SUFFICES ASSUME NEW t \in Token \ torn, NEW i \in DOMAIN filters, NEW j \in DOMAIN filters,
                        i < j, t \in filters[j].holds
                 PROVE  t \in filters[i].holds
        BY DEF HeldInOrder
    <2>1. PICK k \in 0..Len(filters) : {n \in DOMAIN filters : t \in filters[n].holds} = 1..k
        BY <1>1 DEF Inv, Prefixes, Prefix
    <2>2. DOMAIN filters = 1..Len(filters) /\ Len(filters) \in Nat
        BY <1>1, SeqDomain DEF Inv, TypeOK
    <2>3. j \in 1..k
        BY <2>1
    <2>4. i \in 1..k
        BY <2>2, <2>3
    <2> QED  BY <2>1, <2>4
<1> QED  BY <1>1, InvAlways, PTL

\* No rotation comes sooner than an interval after the one before, under the
\* same parameters (Engine.hpp:316).
THEOREM RotationsKeepApart ==
    Spec => []RotationsApart
<1>1. ASSUME Inv PROVE RotationsApart
    <2>1. now \in Nat /\ deadline \in Nat /\ lastRotation \subseteq Nat
          /\ param.rotationInterval \in Nat
        BY <1>1, FiltersNumType DEF Inv, TypeOK
    <2> QED  BY <1>1, <2>1 DEF Inv, DeadlineLate, RotationsApart
<1> QED  BY <1>1, InvAlways, PTL

-----------------------------------------------------------------------------
(* The refinement *)

LEMMA HeldPrefix ==
    ASSUME Inv, NEW t \in Token, t \notin torn
    PROVE  \E k \in 0..Len(filters) : Held(t) = 1..k
BY DEF Inv, Prefixes, Prefix, Held

LEMMA DepthStutters ==
    ASSUME UNCHANGED <<filters, torn>>, rot = "appending" <=> rot' = "appending", NEW t
    PROVE  UNCHANGED Depth(t)!vars
BY DEF Depth!vars, Size, Held

LEMMA DepthSwap ==
    ASSUME Inv, Swap, NEW t \in Token
    PROVE  Depth(t)!Rebuild
<1>1. Recovered(param, filters') /\ torn' = {} /\ rot' = rot /\ param \in Params
      /\ rot # "appending"
    BY DEF Swap, Inv, TypeOK, LockHeldOnce, Rotating
<1>2. PICK fs : fs = filters' /\ Recovered(param, fs)
    BY <1>1
<1>3. Len(fs) \in Nat /\ Prefix(t, fs)
    BY <1>1, <1>2, RecoveredType, FiltersNumType
<1>4. Size' = Len(fs) /\ Held(t)' = {i \in DOMAIN fs : t \in fs[i].holds}
    BY <1>1, <1>2 DEF Size, Held
<1> QED  BY <1>1, <1>3, <1>4 DEF Depth!Rebuild, Prefix

LEMMA DepthErase ==
    ASSUME Inv, Erase, NEW t \in Token
    PROVE  Depth(t)!Rotate
<1>1. /\ rot = "rotating" /\ rot' = "appending" /\ filters' = Tail(filters) /\ torn' = torn
      /\ filters \in Seq(Filter) /\ Len(filters) > 0
    BY DEF Erase, Inv, TypeOK, Size
<1>2. /\ filters' \in Seq(Filter) /\ Len(filters') = Len(filters) - 1 /\ Len(filters) \in Nat
      /\ DOMAIN filters' = 1..(Len(filters) - 1) /\ DOMAIN filters = 1..Len(filters)
      /\ \A i \in DOMAIN filters' : i + 1 \in DOMAIN filters /\ filters'[i] = filters[i + 1]
    BY <1>1, SeqTail, SeqDomain
<1>3. Size' = Size /\ Size = Len(filters)
    BY <1>1, <1>2 DEF Size
<1>4. Held(t)' = {i \in 1..Len(filters) : i + 1 \in Held(t)}
    BY <1>1, <1>2 DEF Held
<1> QED  BY <1>1, <1>3, <1>4 DEF Depth!Rotate

LEMMA DepthEmplace ==
    ASSUME Inv, EmplaceBack, NEW t \in Token
    PROVE  UNCHANGED Depth(t)!vars
<1> DEFINE e == [made |-> param, holds |-> {}]
<1>1. /\ rot = "appending" /\ rot' = "enter" /\ filters' = Append(filters, e) /\ torn' = torn
      /\ filters \in Seq(Filter) /\ param \in Params
    BY DEF EmplaceBack, Inv, TypeOK
<1>2. e \in Filter /\ e.holds = {}
    BY <1>1 DEF Filter
<1> HIDE DEF e
<1>3. /\ Len(filters') = Len(filters) + 1 /\ Len(filters) \in Nat
      /\ DOMAIN filters' = 1..(Len(filters) + 1) /\ DOMAIN filters = 1..Len(filters)
      /\ \A i \in DOMAIN filters : filters'[i] = filters[i]
      /\ filters'[Len(filters) + 1] = e
    BY <1>1, <1>2, SeqAppend, SeqDomain
<1>4. Size' = Size
    BY <1>1, <1>3 DEF Size
<1>5. Held(t)' = Held(t)
    BY <1>2, <1>3 DEF Held
<1> QED  BY <1>1, <1>4, <1>5 DEF Depth!vars

\* A write deepens a token by one filter, or leaves it, or is torn.
LEMMA DepthWrite ==
    ASSUME Inv, NEW w \in Walker, NEW in, NEW lost, Write(w, in, lost),
           lost \subseteq torn', torn \subseteq torn',
           torn' \subseteq torn \cup lost \cup {walk[w].token},
           in \subseteq torn' \/ walk[w].clean,
           rot' = rot, NEW t \in Token
    PROVE  [Depth(t)!Next]_(Depth(t)!vars)
<1>1. /\ filters \in Seq(Filter) /\ DOMAIN filters = 1..Len(filters) /\ Len(filters) \in Nat
    BY SeqDomain DEF Inv, TypeOK
<1>2. /\ Len(filters') = Len(filters) /\ DOMAIN filters' = DOMAIN filters
      /\ \A j \in DOMAIN filters :
            /\ j = walk[w].next => filters'[j].holds = (filters[j].holds \cup in) \ lost
            /\ j # walk[w].next => filters'[j].holds = filters[j].holds
    BY WriteEffect
<1>3. Size' = Size /\ Held(t)' \subseteq 1..Len(filters) /\ Size \in Nat /\ Len(filters) <= Size
    BY <1>1, <1>2 DEF Size, Held
<1>4. CASE t \in torn'
    <2>1. Held(t)' \subseteq 1..Size
        BY <1>1, <1>3
    <2> QED  BY <1>3, <1>4, <2>1 DEF Depth!Next, Depth!Tear
<1>5. CASE t \notin torn'
    <2>1. t \notin torn /\ t \notin lost
        BY <1>5
    <2>2. PICK i \in DOMAIN filters : i = walk[w].next
        BY DEF Write
    <2>3. CASE t \notin in \/ i \in Held(t)
        <3>1. Held(t)' = Held(t)
            BY <1>2, <2>1, <2>2, <2>3 DEF Held
        <3> QED  BY <1>3, <1>5, <2>1, <3>1 DEF Depth!vars
    <2>4. CASE t \in in /\ i \notin Held(t)
        <3>1. PICK k \in 0..Len(filters) : Held(t) = 1..k
            BY <2>1, HeldPrefix
        <3>2. \A j \in DOMAIN filters : j < i => j \in Held(t)
            <4>1. t = walk[w].token /\ walk[w].clean /\ Walking(w) /\ Firm(w)
                BY <1>5, <2>4 DEF Write, Inserting, Firm
            <4> QED  BY <2>2, <4>1 DEF Inv, WalksClean, Held
        <3>3. i = k + 1
            <4>1. ~(i \in 1..k)
                BY <2>4, <3>1
            <4>2. ASSUME k + 1 < i PROVE FALSE
                <5>1. k + 1 \in DOMAIN filters
                    BY <1>1, <4>2
                <5>2. k + 1 \in 1..k
                    BY <3>1, <3>2, <4>2, <5>1
                <5> QED  BY <5>2
            <4> QED  BY <1>1, <4>1, <4>2
        <3>4. Held(t)' = Held(t) \cup {i}
            BY <1>2, <2>1, <2>2, <2>4 DEF Held
        <3>5. Held(t)' = 1..(k + 1)
            BY <3>1, <3>3, <3>4
        <3>6. k \in 0..(Size - 1)
            BY <1>1, <1>3, <3>3
        <3> QED  BY <1>3, <1>5, <2>1, <3>1, <3>5, <3>6 DEF Depth!Next, Depth!Deepen
    <2> QED  BY <2>3, <2>4
<1> QED  BY <1>4, <1>5

LEMMA DepthAccess ==
    ASSUME Inv, NEW w \in Walker, Access(w), NEW t \in Token
    PROVE  [Depth(t)!Next]_(Depth(t)!vars)
<1>1. /\ rot' = rot /\ Walking(w)
      /\ torn' = IF walk[w].kind = "insert" /\ ~walk[w].clean
                 THEN torn \cup {walk[w].token} ELSE torn
    BY AccessEffect
<1>2. CASE filters' = filters
    <2>1. CASE t \in torn'
        <3>1. filters \in Seq(Filter) /\ DOMAIN filters = 1..Len(filters)
              /\ Len(filters) \in Nat
            BY SeqDomain DEF Inv, TypeOK
        <3>2. Size' = Size /\ Held(t)' \subseteq 1..Size
            BY <1>1, <1>2, <3>1 DEF Size, Held
        <3> QED  BY <2>1, <3>2 DEF Depth!Next, Depth!Tear
    <2>2. CASE t \notin torn'
        <3>1. t \notin torn
            BY <1>1, <2>2
        <3> QED  BY <1>1, <1>2, <2>2, <3>1 DEF Depth!vars, Size, Held
    <2> QED  BY <2>1, <2>2
<1>3. ASSUME NEW lost, Write(w, {walk[w].token}, lost)
      PROVE  [Depth(t)!Next]_(Depth(t)!vars)
    <2>1. Inserting(w) /\ (~walk[w].clean => walk[w].token \in torn')
        BY <1>1, <1>3 DEF Write, Inserting
    <2>2. lost \subseteq torn'
        BY <1>1, <1>3, <2>1, WriteEffect
    <2> QED  BY <1>1, <1>3, <2>1, <2>2, DepthWrite
<1> QED  BY <1>2, <1>3, AccessEffect

LEMMA DepthOverwrite ==
    ASSUME Inv, NEW w \in Walker, Overwrite(w), NEW t \in Token
    PROVE  [Depth(t)!Next]_(Depth(t)!vars)
<1>1. rot' = rot
    BY OverwriteEffect
<1>2. PICK lost : Write(w, {}, lost) /\ torn' = torn \cup lost
    BY OverwriteEffect
<1> QED  BY <1>1, <1>2, DepthWrite

LEMMA DepthStep ==
    ASSUME Inv, [Next]_vars, NEW t \in Token
    PROVE  [Depth(t)!Next]_(Depth(t)!vars)
<1>1. CASE Swap
    BY <1>1, DepthSwap DEF Depth!Next
<1>2. CASE Erase
    BY <1>2, DepthErase DEF Depth!Next
<1>3. CASE EmplaceBack
    BY <1>3, DepthEmplace
<1>4. CASE \E w \in Walker : Overwrite(w) \/ Access(w)
    BY <1>4, DepthAccess, DepthOverwrite
<1>5. ASSUME UNCHANGED <<filters, torn>>, rot = "appending" <=> rot' = "appending"
      PROVE  [Depth(t)!Next]_(Depth(t)!vars)
    BY <1>5, DepthStutters
<1>6. CASE (\E p \in Params : SetParam(p)) \/ SetFiltersNum \/ LockFilters \/ Notify \/ Tick
    BY <1>6, <1>5 DEF SetParam, SetFiltersNum, LockFilters, Notify, Tick
<1>7. CASE EnterWait \/ TimeOut \/ SpuriousWakeup \/ Returns
    BY <1>7, <1>5 DEF EnterWait, TimeOut, SpuriousWakeup, Returns
<1>8. CASE \E u \in Token, rem \in Lifetimes :
              \/ \E w \in {"message", "server"} : BeginDepth(w, "insert", u, rem)
              \/ BeginDepth("server", "query", u, rem)
    BY <1>8, <1>5 DEF BeginDepth, Begin
<1>9. CASE BeginReport
    BY <1>9, <1>5 DEF BeginReport, Begin
<1>10. CASE UNCHANGED vars
    BY <1>10, <1>5 DEF vars
<1> QED  BY <1>1, <1>2, <1>3, <1>4, <1>6, <1>7, <1>8, <1>9, <1>10 DEF Next

LEMMA DepthInit ==
    ASSUME Init, NEW t \in Token
    PROVE  Depth(t)!Init
<1>1. Inv /\ torn = {} /\ rot = "enter"
    BY InvInit DEF Init
<1>2. Size = Len(filters) /\ Len(filters) \in Nat
    BY <1>1, SeqDomain DEF Size, Inv, TypeOK
<1>3. \E k \in 0..Len(filters) : Held(t) = 1..k
    BY <1>1, HeldPrefix
<1> QED  BY <1>1, <1>2, <1>3 DEF Depth!Init

\* For every token the threads together implement RevokedDepth: whatever they
\* interleave, the filters that hold it stay the oldest ones, deepen one by one
\* and lose one at a rotation, until an insert of it is torn, by a change of the
\* vector or by another insert (Engine.hpp:99-169, 311-333, BaseBloomFilter.hpp:26-30).
THEOREM ThreadsImplementDepth ==
    Spec => ImplementsDepth
<1>1. Init => \A t \in Token : Depth(t)!Init
    BY DepthInit
<1>2. ASSUME Inv, [Next]_vars
      PROVE  [\A t \in Token : [Depth(t)!Next]_(Depth(t)!vars)]_vars
    BY <1>2, DepthStep
<1> QED  BY <1>1, <1>2, InvAlways, PTL DEF Spec, ImplementsDepth

=============================================================================
