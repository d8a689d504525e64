-------------------------- MODULE EngineRebuildProofs --------------------------
(***************************************************************************)
(* What holds of the engine's filters because of how a rebuild makes them: *)
(* they are nested, and what reached the log is in them.                   *)
(***************************************************************************)
EXTENDS EngineProofs

-----------------------------------------------------------------------------
(* That the filters are nested.  For the bits this follows from BitsExact    *)
(* once all filters have one size and one number of hashes, which they do,   *)
(* save while an adjustment runs, although a rebuild reads the size as an    *)
(* unsigned int and a rotation does not; the counts of adds are carried      *)
(* along by themselves.                                                      *)

Alike(p) ==
    \A i \in DOMAIN filters : /\ filters[i].size = ToUInt(p.bloomFilterSize)
                              /\ filters[i].hashNum = p.hashFunctionNum

Counted ==
    \A i, j \in DOMAIN filters : i <= j => filters[j].msgNum <= filters[i].msgNum

NInv ==
    /\ Steady => Alike(param)
    /\ Counted

-----------------------------------------------------------------------------
LEMMA NInvInit ==
    Init => NInv
BY DEF Init, NInv, Alike, Counted

LEMMA NInvKept ==
    ASSUME NInv, UNCHANGED <<up, param, filters, adj>>
    PROVE  NInv'
BY DEF NInv, Alike, Counted, Steady

LEMMA NInvDie ==
    ASSUME NInv, Die
    PROVE  NInv'
BY DEF NInv, Alike, Counted, Die

\* A vector that a recovery built.
LEMMA NInvBuilt ==
    ASSUME NEW site, NEW lines, NEW time, BuiltFrom(filters', param', site, lines, time)
    PROVE  NInv'
BY DEF BuiltFrom, NInv, Alike, Counted

\* The parameters change before the vector does.
LEMMA NInvAdjust ==
    ASSUME TInv, NInv, (\E p \in Params : AdjustScan(p)) \/ AdjustSweep \/ AdjustLoad
    PROVE  NInv'
<1>1. CASE Die
    BY <1>1, NInvDie
<1>2. CASE filters' = filters /\ ~Steady'
    <2>1. Counted'
        BY <1>2 DEF NInv, Counted
    <2> QED  BY <1>2, <2>1 DEF NInv
<1>3. CASE /\ \E s \in Scans :
                adj' = [NoAdjust EXCEPT !.at = "scanned", !.found = s.found,
                                        !.due = s.due, !.before = Cardinality(issued)]
           /\ filters' = filters
    BY <1>2, <1>3 DEF NoAdjust, Steady
<1>4. CASE AdjustSweep
    BY <1>2, <1>4 DEF AdjustSweep, Steady, TInv, TypeOK, Adjust
<1>5. CASE AdjustLoad
    BY <1>2, <1>5, LoadBuilds DEF Steady
<1> QED  BY <1>1, <1>3, <1>4, <1>5 DEF AdjustScan

LEMMA NInvRevoke ==
    ASSUME TInv, NInv, NEW site \in Site, NEW token, NEW exp \in Nat, RevokeJwt(site, token, exp)
    PROVE  NInv'
<1>1. up /\ UNCHANGED <<up, param, adj>>
    BY DEF RevokeJwt
<1>2. CASE ~InWindow(param, exp - now)
    BY <1>1, <1>2, NInvKept DEF RevokeJwt
<1>3. CASE InWindow(param, exp - now)
    <2> DEFINE n == NumFilters(param, exp - now)
    <2>1. filters' = AddToFirst(filters, n, site, token)
        BY <1>3 DEF RevokeJwt
    <2>2. n \in Nat
        BY <1>1, <1>3, DepthType DEF TInv, TypeOK, Shape, CanRebuild
    <2> HIDE DEF n
    <2>3. filters \in Seq(Filter) /\ DOMAIN filters' = DOMAIN filters
        BY <2>1 DEF TInv, TypeOK, AddToFirst
    <2>4. ASSUME NEW i \in DOMAIN filters
          PROVE  /\ filters'[i].size = filters[i].size
                 /\ filters'[i].hashNum = filters[i].hashNum
                 /\ filters[i].msgNum \in Nat
                 /\ filters'[i].msgNum = filters[i].msgNum + (IF i <= n THEN 1 ELSE 0)
        <3>0. filters[i] \in Filter
            BY <2>3
        <3>1. filters[i].msgNum \in Nat
            BY <3>0 DEF Filter
        <3>2. filters'[i] = IF i <= n THEN Add(filters[i], site, token) ELSE filters[i]
            BY <2>1 DEF AddToFirst
        <3> QED  BY <3>0, <3>1, <3>2, AddType
    <2>5. Counted'
        <3> SUFFICES ASSUME NEW i \in DOMAIN filters, NEW j \in DOMAIN filters, i <= j
                     PROVE  filters'[j].msgNum <= filters'[i].msgNum
            BY <2>3 DEF Counted
        <3>1. i \in Nat /\ j \in Nat
            BY <2>3
        <3>2. filters[j].msgNum <= filters[i].msgNum
            BY DEF NInv, Counted
        <3> QED  BY <2>2, <2>4, <3>1, <3>2
    <2>6. Steady' => Alike(param)'
        BY <1>1, <2>3, <2>4 DEF NInv, Alike, Steady
    <2> QED  BY <2>5, <2>6 DEF NInv
<1> QED  BY <1>2, <1>3

\* A rotation that does not throw appends a filter of the size the others have.
LEMMA NInvRotate ==
    ASSUME TInv, NInv, Rotate
    PROVE  NInv'
<1>1. CASE Die
    BY <1>1, NInvDie
<1>2. CASE /\ ValidFilter(param.bloomFilterSize, param.hashFunctionNum)
           /\ filters' = Rotated(filters, param)
           /\ up' = up /\ param' = param /\ adj' = adj
    <2>1. up /\ param \in Params /\ CanRebuild(param) /\ param \in Param
        BY DEF Rotate, TInv, TypeOK, Shape
    <2>2. filters \in Seq(Filter) /\ (Steady => Len(filters) = FiltersNum(param))
        BY <2>1 DEF TInv, TypeOK, Shape
    <2>3. DOMAIN filters = 1..Len(filters) /\ DOMAIN filters' = DOMAIN filters /\ Len(filters) \in Nat
        BY <1>2, <2>2 DEF Rotated
    <2>4. Steady /\ Len(filters) > 0 => ToUInt(param.bloomFilterSize) = param.bloomFilterSize
        BY <1>2, <2>1, <2>2, UIntAssumption DEF CanRebuild, ValidFilter
    <2>5. ASSUME NEW i \in DOMAIN filters
          PROVE  filters'[i] = IF i < Len(filters) THEN filters[i + 1]
                               ELSE NewFilter(param.bloomFilterSize, param.hashFunctionNum)
        BY <1>2 DEF Rotated
    <2>6. ASSUME Steady, NEW i \in DOMAIN filters
          PROVE  /\ filters'[i].size = ToUInt(param.bloomFilterSize)
                 /\ filters'[i].hashNum = param.hashFunctionNum
        <3>1. CASE i < Len(filters)
            <4>1. i + 1 \in DOMAIN filters /\ filters'[i] = filters[i + 1]
                BY <2>3, <2>5, <3>1
            <4> QED  BY <2>6, <4>1 DEF NInv, Alike
        <3>2. CASE ~(i < Len(filters))
            BY <2>3, <2>4, <2>5, <2>6, <3>2 DEF NewFilter
        <3> QED  BY <3>1, <3>2
    <2>7. ASSUME NEW i \in DOMAIN filters, NEW j \in DOMAIN filters, i <= j
          PROVE  filters'[j].msgNum <= filters'[i].msgNum
        <3>1. CASE j < Len(filters)
            <4>1. i + 1 \in DOMAIN filters /\ j + 1 \in DOMAIN filters /\ i + 1 <= j + 1
                BY <2>3, <2>7, <3>1
            <4>2. filters'[i] = filters[i + 1] /\ filters'[j] = filters[j + 1]
                BY <2>3, <2>5, <2>7, <3>1
            <4>3. filters[j + 1].msgNum <= filters[i + 1].msgNum
                BY <4>1 DEF NInv, Counted
            <4> QED  BY <4>2, <4>3
        <3>2. CASE ~(j < Len(filters))
            <4>1. filters'[j].msgNum = 0
                BY <2>5, <3>2 DEF NewFilter
            <4>2. filters'[i].msgNum \in Nat
                <5>1. CASE i < Len(filters)
                    <6>1. i + 1 \in 1..Len(filters) /\ filters'[i] = filters[i + 1]
                        BY <2>3, <2>5, <5>1
                    <6>2. filters[i + 1] \in Filter
                        BY <2>2, <6>1
                    <6> QED  BY <6>1, <6>2 DEF Filter
                <5>2. CASE ~(i < Len(filters))
                    BY <2>5, <5>2 DEF NewFilter
                <5> QED  BY <5>1, <5>2
            <4> QED  BY <4>1, <4>2
        <3> QED  BY <3>1, <3>2
    <2>8. Steady' => Alike(param)'
        BY <1>2, <2>3, <2>6 DEF Alike, Steady
    <2> QED  BY <2>3, <2>7, <2>8 DEF NInv, Counted
<1> QED  BY <1>1, <1>2 DEF Rotate

LEMMA NInvNext ==
    ASSUME TInv, NInv, [Next]_vars
    PROVE  NInv'
<1>1. CASE Tick \/ LogRevoke \/ LogWrite \/ SpuriousWakeup \/ UNCHANGED vars
    <2>1. UNCHANGED <<up, param, filters, adj>>
        BY <1>1 DEF Tick, LogRevoke, LogWrite, SpuriousWakeup, vars
    <2> QED  BY <2>1, NInvKept
<1>2. CASE Die
    BY <1>2, NInvDie
<1>3. ASSUME NEW p \in Params, Start(p) PROVE NInv'
    BY <1>3, StartBuilds, NInvBuilt
<1>4. CASE (\E p \in Params : AdjustScan(p)) \/ AdjustSweep \/ AdjustLoad
    BY <1>4, NInvAdjust
<1>5. ASSUME NEW t \in Token, NEW x \in Exps, MasterRevoke(t, x) \/ ProxyRevoke(t, x) PROVE NInv'
    <2>1. x \in Nat
        BY ConstAssumption
    <2> QED  BY <1>5, <2>1, NInvRevoke DEF MasterRevoke, ProxyRevoke, Site
<1>6. CASE Rotate
    BY <1>6, NInvRotate
<1>7. CASE AdjustSwap
    BY <1>7, SwapBuilds, NInvBuilt
<1> QED  BY <1>1, <1>2, <1>3, <1>4, <1>5, <1>6, <1>7 DEF Next

LEMMA NInvAlways ==
    Spec => [](TInv /\ BInv /\ NInv)
<1>1. TInv /\ NInv /\ [Next]_vars => NInv'
    BY NInvNext
<1> QED  BY TInvAlways, BInvAlways, NInvInit, <1>1, PTL DEF Spec

\* An older filter holds every bit of a younger one and counts at least as many
\* adds, save while an adjustment runs, through all inserts, rotations, truncated sizes and rebuilds: the
\* query, which starts at the oldest, may stop at the first absent bit
\* (Engine.hpp:163-166), and the fill rates reported never increase (185).
THEOREM FiltersAreNested ==
    Spec => []Nested
<1>1. ASSUME TInv, BInv, NInv PROVE Nested
    <2> SUFFICES ASSUME Steady, NEW i \in 1..(Len(filters) - 1)
                 PROVE  /\ filters[i + 1].bits \subseteq filters[i].bits
                        /\ filters[i + 1].msgNum <= filters[i].msgNum
        BY DEF Nested
    <2>1. filters \in Seq(Filter) /\ issued \subseteq Entry
        BY <1>1 DEF TInv, TypeOK
    <2>2. i \in Nat /\ i \in DOMAIN filters /\ i + 1 \in DOMAIN filters
        BY <2>1
    <2>3. filters[i].size = filters[i + 1].size /\ filters[i].hashNum = filters[i + 1].hashNum
        BY <1>1, <2>2 DEF NInv, Alike
    <2>4. ASSUME NEW e PROVE CalcHashIndices(filters[i + 1], e.site, e.token)
                                = CalcHashIndices(filters[i], e.site, e.token)
        BY <2>3 DEF CalcHashIndices, HashSHA256
    <2>5. {d \in issued : d.left >= i + 1} \subseteq {d \in issued : d.left >= i}
        BY <2>1, <2>2 DEF Entry
    <2>6. filters[i + 1].bits \subseteq filters[i].bits
        <3>1. /\ filters[i].bits = UNION {CalcHashIndices(filters[i], e.site, e.token) :
                                            e \in {d \in issued : d.left >= i}}
              /\ filters[i + 1].bits = UNION {CalcHashIndices(filters[i + 1], e.site, e.token) :
                                            e \in {d \in issued : d.left >= i + 1}}
            BY <1>1, <2>2 DEF BInv, BitsExact
        <3> QED  BY <2>4, <2>5, <3>1
    <2>7. filters[i + 1].msgNum <= filters[i].msgNum
        BY <1>1, <2>2 DEF NInv, Counted
    <2> QED  BY <2>6, <2>7
<1> QED  BY <1>1, NInvAlways, PTL

\* The answer to a query of depth n says, of whatever token, that some revocation
\* still reaches n filters; and nothing else makes a query answered "revoked"
\* (Engine.hpp:147-169, BaseBloomFilter.hpp:66).
THEOREM AnswersTellTheDepth ==
    Spec => []AnsweredByDepth
<1>1. ASSUME TInv, BInv, NInv PROVE AnsweredByDepth
    <2> SUFFICES ASSUME Steady, NEW t \in Token, NEW x \in Exps, InWindow(param, x - now),
                        NumFilters(param, x - now) > 0
                 PROVE  /\ IsRevoked(t, x) => \E e \in issued : e.left >= NumFilters(param, x - now)
                        /\ (\E e \in issued : /\ e.left >= NumFilters(param, x - now)
                                              /\ BufAddr[e.site] = BufAddr["query"])
                                => IsRevoked(t, x)
        BY DEF AnsweredByDepth
    <2> DEFINE n == NumFilters(param, x - now)
    <2>1. now \in Nat /\ x \in Nat /\ param \in Param /\ filters \in Seq(Filter)
        BY <1>1, ConstAssumption DEF TInv, TypeOK
    <2>2. param.rotationInterval \in Nat \ {0} /\ FiltersNum(param) = Len(filters)
        BY <1>1, <2>1 DEF TInv, Shape, CanRebuild, Steady, Param
    <2>3. n \in Nat /\ n <= Len(filters)
        BY <2>1, <2>2, DepthType
    <2>4. n \in DOMAIN filters /\ FiltersNum(param) > 0
        BY <2>1, <2>2, <2>3
    <2>5. filters[n].hashNum \in Nat \ {0}
        <3>1. filters[n] \in Filter
            BY <2>1, <2>4
        <3> QED  BY <1>1, <2>4, <3>1 DEF NInv, Alike, TInv, Shape, Steady, CanRebuild, ValidFilter, Filter
    <2> HIDE DEF n
    <2>6. ASSUME IsRevoked(t, x) PROVE \E e \in issued : e.left >= n
        <3>1. CalcHashIndices(filters[n], "query", t) \subseteq filters[n].bits
            BY <2>3, <2>4, <2>6 DEF IsRevoked, Contains, n
        <3>2. HashSHA256("query", t, 0) % filters[n].size \in CalcHashIndices(filters[n], "query", t)
            BY <2>5 DEF CalcHashIndices
        <3>3. PICK e \in {d \in issued : d.left >= n} :
                HashSHA256("query", t, 0) % filters[n].size \in CalcHashIndices(filters[n], e.site, e.token)
            BY <1>1, <2>4, <3>1, <3>2 DEF BInv, BitsExact
        <3> QED  BY <3>3
    <2>7. ASSUME NEW e \in issued, e.left >= n, BufAddr[e.site] = BufAddr["query"]
          PROVE  IsRevoked(t, x)
        <3> SUFFICES ASSUME NEW i \in 1..n PROVE Contains(filters[i], "query", t)
            BY DEF IsRevoked, n
        <3>1. i \in DOMAIN filters /\ i <= e.left
            <4>1. e.left \in Nat
                BY <1>1 DEF TInv, TypeOK, Entry
            <4> QED  BY <2>1, <2>3, <2>7, <4>1
        <3>2. Contains(filters[i], "query", e.token)
            BY <1>1, <2>7, <3>1, ContainsWhatReachesIt DEF Site
        <3>3. CalcHashIndices(filters[i], "query", t) = CalcHashIndices(filters[i], "query", e.token)
            BY DEF CalcHashIndices, HashSHA256
        <3> QED  BY <3>2, <3>3 DEF Contains
    <2> QED  BY <2>6, <2>7 DEF n
<1> QED  BY <1>1, NInvAlways, PTL

-----------------------------------------------------------------------------
(* What a recovery brings back.  DInv says of the history what the log must  *)
(* show: a line last written to a file that is still retained is in that     *)
(* file, since files only grow until their hour is past retention or an      *)
(* adjustment that has not seen them deletes them, and no file is of an hour *)
(* to come; and a line that an adjustment owes is in a file it found until   *)
(* it reads, and then among what it took.                                    *)

LineOf(e) == [token |-> e.token, exp |-> e.exp]

HasLine(h, e) == h \in DOMAIN logFiles /\ \E j \in DOMAIN logFiles[h] : logFiles[h][j] = LineOf(e)

OnDisk(e) ==
    e.flushed # -1 =>
        /\ e.flushed <= HourOf(now)
        /\ e.flushed > HourOf(now) - LogHours => HasLine(e.flushed, e)

Owed(d) ==
    /\ adj.at \in {"scanned", "swept"} => d.hour \in adj.found /\ HasLine(d.hour, d)
    /\ adj.at = "loaded" =>
            (d.hour \notin unread /\ InWindow(param, d.exp - adj.time) => LineOf(d) \in adj.lines)

DInv ==
    /\ \A e \in issued : OnDisk(e)
    /\ \A d \in adj.due : Owed(d)

LEMMA DInvInit ==
    Init => DInv
BY DEF Init, DInv, NoAdjust

\* What is owed stays owed while the files found only grow.
LEMMA OwedKept ==
    ASSUME DInv, UNCHANGED <<param, adj, unread>>,
           \A h, d : HasLine(h, d) => HasLine(h, d)'
    PROVE  \A d \in adj'.due : Owed(d)'
BY DEF DInv, Owed, LineOf

LEMMA NoneOwed ==
    ASSUME adj' = NoAdjust
    PROVE  \A d \in adj'.due : Owed(d)'
BY DEF NoAdjust

\* An entry that some entry already stood for, while files and hour stand.
LEMMA DInvKept ==
    ASSUME DInv, UNCHANGED <<now, logFiles>>, \A d \in adj'.due : Owed(d)',
           \A e \in issued' : \/ e.flushed = -1
                              \/ \E d \in issued : /\ d.flushed = e.flushed
                                                   /\ d.token = e.token /\ d.exp = e.exp
    PROVE  DInv'
<1> SUFFICES ASSUME NEW e \in issued', e.flushed # -1 PROVE OnDisk(e)'
    BY DEF DInv, OnDisk
<1>1. PICK d \in issued : d.flushed = e.flushed /\ d.token = e.token /\ d.exp = e.exp
    OBVIOUS
<1>2. OnDisk(d) /\ LineOf(d) = LineOf(e)
    BY <1>1 DEF DInv, LineOf
<1> QED  BY <1>1, <1>2 DEF OnDisk, HasLine, LineOf

LEMMA DInvTick ==
    ASSUME TInv, DInv, Tick
    PROVE  DInv'
<1>1. now \in Nat /\ now' = now + 1 /\ UNCHANGED <<param, adj, logFiles, unread, issued>>
    BY DEF Tick, TInv, TypeOK
<1>2. HourOf(now) \in Nat /\ HourOf(now') \in Nat /\ HourOf(now) <= HourOf(now')
    BY <1>1, HourType, DivMono, ConstAssumption DEF HourOf
<1>0. \A d \in adj'.due : Owed(d)'
    BY <1>1, OwedKept DEF HasLine, LineOf
<1> SUFFICES ASSUME NEW e \in issued, e.flushed # -1 PROVE OnDisk(e)'
    BY <1>0, <1>1 DEF DInv, OnDisk
<1>3. e.flushed \in Int /\ OnDisk(e)
    BY DEF TInv, TypeOK, Entry, DInv
<1>4. HourOf(now)' = HourOf(now')
    BY DEF HourOf
<1> QED  BY <1>1, <1>2, <1>3, <1>4, ConstAssumption DEF OnDisk, HasLine, LineOf

LEMMA RecoveredLine ==
    ASSUME NEW e, NEW p, NEW site, NEW lines, NEW time
    PROVE  LET d == Recovered(e, p, site, lines, time)
           IN  d.flushed = e.flushed /\ d.token = e.token /\ d.exp = e.exp
BY DEF Recovered, Keep, Gone

LEMMA DInvStart ==
    ASSUME TInv, DInv, NEW p \in Params, Start(p)
    PROVE  DInv'
<1>1. /\ adj' = NoAdjust /\ now' = now
      /\ logFiles' = [h \in FoundHours |-> logFiles[h]]
    BY StartBuilds
<1>2. PICK lines : issued' = {Recovered(e, p, "init", lines, now) : e \in issued}
    BY StartBuilds
<1> SUFFICES ASSUME NEW e \in issued' PROVE OnDisk(e)'
    BY <1>1, NoneOwed DEF DInv
<1>3. PICK d \in issued : e.flushed = d.flushed /\ e.token = d.token /\ e.exp = d.exp
    BY <1>2, RecoveredLine
<1>4. d.flushed # -1 /\ d.flushed > HourOf(now) - LogHours => d.flushed \in FoundHours /\ HasLine(d.flushed, d)
    BY DEF DInv, OnDisk, HasLine, FoundHours
<1>5. d.flushed # -1 => d.flushed <= HourOf(now)
    BY DEF DInv, OnDisk
<1>6. HourOf(now)' = HourOf(now)
    BY <1>1 DEF HourOf
<1> SUFFICES ASSUME d.flushed # -1, d.flushed > HourOf(now) - LogHours
             PROVE  d.flushed \in DOMAIN logFiles' /\ \E j \in DOMAIN logFiles'[d.flushed] :
                        logFiles'[d.flushed][j] = LineOf(d)
    BY <1>3, <1>5, <1>6 DEF OnDisk, HasLine, LineOf
<1>7. logFiles'[d.flushed] = logFiles[d.flushed]
    BY <1>1, <1>4
<1> QED  BY <1>1, <1>4, <1>7 DEF HasLine

\* A line that is due when an adjustment looks for files is in one that it finds.
LEMMA DueFound ==
    ASSUME TInv, DInv, NEW d \in LinesDue
    PROVE  d.hour \in FoundHours /\ HasLine(d.hour, d)
<1>1. PICK e \in issued : /\ e.flushed # -1 /\ e.flushed > HourOf(now) - LogHours
                          /\ d = [token |-> e.token, exp |-> e.exp, hour |-> e.flushed]
    BY DEF LinesDue
<1>2. OnDisk(e) /\ LineOf(e) = LineOf(d) /\ d.hour = e.flushed
    BY <1>1 DEF DInv, LineOf
<1> QED  BY <1>1, <1>2 DEF OnDisk, HasLine, FoundHours

LEMMA DInvScan ==
    ASSUME TInv, DInv, NEW p \in Params, AdjustScan(p), ~Die
    PROVE  DInv'
<1>1. /\ \E s \in Scans :
            adj' = [NoAdjust EXCEPT !.at = "scanned", !.found = s.found,
                                    !.due = s.due, !.before = Cardinality(issued)]
      /\ UNCHANGED <<now, logFiles, issued>>
    BY DEF AdjustScan
<1>2. /\ adj'.at = "scanned"
      /\ (adj'.found = FoundHours /\ adj'.due = LinesDue) \/ adj'.due = {}
    BY <1>1 DEF NoAdjust, Scans
<1>3. ASSUME NEW d \in adj'.due PROVE Owed(d)'
    <2>1. d.hour \in adj'.found /\ HasLine(d.hour, d)
        BY <1>2, <1>3, DueFound
    <2>2. HasLine(d.hour, d)'
        BY <1>1, <2>1 DEF HasLine, LineOf
    <2> QED  BY <1>2, <2>1, <2>2 DEF Owed
<1> QED  BY <1>1, <1>3, DInvKept

\* A line deleted is a line no longer in a file; what is owed was found.
LEMMA DInvSweep ==
    ASSUME TInv, DInv, AdjustSweep
    PROVE  DInv'
<1> DEFINE mark(e) == IF e.flushed \in adj.found THEN e ELSE [e EXCEPT !.flushed = -1]
<1>1. /\ adj.at = "scanned" /\ adj' = [adj EXCEPT !.at = "swept"]
      /\ logFiles' = [h \in adj.found |-> logFiles[h]]
      /\ issued' = {mark(e) : e \in issued}
      /\ UNCHANGED <<now, param, unread>>
    BY DEF AdjustSweep
<1>2. adj'.at = "swept" /\ adj'.found = adj.found /\ adj'.due = adj.due
    BY <1>1 DEF TInv, TypeOK, Adjust
<1>3. ASSUME NEW h \in adj.found, NEW d, HasLine(h, d) PROVE HasLine(h, d)'
    BY <1>1, <1>3 DEF HasLine, LineOf
<1>4. ASSUME NEW d \in adj'.due PROVE Owed(d)'
    <2>1. d.hour \in adj.found /\ HasLine(d.hour, d)
        BY <1>1, <1>2 DEF DInv, Owed
    <2> QED  BY <1>2, <1>3, <2>1 DEF Owed
<1>5. ASSUME NEW d \in issued' PROVE OnDisk(d)'
    <2>1. PICK e \in issued : d = mark(e)
        BY <1>1
    <2>2. CASE e.flushed \in adj.found
        <3>1. OnDisk(e) /\ d = e
            BY <2>1, <2>2 DEF DInv
        <3>2. HourOf(now)' = HourOf(now)
            BY <1>1 DEF HourOf
        <3> HIDE DEF mark
        <3> QED  BY <1>3, <2>2, <3>1, <3>2 DEF OnDisk
    <2>3. CASE e.flushed \notin adj.found
        <3>1. d.flushed = -1
            BY <2>1, <2>3 DEF TInv, TypeOK, Entry
        <3> HIDE DEF mark
        <3> QED  BY <3>1 DEF OnDisk
    <2> QED  BY <2>2, <2>3
<1> QED  BY <1>4, <1>5 DEF DInv

\* A line of a file that is read is taken if it is in the window.
LEMMA LineTaken ==
    ASSUME NEW p, NEW hours, NEW h \in hours, NEW d, HasLine(h, d),
           InWindow(p, d.exp - now)
    PROVE  LineOf(d) \in LinesTaken(p, hours)
<1>1. PICK j \in DOMAIN logFiles[h] : logFiles[h][j] = LineOf(d)
    BY DEF HasLine
<1> DEFINE l == <<h, j>>
<1>2. l \in Lines(hours) /\ LineAt(l) = LineOf(d)
    BY <1>1 DEF Lines, LineAt
<1> HIDE DEF l
<1>3. LineOf(d).exp = d.exp
    BY DEF LineOf
<1> QED  BY <1>2, <1>3 DEF LinesTaken

LEMMA DInvLoad ==
    ASSUME TInv, DInv, AdjustLoad
    PROVE  DInv'
<1>1. /\ adj.at = "swept" /\ adj'.at = "loaded" /\ adj'.time = now /\ adj'.due = adj.due
      /\ UNCHANGED <<now, param, logFiles, issued>>
    BY LoadBuilds
<1>2. PICK read \in SUBSET adj.found :
        unread' = adj.found \ read /\ adj'.lines = LinesTaken(param, read)
    BY LoadBuilds
<1>3. ASSUME NEW d \in adj'.due PROVE Owed(d)'
    <2>1. SUFFICES ASSUME d.hour \notin unread', InWindow(param, d.exp - now)
                   PROVE  LineOf(d) \in adj'.lines
        BY <1>1 DEF Owed, LineOf
    <2>2. d.hour \in adj.found /\ HasLine(d.hour, d)
        BY <1>1 DEF DInv, Owed
    <2>3. d.hour \in read
        BY <1>2, <2>1, <2>2
    <2> QED  BY <1>2, <2>1, <2>2, <2>3, LineTaken
<1> QED  BY <1>1, <1>3, DInvKept

LEMMA DInvSwap ==
    ASSUME TInv, DInv, AdjustSwap
    PROVE  DInv'
<1>1. /\ adj' = NoAdjust /\ UNCHANGED <<now, logFiles>>
      /\ issued' = {Recovered(e, param, "adjust", adj.lines, adj.time) : e \in issued}
    BY SwapBuilds
<1>2. \A e \in issued' : \E d \in issued : d.flushed = e.flushed /\ d.token = e.token /\ d.exp = e.exp
    BY <1>1, RecoveredLine
<1> QED  BY <1>1, <1>2, NoneOwed, DInvKept

LEMMA DInvLogWrite ==
    ASSUME TInv, DInv, LogWrite
    PROVE  DInv'
<1> DEFINE r == Head(logQueue)
           h == HourOf(now)
           old == IF h \in DOMAIN logFiles THEN logFiles[h] ELSE <<>>
           mark(e) == IF e.token = r.token /\ e.exp = r.exp THEN [e EXCEPT !.flushed = h] ELSE e
<1>1. logQueue \in Seq(Record) /\ logQueue # <<>> /\ issued \subseteq Entry /\ FilesOK
      /\ UNCHANGED <<now, param, adj, unread>>
    BY DEF LogWrite, TInv, TypeOK
<1>2. r \in Record /\ h \in Nat
    BY <1>1, HourType DEF TInv, TypeOK
<1>3. CASE UNCHANGED <<logFiles, issued>>
    <2>1. \A d \in adj'.due : Owed(d)'
        BY <1>1, <1>3, OwedKept DEF HasLine, LineOf
    <2> QED  BY <1>1, <1>3, <2>1, DInvKept
<1>4. CASE /\ logFiles' = [k \in DOMAIN logFiles \cup {h} |->
                              IF k = h THEN Append(old, r) ELSE logFiles[k]]
           /\ issued' = {mark(e) : e \in issued}
    <2>1. old \in Seq(Record)
        BY <1>1 DEF FilesOK
    <2>2. /\ Append(old, r)[Len(old) + 1] = r
          /\ Len(old) + 1 \in DOMAIN Append(old, r)
          /\ \A j \in DOMAIN old : j \in DOMAIN Append(old, r) /\ Append(old, r)[j] = old[j]
        BY <1>2, <2>1
    <2>3. /\ h \in DOMAIN logFiles' /\ logFiles'[h] = Append(old, r)
          /\ \A k \in DOMAIN logFiles : k \in DOMAIN logFiles'
          /\ \A k \in DOMAIN logFiles \ {h} : logFiles'[k] = logFiles[k]
        BY <1>4
    <2>4. HourOf(now)' = h
        BY <1>1 DEF HourOf
    <2>5. ASSUME NEW k, NEW d, HasLine(k, d) PROVE HasLine(k, d)'
        <3> HIDE DEF mark, r
        <3>1. CASE k = h
            <4>1. old = logFiles[h]
                BY <2>5, <3>1 DEF HasLine
            <4> HIDE DEF h, old
            <4> QED  BY <2>2, <2>3, <2>5, <3>1, <4>1 DEF HasLine, LineOf
        <3>2. CASE k # h
            <4> HIDE DEF h
            <4> QED  BY <2>3, <2>5, <3>2 DEF HasLine, LineOf
        <3> QED  BY <3>1, <3>2
    <2>6. \A d \in adj'.due : Owed(d)'
        BY <1>1, <2>5, OwedKept
    <2> SUFFICES ASSUME NEW d \in issued' PROVE OnDisk(d)'
        BY <2>6 DEF DInv
    <2>7. PICK e \in issued : d = mark(e)
        BY <1>4
    <2> HIDE DEF old
    <2>8. CASE e.token = r.token /\ e.exp = r.exp
        <3>1. d = [e EXCEPT !.flushed = h]
            BY <2>7, <2>8
        <3>2. d.flushed = h /\ LineOf(d) = r
            BY <1>1, <1>2, <2>8, <3>1 DEF LineOf, Entry, Record
        <3> HIDE DEF mark, r, h
        <3>3. HasLine(d.flushed, d)'
            BY <2>2, <2>3, <3>2 DEF HasLine, LineOf
        <3> QED  BY <1>2, <2>4, <3>2, <3>3 DEF OnDisk
    <2>9. CASE ~(e.token = r.token /\ e.exp = r.exp)
        <3>1. d = e
            BY <2>7, <2>9
        <3>2. OnDisk(e)
            BY DEF DInv
        <3> HIDE DEF mark, r
        <3> QED  BY <2>4, <2>5, <3>1, <3>2 DEF OnDisk
    <2> QED  BY <2>8, <2>9
<1> QED  BY <1>3, <1>4 DEF LogWrite

LEMMA DInvDie ==
    ASSUME TInv, DInv, Die
    PROVE  DInv'
<1>1. adj' = NoAdjust /\ UNCHANGED <<now, logFiles>> /\ issued' = {Gone(e) : e \in issued}
    BY DEF Die
<1>2. \A e \in issued' : \E d \in issued : d.flushed = e.flushed /\ d.token = e.token /\ d.exp = e.exp
    BY <1>1 DEF Gone, Keep
<1> QED  BY <1>1, <1>2, NoneOwed, DInvKept

LEMMA DInvRevoke ==
    ASSUME TInv, DInv, NEW site, NEW t, NEW x, RevokeJwt(site, t, x)
    PROVE  DInv'
<1>1. UNCHANGED <<now, param, adj, logFiles, unread>>
    BY DEF RevokeJwt
<1>2. \A e \in issued' : e.flushed = -1 \/ e \in issued
    BY DEF RevokeJwt, Issue
<1>3. \A d \in adj'.due : Owed(d)'
    BY <1>1, OwedKept DEF HasLine, LineOf
<1> QED  BY <1>1, <1>2, <1>3, DInvKept

LEMMA DInvRotate ==
    ASSUME TInv, DInv, Rotate
    PROVE  DInv'
<1>1. CASE Die
    BY <1>1, DInvDie
<1>2. CASE issued' = {Aged(e) : e \in issued} /\ UNCHANGED <<now, param, adj, logFiles, unread>>
    <2>1. \A e \in issued' : \E d \in issued : d.flushed = e.flushed /\ d.token = e.token /\ d.exp = e.exp
        BY <1>2 DEF Aged, Keep
    <2>2. \A d \in adj'.due : Owed(d)'
        BY <1>2, OwedKept DEF HasLine, LineOf
    <2> QED  BY <1>2, <2>1, <2>2, DInvKept
<1> QED  BY <1>1, <1>2 DEF Rotate

LEMMA DInvNext ==
    ASSUME TInv, DInv, [Next]_vars
    PROVE  DInv'
<1>1. CASE LogRevoke \/ SpuriousWakeup \/ UNCHANGED vars
    <2>1. UNCHANGED <<now, param, adj, logFiles, unread, issued>>
        BY <1>1 DEF LogRevoke, SpuriousWakeup, vars
    <2>2. \A d \in adj'.due : Owed(d)'
        BY <2>1, OwedKept DEF HasLine, LineOf
    <2> QED  BY <2>1, <2>2, DInvKept
<1>2. CASE Tick
    BY <1>2, DInvTick
<1>3. CASE Die
    BY <1>3, DInvDie
<1>4. ASSUME NEW p \in Params, Start(p) \/ AdjustScan(p) PROVE DInv'
    BY <1>4, DInvStart, DInvScan, DInvDie
<1>5. ASSUME NEW t \in Token, NEW x \in Exps, MasterRevoke(t, x) \/ ProxyRevoke(t, x) PROVE DInv'
    BY <1>5, DInvRevoke DEF MasterRevoke, ProxyRevoke
<1>6. CASE LogWrite
    BY <1>6, DInvLogWrite
<1>7. CASE Rotate
    BY <1>7, DInvRotate
<1>8. CASE AdjustSweep \/ AdjustLoad \/ AdjustSwap
    BY <1>8, DInvSweep, DInvLoad, DInvSwap
<1> QED  BY <1>1, <1>2, <1>3, <1>4, <1>5, <1>6, <1>7, <1>8 DEF Next

LEMMA DInvAlways ==
    Spec => [](TInv /\ DInv)
<1>1. TInv /\ DInv /\ [Next]_vars => TInv' /\ DInv'
    BY TInvNext, DInvNext
<1> QED  BY TInvInit, DInvInit, <1>1, PTL DEF Spec

\* A line that a recovery took is in the vector it built to its full depth, and
\* it has taken every line it read whose lifetime left is within the maximum.
LEMMA BuiltRestores ==
    ASSUME NEW p \in Param, CanRebuild(p), NEW site \in {"init", "adjust"}, NEW lines,
           NEW time \in Nat, now \in Nat, time <= now,
           param' = p, BuiltFrom(filters', p, site, lines, time),
           NEW d, d.exp \in Nat, d.exp > now, d.exp - time <= param'.maxJwtLifeTime,
           InWindow(p, d.exp - time) => LineOf(d) \in lines
    PROVE  RestoredTo(d.token, d.exp)
<1> DEFINE rem == d.exp - now
           old == d.exp - time
<1>1. /\ rem \in Nat /\ old \in Nat /\ rem <= old /\ old > 0 /\ old <= p.maxJwtLifeTime
      /\ p.rotationInterval \in Nat \ {0} /\ p.maxJwtLifeTime \in Nat
    BY DEF CanRebuild, Param
<1>2. /\ NumFilters(p, old) \in Nat /\ FiltersNum(p) \in Nat
      /\ NumFilters(p, old) <= FiltersNum(p)
      /\ rem \div p.rotationInterval \in Nat
      /\ rem \div p.rotationInterval <= NumFilters(p, old)
    BY <1>1, DivMono, DivType DEF NumFilters, FiltersNum
<1>3. LineOf(d) \in lines
    BY <1>1, <1>2 DEF InWindow
<1>4. LineOf(d).exp = d.exp /\ LineOf(d).token = d.token
    BY DEF LineOf
<1>5. DOMAIN filters' = 1..FiltersNum(p)
    BY DEF BuiltFrom
<1>6. ASSUME NEW i \in 1..(rem \div p.rotationInterval)
      PROVE  Contains(filters'[i], site, d.token)
    <2>1. i \in DOMAIN filters' /\ NumFilters(p, LineOf(d).exp - time) >= i
        BY <1>2, <1>4, <1>5
    <2>2. Contains(filters'[i], site, LineOf(d).token)
        BY <1>3, <2>1, BuiltHolds
    <2> QED  BY <1>4, <2>2
<1> QED  BY <1>6 DEF RestoredTo

LEMMA StartRestores ==
    ASSUME TInv, DInv, NEW p \in Params, Start(p)
    PROVE  RestoredFrom(LinesDue, now)
<1>1. p \in Param /\ now \in Nat /\ CanRebuild(p) /\ param' = p
    BY StartBuilds
<1>2. PICK read \in SUBSET FoundHours :
        /\ unread' = FoundHours \ read
        /\ BuiltFrom(filters', p, "init", LinesTaken(p, read), now)
    BY StartBuilds
<1> SUFFICES ASSUME NEW d \in LinesDue, d.exp > now, d.exp - now <= param'.maxJwtLifeTime,
                    d.hour \notin unread'
             PROVE  RestoredTo(d.token, d.exp)
    BY DEF RestoredFrom
<1>3. d.exp \in Nat
    BY DEF LinesDue, TInv, TypeOK, Entry
<1>4. d.hour \in read /\ HasLine(d.hour, d)
    BY <1>2, DueFound
<1>5. InWindow(p, d.exp - now) => LineOf(d) \in LinesTaken(p, read)
    BY <1>4, LineTaken
<1>6. now <= now
    BY <1>1
<1> QED  BY <1>1, <1>2, <1>3, <1>5, <1>6, BuiltRestores

LEMMA SwapRestores ==
    ASSUME TInv, DInv, AdjustSwap
    PROVE  RestoredFrom(adj.due, adj.time)
<1>1. /\ param \in Param /\ CanRebuild(param) /\ param' = param
      /\ adj.at = "loaded" /\ adj.time \in Nat /\ adj.time <= now /\ now \in Nat
      /\ BuiltFrom(filters', param, "adjust", adj.lines, adj.time)
      /\ unread' = unread
    BY SwapBuilds
<1> SUFFICES ASSUME NEW d \in adj.due, d.exp > now, d.exp - adj.time <= param'.maxJwtLifeTime,
                    d.hour \notin unread'
             PROVE  RestoredTo(d.token, d.exp)
    BY DEF RestoredFrom
<1>2. d.exp \in Nat
    BY DEF TInv, TypeOK, Adjust
<1>3. InWindow(param, d.exp - adj.time) => LineOf(d) \in adj.lines
    BY <1>1 DEF DInv, Owed
<1> QED  BY <1>1, <1>2, <1>3, BuiltRestores

\* A rebuild, of init or of an adjustment with logWorker, the server and the
\* rotation thread at work beside it, restores to its full depth every live
\* revocation whose line is in a file young enough when the rebuild looks for
\* files and opens.  The file logWorker creates after that look, and the
\* adjustment deletes, is one it did not find (Engine.hpp:242-258).
THEOREM RebuildRestoresTheLog ==
    Spec => RebuildKeepsLogged
<1>1. ASSUME TInv, DInv PROVE LoggedRestored
    BY <1>1, StartRestores, SwapRestores DEF LoggedRestored
<1>2. TInv /\ DInv /\ [Next]_vars => [LoggedRestored]_vars
    BY <1>1
<1> QED  BY <1>2, DInvAlways, PTL DEF Spec, RebuildKeepsLogged

=============================================================================
