----------------------------- MODULE EngineProofs -----------------------------
(***************************************************************************)
(* Theorems about Engine for every value of its constants.  Three layers,  *)
(* each inductive given the ones before it:                                *)
(*   TInv   types, the length of the vector, an adjustment under way;      *)
(*   BInv   where the bits of the filters come from;                       *)
(*   CInv   how the depth of a revocation relates to the clock.            *)
(***************************************************************************)
EXTENDS Engine, FiniteSetTheorems, TLAPS

-----------------------------------------------------------------------------
(* Arithmetic *)

LEMMA DivType ==
    ASSUME NEW a \in Nat, NEW d \in Nat \ {0}
    PROVE  a \div d \in Nat
BY SMT

LEMMA DivBounds ==
    ASSUME NEW a \in Nat, NEW d \in Nat \ {0}
    PROVE  (a \div d) * d <= a /\ a < (a \div d + 1) * d
BY DivType, SMTT(30)

LEMMA DivMono ==
    ASSUME NEW a \in Nat, NEW b \in Nat, NEW d \in Nat \ {0}, a <= b
    PROVE  a \div d <= b \div d
BY SMTT(30)

LEMMA DivLess ==
    ASSUME NEW a \in Nat, NEW d \in Nat \ {0}, NEW n \in Nat, a < (n + 1) * d
    PROVE  a \div d <= n
BY SMTT(30)

LEMMA ModType ==
    ASSUME NEW a \in Nat, NEW d \in Nat \ {0}
    PROVE  a % d \in Nat
BY SMT

\* The rest of a division may be taken off first.
LEMMA DivLessRest ==
    ASSUME NEW a \in Nat, NEW d \in Nat \ {0}, NEW n \in Nat, a - (a % d) < (n + 1) * d
    PROVE  a \div d <= n
<1>1. a = (a \div d) * d + (a % d) /\ a \div d \in Nat /\ a % d \in Nat
    BY DivType, ModType, SMTT(30)
<1>2. (a \div d) * d < (n + 1) * d
    <2>1. (a \div d) * d \in Nat /\ (n + 1) * d \in Nat
        BY <1>1, SMTT(30)
    <2> QED  BY <1>1, <2>1
<1> QED  BY <1>1, <1>2, SMTT(30)

LEMMA DivStrict ==
    ASSUME NEW a \in Nat, NEW d \in Nat \ {0}
    PROVE  a < (a \div d + 1) * d
BY DivBounds

\* One interval later, one filter fewer.
LEMMA Later ==
    ASSUME NEW x \in Int, NEW n \in Nat, NEW d \in Nat, x < (n + 1) * d
    PROVE  x - d < n * d
BY SMTT(30)

LEMMA OneMore ==
    ASSUME NEW n \in Nat, NEW d \in Nat
    PROVE  (n + 2) * d = (n + 1) * d + d /\ n * d \in Nat /\ (n + 1) * d \in Nat
BY SMTT(30)

\* What is near the next rotation is near now, an interval further.
LEMMA NearNow ==
    ASSUME NEW x \in Int, NEW t \in Int, NEW r \in Int, NEW d \in Nat, NEW bound \in Int,
           r <= t + d, x - t < bound \/ x - r < bound
    PROVE  x - t < bound + d
BY SMT

-----------------------------------------------------------------------------
(* Filters *)

\* The indices a filter raises or tests are natural numbers.
LEMMA IndicesType ==
    ASSUME NEW f, f.size \in Nat \ {0}, NEW site \in Site, NEW key
    PROVE  CalcHashIndices(f, site, key) \subseteq Nat
BY BufAddrAssumption, ModType DEF CalcHashIndices, HashSHA256

LEMMA AddType ==
    ASSUME NEW f \in Filter, NEW site \in Site, NEW key
    PROVE  /\ Add(f, site, key) \in Filter
           /\ Add(f, site, key).size = f.size
           /\ Add(f, site, key).hashNum = f.hashNum
           /\ Add(f, site, key).bits = f.bits \cup CalcHashIndices(f, site, key)
           /\ Add(f, site, key).msgNum = f.msgNum + 1
<1>1. CalcHashIndices(f, site, key) \subseteq Nat
    BY IndicesType DEF Filter
<1> QED  BY <1>1 DEF Add, Filled, Filter

LEMMA NewFilterType ==
    ASSUME NEW size \in Nat, NEW hashNum \in Nat, ValidFilter(size, hashNum)
    PROVE  NewFilter(size, hashNum) \in Filter
BY DEF NewFilter, Filter, ValidFilter

\* The window hands out depths within the vector.
LEMMA DepthType ==
    ASSUME NEW p \in Param, p.rotationInterval # 0, NEW rem \in Int, InWindow(p, rem)
    PROVE  NumFilters(p, rem) \in Nat /\ NumFilters(p, rem) <= FiltersNum(p)
BY DivType DEF Param, InWindow, NumFilters, FiltersNum

LEMMA FiltersNumType ==
    ASSUME NEW p \in Param, p.rotationInterval # 0
    PROVE  FiltersNum(p) \in Nat
BY DivType DEF Param, FiltersNum

LEMMA AddToFirstType ==
    ASSUME NEW fs \in Seq(Filter), NEW n \in Nat, NEW site \in Site, NEW token
    PROVE  /\ AddToFirst(fs, n, site, token) \in Seq(Filter)
           /\ Len(AddToFirst(fs, n, site, token)) = Len(fs)
           /\ DOMAIN AddToFirst(fs, n, site, token) = DOMAIN fs
<1>1. \A i \in 1..Len(fs) : Add(fs[i], site, token) \in Filter
    BY AddType
<1> QED  BY <1>1 DEF AddToFirst

LEMMA RotatedType ==
    ASSUME NEW fs \in Seq(Filter), NEW p \in Param,
           ValidFilter(p.bloomFilterSize, p.hashFunctionNum)
    PROVE  Rotated(fs, p) \in Seq(Filter) /\ Len(Rotated(fs, p)) = Len(fs)
<1>1. NewFilter(p.bloomFilterSize, p.hashFunctionNum) \in Filter
    BY NewFilterType DEF Param
<1> QED  BY <1>1 DEF Rotated

-----------------------------------------------------------------------------
(* The log *)

LEMMA HourType ==
    ASSUME NEW t \in Nat
    PROVE  HourOf(t) \in Nat
BY DivType, ConstAssumption DEF HourOf

LEMMA FoundFinite ==
    ASSUME now \in Nat, FilesOK
    PROVE  FoundHours \subseteq DOMAIN logFiles /\ FoundHours \subseteq Nat /\ IsFiniteSet(FoundHours)
<1>1. HourOf(now) \in Nat
    BY HourType
<1>2. FoundHours \in SUBSET (0..HourOf(now))
    BY <1>1 DEF FoundHours, FilesOK
<1>3. IsFiniteSet(0..HourOf(now))
    BY <1>1, FS_Interval
<1>4. IsFiniteSet(FoundHours)
    BY <1>2, <1>3, FS_Subset
<1> QED  BY <1>4 DEF FoundHours, FilesOK

LEMMA LinesType ==
    ASSUME FilesOK, NEW hours, hours \subseteq DOMAIN logFiles, NEW l \in Lines(hours)
    PROVE  /\ LineAt(l) \in Record
           /\ \E h \in hours : \E j \in DOMAIN logFiles[h] : LineAt(l) = logFiles[h][j]
<1>1. PICK h \in hours : l \in {h} \X DOMAIN logFiles[h]
    BY DEF Lines
<1>2. LineAt(l) = logFiles[h][l[2]] /\ l[2] \in DOMAIN logFiles[h]
    BY <1>1 DEF LineAt
<1> QED  BY <1>1, <1>2 DEF FilesOK

LEMMA LinesFinite ==
    ASSUME FilesOK, NEW hours, hours \subseteq DOMAIN logFiles, IsFiniteSet(hours)
    PROVE  IsFiniteSet(Lines(hours))
<1> DEFINE Of(h) == {h} \X DOMAIN logFiles[h]
           F == [h \in hours |-> Of(h)]
           S == {Of(h) : h \in hours}
<1>1. ASSUME NEW h \in hours PROVE IsFiniteSet(Of(h))
    <2>1. logFiles[h] \in Seq(Record)
        BY DEF FilesOK
    <2>2. DOMAIN logFiles[h] = 1..Len(logFiles[h]) /\ Len(logFiles[h]) \in Nat
        BY <2>1
    <2> HIDE <2>1
    <2>3. IsFiniteSet(DOMAIN logFiles[h])
        BY <2>2, FS_Interval
    <2> QED  BY <2>3, FS_Singleton, FS_Product
<1>2. F \in Surjection(hours, S)
    BY DEF Surjection
<1>3. IsFiniteSet(S)
    BY <1>2, FS_Surjection
<1>4. IsFiniteSet(UNION S)
    BY <1>1, <1>3, FS_UNION
<1> QED  BY <1>4 DEF Lines

LEMMA RecoverType ==
    ASSUME FilesOK, NEW hours, hours \subseteq DOMAIN logFiles, IsFiniteSet(hours),
           NEW p \in Param, CanRebuild(p), NEW site \in Site
    PROVE  /\ RecoverFromLog(p, hours, site) \in Seq(Filter)
           /\ Len(RecoverFromLog(p, hours, site)) = FiltersNum(p)
           /\ DOMAIN RecoverFromLog(p, hours, site) = 1..FiltersNum(p)
<1> DEFINE fs == RecoverFromLog(p, hours, site)
           added(i) == {l \in Lines(hours) : i <= RecoverDepth(p, LineAt(l).exp)}
           bits(i) == UNION {CalcHashIndices(FreshFilter(p), site, LineAt(l).token) : l \in added(i)}
<1>1. FiltersNum(p) \in Nat
    BY FiltersNumType DEF CanRebuild
<1>2. ASSUME NEW i \in 1..FiltersNum(p) PROVE fs[i] \in Filter
    <2>1. FreshFilter(p) \in Filter
        <3>1. ToUInt(p.bloomFilterSize) \in Nat
            BY ModType, ConstAssumption DEF ToUInt, Param
        <3>2. ValidFilter(ToUInt(p.bloomFilterSize), p.hashFunctionNum)
            BY <1>1, <1>2 DEF CanRebuild
        <3> QED  BY <3>1, <3>2, NewFilterType DEF FreshFilter, Param
    <2>2. bits(i) \subseteq Nat
        BY <2>1, IndicesType DEF Filter
    <2>3. Cardinality(added(i)) \in Nat
        BY LinesFinite, FS_Subset, FS_CardinalityType
    <2>4. fs[i] = Filled(FreshFilter(p), bits(i), Cardinality(added(i)))
        BY DEF RecoverFromLog
    <2> HIDE DEF fs, bits, added
    <2> QED  BY <2>1, <2>2, <2>3, <2>4 DEF Filled, Filter
<1>3. DOMAIN fs = 1..FiltersNum(p)
    BY DEF RecoverFromLog
<1>4. fs = [i \in 1..FiltersNum(p) |-> fs[i]]
    BY DEF RecoverFromLog
<1> HIDE DEF fs
<1>5. fs \in Seq(Filter) /\ Len(fs) = FiltersNum(p)
    BY <1>1, <1>2, <1>3, <1>4
<1> QED  BY <1>3, <1>5 DEF fs

-----------------------------------------------------------------------------
(* What a recovery builds *)

\* fs is the vector that a recovery builds under p which takes lines at time.
BuiltFrom(fs, p, site, lines, time) ==
    /\ fs \in Seq(Filter) /\ Len(fs) = FiltersNum(p) /\ DOMAIN fs = 1..FiltersNum(p)
    /\ lines \subseteq Record
    /\ \A r \in lines : InWindow(p, r.exp - time)
    /\ \A i \in DOMAIN fs :
        /\ fs[i].size = ToUInt(p.bloomFilterSize)
        /\ fs[i].hashNum = p.hashFunctionNum
        /\ fs[i].bits = UNION {CalcHashIndices(fs[i], site, r.token) :
                                  r \in {q \in lines : NumFilters(p, q.exp - time) >= i}}
    /\ \A i, j \in DOMAIN fs : i <= j => fs[j].msgNum <= fs[i].msgNum

\* Only size and number of hashes of a filter matter to its indices.
LEMMA IndicesSame ==
    ASSUME NEW f, NEW g, f.size = g.size, f.hashNum = g.hashNum, NEW site, NEW key
    PROVE  CalcHashIndices(f, site, key) = CalcHashIndices(g, site, key)
BY DEF CalcHashIndices

LEMMA RecoverBuilds ==
    ASSUME FilesOK, now \in Nat, NEW hours, hours \subseteq DOMAIN logFiles, IsFiniteSet(hours),
           NEW p \in Param, CanRebuild(p), NEW site \in Site
    PROVE  BuiltFrom(RecoverFromLog(p, hours, site), p, site, LinesTaken(p, hours), now)
<1> DEFINE fs == RecoverFromLog(p, hours, site)
           lines == LinesTaken(p, hours)
           added(i) == {l \in Lines(hours) : i <= RecoverDepth(p, LineAt(l).exp)}
           taken(i) == {q \in lines : NumFilters(p, q.exp - now) >= i}
<1>1. fs \in Seq(Filter) /\ Len(fs) = FiltersNum(p) /\ DOMAIN fs = 1..FiltersNum(p)
    BY RecoverType
<1>2. FiltersNum(p) \in Nat
    BY FiltersNumType DEF CanRebuild
<1>3. ASSUME NEW l \in Lines(hours)
      PROVE  /\ LineAt(l) \in Record /\ LineAt(l).exp - now \in Int
             /\ RecoverDepth(p, LineAt(l).exp) \in Nat
    <2>1. LineAt(l) \in Record
        BY LinesType
    <2> QED  BY <2>1, DepthType DEF RecoverDepth, Record, CanRebuild
<1>4. lines \subseteq Record /\ \A r \in lines : InWindow(p, r.exp - now)
    BY <1>3 DEF LinesTaken
<1>5. ASSUME NEW i \in 1..FiltersNum(p)
      PROVE  /\ {LineAt(l) : l \in added(i)} = taken(i)
             /\ fs[i] = Filled(FreshFilter(p),
                           UNION {CalcHashIndices(FreshFilter(p), site, LineAt(l).token) : l \in added(i)},
                           Cardinality(added(i)))
    <2>1. ASSUME NEW l \in Lines(hours)
          PROVE  i <= RecoverDepth(p, LineAt(l).exp) <=>
                    InWindow(p, LineAt(l).exp - now) /\ NumFilters(p, LineAt(l).exp - now) >= i
        <3>1. CASE InWindow(p, LineAt(l).exp - now)
            <4>1. RecoverDepth(p, LineAt(l).exp) = NumFilters(p, LineAt(l).exp - now)
                BY <3>1 DEF RecoverDepth
            <4>2. NumFilters(p, LineAt(l).exp - now) \in Nat
                BY <1>3, <4>1
            <4> QED  BY <1>2, <3>1, <4>1, <4>2
        <3>2. CASE ~InWindow(p, LineAt(l).exp - now)
            <4>1. RecoverDepth(p, LineAt(l).exp) = 0
                BY <3>2 DEF RecoverDepth
            <4> QED  BY <1>2, <3>2, <4>1
        <3> QED  BY <3>1, <3>2
    <2>2. {LineAt(l) : l \in added(i)} = taken(i)
        BY <2>1 DEF LinesTaken
    <2>3. fs[i] = Filled(FreshFilter(p),
                    UNION {CalcHashIndices(FreshFilter(p), site, LineAt(l).token) : l \in added(i)},
                    Cardinality(added(i)))
        BY DEF RecoverFromLog
    <2> QED  BY <2>2, <2>3
<1> HIDE DEF fs, lines
<1>6. ASSUME NEW i \in 1..FiltersNum(p)
      PROVE  /\ fs[i].size = ToUInt(p.bloomFilterSize) /\ fs[i].hashNum = p.hashFunctionNum
             /\ fs[i].bits = UNION {CalcHashIndices(fs[i], site, r.token) : r \in taken(i)}
             /\ fs[i].msgNum = Cardinality(added(i))
    <2> DEFINE bits == UNION {CalcHashIndices(FreshFilter(p), site, LineAt(l).token) : l \in added(i)}
               num == Cardinality(added(i))
    <2>0. fs[i] = Filled(FreshFilter(p), bits, num)
        BY <1>5
    <2> HIDE DEF bits, num
    <2>1. /\ fs[i].size = FreshFilter(p).size /\ fs[i].hashNum = FreshFilter(p).hashNum
          /\ fs[i].bits = bits /\ fs[i].msgNum = num
        BY <2>0 DEF Filled
    <2>2. FreshFilter(p).size = ToUInt(p.bloomFilterSize) /\ FreshFilter(p).hashNum = p.hashFunctionNum
        BY DEF FreshFilter, NewFilter
    <2>3. \A t : CalcHashIndices(FreshFilter(p), site, t) = CalcHashIndices(fs[i], site, t)
        BY <2>1, IndicesSame
    <2> DEFINE idx(t) == CalcHashIndices(fs[i], site, t)
    <2>4. fs[i].bits = UNION {idx(LineAt(l).token) : l \in added(i)}
        BY <2>1, <2>3 DEF bits
    <2>5. {LineAt(l) : l \in added(i)} = taken(i)
        BY <1>5
    <2> HIDE DEF idx, taken
    <2>6. UNION {idx(LineAt(l).token) : l \in added(i)} = UNION {idx(r.token) : r \in taken(i)}
        BY <2>5
    <2> QED  BY <2>1, <2>2, <2>4, <2>6 DEF idx, num
<1>7. ASSUME NEW i \in 1..FiltersNum(p), NEW j \in 1..FiltersNum(p), i <= j
      PROVE  fs[j].msgNum <= fs[i].msgNum
    <2>1. added(j) \subseteq added(i)
        BY <1>2, <1>3, <1>7
    <2>2. IsFiniteSet(added(i))
        BY LinesFinite, FS_Subset
    <2> HIDE DEF added
    <2>3. Cardinality(added(j)) <= Cardinality(added(i))
        BY <2>1, <2>2, FS_Subset
    <2> QED  BY <1>6, <2>3
<1>8. BuiltFrom(fs, p, site, lines, now)
    BY <1>1, <1>4, <1>6, <1>7 DEF BuiltFrom
<1> QED  BY <1>8 DEF fs, lines

\* What a vector was built from it holds, to the depth of the line.
LEMMA BuiltHolds ==
    ASSUME NEW fs, NEW p, NEW site, NEW lines, NEW time, BuiltFrom(fs, p, site, lines, time),
           NEW r \in lines, NEW i \in DOMAIN fs, NumFilters(p, r.exp - time) >= i
    PROVE  Contains(fs[i], site, r.token)
BY DEF BuiltFrom, Contains

\* What is left of an entry after a recovery.
LEMMA RecoveredEntry ==
    ASSUME NEW e \in Entry, NEW p \in Param, p.rotationInterval # 0, NEW site \in Site,
           NEW lines, NEW time \in Nat,
           \A r \in lines : r \in Record /\ InWindow(p, r.exp - time)
    PROVE  LET d == Recovered(e, p, site, lines, time)
               r == [token |-> e.token, exp |-> e.exp]
           IN  /\ d \in Entry
               /\ d.token = e.token /\ d.exp = e.exp /\ d.flushed = e.flushed
               /\ r \in lines => /\ d.site = site /\ d.kept = "fresh"
                                 /\ InWindow(p, e.exp - time)
                                 /\ d.left = NumFilters(p, e.exp - time)
                                 /\ d.left <= FiltersNum(p)
               /\ r \notin lines => d.left = 0 /\ d.kept = "out"
<1> DEFINE r == [token |-> e.token, exp |-> e.exp]
           d == Recovered(e, p, site, lines, time)
<1>1. CASE r \in lines
    <2>1. d = Keep(e, site, "fresh", NumFilters(p, e.exp - time))
        BY <1>1 DEF Recovered
    <2>2. InWindow(p, e.exp - time) /\ e.exp - time \in Int
        BY <1>1 DEF Entry
    <2>3. NumFilters(p, e.exp - time) \in Nat /\ NumFilters(p, e.exp - time) <= FiltersNum(p)
        BY <2>2, DepthType
    <2> QED  BY <1>1, <2>1, <2>2, <2>3 DEF Keep, Entry
<1>2. CASE r \notin lines
    <2>1. d = Keep(e, "query", "out", 0)
        BY <1>2 DEF Recovered, Gone
    <2> QED  BY <1>2, <2>1 DEF Keep, Entry, Site
<1> QED  BY <1>1, <1>2

-----------------------------------------------------------------------------
(* Types, and the length of the vector *)

Shape ==
    /\ up => param \in Params /\ CanRebuild(param)
    /\ Steady => Len(filters) = FiltersNum(param)
    /\ ~up => filters = <<>> /\ pending = {} /\ logQueue = <<>> /\ adj = NoAdjust

\* An adjustment under way: the files it found are there until it reads them,
\* and what it has built is the vector of what it read.
Adjusting ==
    /\ adj.at \in {"scanned", "swept"} =>
            IsFiniteSet(adj.found) /\ adj.found \subseteq DOMAIN logFiles
    /\ adj.at = "loaded" =>
            adj.time <= now /\ BuiltFrom(adj.filters, param, "adjust", adj.lines, adj.time)

TInv ==
    /\ TypeOK
    /\ IsFiniteSet(issued)
    /\ Shape
    /\ Adjusting

LEMMA ImageFinite ==
    ASSUME NEW S, IsFiniteSet(S), NEW f, DOMAIN f = S
    PROVE  IsFiniteSet({f[e] : e \in S})
<1> DEFINE T == {f[e] : e \in S}
           g == [e \in S |-> f[e]]
<1>1. g \in Surjection(S, T)
    BY DEF Surjection
<1> QED  BY <1>1, FS_Surjection

LEMMA KeepType ==
    ASSUME NEW e \in Entry, NEW site \in Site, NEW kept \in {"fresh", "aged", "out"},
           NEW left \in Nat
    PROVE  Keep(e, site, kept, left) \in Entry
BY DEF Keep, Entry

LEMMA GoneType ==
    ASSUME NEW e \in Entry
    PROVE  /\ Gone(e) \in Entry
           /\ Gone(e).token = e.token /\ Gone(e).exp = e.exp /\ Gone(e).flushed = e.flushed
           /\ Gone(e).left = 0 /\ Gone(e).kept = "out"
<1>1. Gone(e) \in Entry
    BY KeepType DEF Gone, Site
<1> QED  BY <1>1 DEF Gone, Keep

LEMMA NoAdjustType ==
    NoAdjust \in Adjust /\ NoAdjust.at = "none"
<1>1. {} \in SUBSET Nat /\ {} \in SUBSET Record /\ <<>> \in Seq(Filter)
      /\ {} \in SUBSET [token : Token, exp : Nat, hour : Int]
    OBVIOUS
<1> QED  BY <1>1 DEF NoAdjust, Adjust

\* While the clock goes on and files are added to, an adjustment stays as it is.
LEMMA AdjustingKept ==
    ASSUME TInv, adj' = adj, param' = param, now' \in Nat, now <= now',
           DOMAIN logFiles \subseteq DOMAIN logFiles'
    PROVE  Adjusting'
<1>1. CASE adj.at \in {"scanned", "swept"}
    BY <1>1 DEF TInv, Adjusting
<1>2. CASE adj.at = "loaded"
    <2>1. adj.time \in Nat /\ now \in Nat
        BY DEF TInv, TypeOK, Adjust
    <2>2. adj.time <= now'
        BY <1>2, <2>1 DEF TInv, Adjusting
    <2>3. BuiltFrom(adj.filters, param, "adjust", adj.lines, adj.time)
        BY <1>2 DEF TInv, Adjusting
    <2> QED  BY <1>2, <2>2, <2>3 DEF Adjusting
<1>3. CASE adj.at = "none"
    BY <1>3 DEF Adjusting
<1> QED  BY <1>1, <1>2, <1>3 DEF TInv, TypeOK, Adjust

LEMMA TInvInit ==
    Init => TInv
<1> SUFFICES ASSUME Init PROVE TInv
    OBVIOUS
<1>1. TypeOK
    <2>1. up \in BOOLEAN
        BY Zenon DEF Init
    <2>2. param \in Param
        BY DEF Init, NoParam, Param
    <2>3. filters \in Seq(Filter)
        BY DEF Init
    <2>4. logQueue \in Seq(Record) /\ Len(logQueue) <= LogCapacity
        BY ConstAssumption DEF Init
    <2>5. FilesOK
        <3>1. DOMAIN logFiles = {}
            BY DEF Init
        <3> QED  BY <3>1 DEF FilesOK
    <2>6. now \in Nat /\ rotateAt \in Nat
        BY DEF Init
    <2>7. pending = {} /\ unread = {} /\ issued = {}
        BY DEF Init
    <2>8. adj \in Adjust
        BY NoAdjustType DEF Init
    <2> QED  BY <2>1, <2>2, <2>3, <2>4, <2>5, <2>6, <2>7, <2>8, Zenon DEF TypeOK
<1>2. IsFiniteSet(issued)
    BY FS_EmptySet DEF Init
<1>3. Shape
    BY DEF Init, Shape, Steady
<1>4. Adjusting
    BY NoAdjustType DEF Init, Adjusting
<1> QED  BY <1>1, <1>2, <1>3, <1>4 DEF TInv

LEMMA TInvDie ==
    ASSUME TInv, Die
    PROVE  TInv'
<1> DEFINE f == [e \in issued |-> Gone(e)]
<1> USE DEF TInv
<1>1. issued' = {f[e] : e \in issued} /\ DOMAIN f = issued
    BY DEF Die
<1>2. issued' \subseteq Entry
    BY GoneType DEF TypeOK, Die
<1> HIDE DEF f
<1>3. IsFiniteSet(issued')
    BY <1>1, ImageFinite
<1>4. TypeOK'
    <2>1. up' \in BOOLEAN
        BY Zenon DEF Die
    <2>2. param' \in Param
        BY DEF Die, NoParam, Param
    <2>3. filters' \in Seq(Filter)
        BY DEF Die
    <2>4. logQueue' \in Seq(Record) /\ Len(logQueue') <= LogCapacity
        BY ConstAssumption DEF Die
    <2>5. FilesOK'
        BY DEF TypeOK, Die, FilesOK
    <2>6. now' \in Nat /\ rotateAt' \in Nat /\ pending' = {} /\ unread' \subseteq Nat
        BY DEF TypeOK, Die
    <2>7. adj' \in Adjust
        BY NoAdjustType DEF Die
    <2> QED  BY <1>2, <2>1, <2>2, <2>3, <2>4, <2>5, <2>6, <2>7, Zenon DEF TypeOK
<1>5. Shape'
    BY DEF Shape, Die, Steady
<1>6. Adjusting'
    BY NoAdjustType DEF Die, Adjusting
<1> QED  BY <1>3, <1>4, <1>5, <1>6

\* What a revocation adds to the history.
LEMMA IssueType ==
    ASSUME TInv, NEW site \in Site, NEW token \in Token, NEW exp \in Exps, up,
           Issue(site, token, exp)
    PROVE  /\ issued' \subseteq Entry /\ IsFiniteSet(issued')
           /\ \E new \in Entry :
                /\ issued' = issued \cup {new}
                /\ new.token = token /\ new.exp = exp /\ new.flushed = -1
                /\ new.left <= Len(filters)
                /\ InWindow(param, exp - now) =>
                        /\ new.site = site
                        /\ \A i \in 1..Len(filters) :
                                new.left >= i <=> NumFilters(param, exp - now) >= i
                        /\ Steady => new.left = NumFilters(param, exp - now)
                /\ ~InWindow(param, exp - now) => new.left = 0 /\ new.kept = "out"
<1> DEFINE kept == InWindow(param, exp - now)
           num == NumFilters(param, exp - now)
           new == [id |-> Cardinality(issued) + 1, token |-> token, exp |-> exp,
                   site |-> IF kept THEN site ELSE "query",
                   kept |-> IF kept THEN "fresh" ELSE "out",
                   left |-> IF ~kept THEN 0 ELSE IF num <= Len(filters) THEN num ELSE Len(filters),
                   flushed |-> -1]
<1>1. issued' = issued \cup {new}
    BY DEF Issue
<1>2. Cardinality(issued) + 1 \in Nat
    BY FS_CardinalityType DEF TInv
<1>3. exp \in Nat /\ now \in Nat /\ exp - now \in Int /\ Len(filters) \in Nat
    BY ConstAssumption DEF TInv, TypeOK
<1>4. param.rotationInterval # 0 /\ param \in Param
    BY DEF TInv, TypeOK, Shape, CanRebuild
<1>5. kept => num \in Nat /\ num <= FiltersNum(param)
    BY <1>3, <1>4, DepthType
<1>6. Steady => Len(filters) = FiltersNum(param)
    BY DEF TInv, Shape
<1> HIDE DEF kept, num
<1>7. new \in Entry
    <2>1. new.kept \in {"fresh", "aged", "out"} /\ new.site \in Site
        BY DEF Site
    <2>2. new.left \in Nat
        BY <1>3, <1>5
    <2> QED  BY <1>2, <1>3, <2>1, <2>2 DEF Entry
<1>8. /\ new.token = token /\ new.exp = exp /\ new.flushed = -1
      /\ new.left <= Len(filters)
      /\ ~kept => new.left = 0 /\ new.kept = "out"
    BY <1>3, <1>5
<1>9. ASSUME kept
      PROVE  /\ new.site = site
             /\ \A i \in 1..Len(filters) : new.left >= i <=> num >= i
             /\ Steady => new.left = num
    BY <1>3, <1>5, <1>6, <1>9
<1> HIDE DEF new
<1>10. IsFiniteSet(issued')
    BY <1>1, FS_AddElement DEF TInv
<1> QED  BY <1>1, <1>7, <1>8, <1>9, <1>10 DEF TInv, TypeOK, kept, num

LEMMA RevokeType ==
    ASSUME TInv, NEW site \in Site, NEW token \in Token, NEW exp \in Exps,
           RevokeJwt(site, token, exp), pending' \subseteq Record, \A r, s \in pending' : r = s
    PROVE  TInv'
<1>0. up
    BY DEF RevokeJwt
<1>1. issued' \subseteq Entry /\ IsFiniteSet(issued')
    BY <1>0, IssueType DEF RevokeJwt
<1>2. filters' \in Seq(Filter) /\ Len(filters') = Len(filters)
    <2>1. filters \in Seq(Filter)
        BY DEF TInv, TypeOK
    <2>2. CASE InWindow(param, exp - now)
        <3>1. exp - now \in Int
            BY ConstAssumption DEF TInv, TypeOK
        <3>2. NumFilters(param, exp - now) \in Nat
            BY <1>0, <2>2, <3>1, DepthType DEF TInv, TypeOK, Shape, CanRebuild
        <3> QED  BY <2>1, <2>2, <3>2, AddToFirstType DEF RevokeJwt
    <2>3. CASE ~InWindow(param, exp - now)
        BY <2>1, <2>3 DEF RevokeJwt
    <2> QED  BY <2>2, <2>3
<1>3. UNCHANGED <<now, up, param, rotateAt, adj, logQueue, logFiles, unread>>
    BY DEF RevokeJwt
<1>4. TypeOK'
    <2>1. FilesOK'
        BY <1>3 DEF FilesOK, TInv, TypeOK
    <2> QED  BY <1>1, <1>2, <1>3, <2>1 DEF TInv, TypeOK
<1>5. Shape'
    BY <1>0, <1>2, <1>3 DEF TInv, Shape, Steady
<1>6. Adjusting'
    BY <1>3, AdjustingKept DEF TInv, TypeOK
<1> QED  BY <1>1, <1>4, <1>5, <1>6 DEF TInv

\* What a recovery leaves of the history.
LEMMA RecoveredType ==
    ASSUME TInv, NEW p \in Param, p.rotationInterval # 0, NEW site \in Site, NEW lines,
           NEW time \in Nat, \A r \in lines : r \in Record /\ InWindow(p, r.exp - time),
           issued' = {Recovered(e, p, site, lines, time) : e \in issued}
    PROVE  issued' \subseteq Entry /\ IsFiniteSet(issued')
<1> DEFINE f == [e \in issued |-> Recovered(e, p, site, lines, time)]
<1>1. issued' \subseteq Entry
    <2>1. ASSUME NEW e \in Entry PROVE Recovered(e, p, site, lines, time) \in Entry
        BY RecoveredEntry
    <2> QED  BY <2>1 DEF TInv, TypeOK
<1>2. issued' = {f[e] : e \in issued} /\ DOMAIN f = issued
    OBVIOUS
<1> HIDE DEF f
<1>3. IsFiniteSet(issued')
    BY <1>2, ImageFinite DEF TInv
<1> QED  BY <1>1, <1>3

\* What init finds, reads and builds.
LEMMA StartBuilds ==
    ASSUME TInv, NEW p \in Params, Start(p)
    PROVE  /\ p \in Param /\ now \in Nat /\ CanRebuild(p) /\ ~up /\ up' /\ param' = p
           /\ adj = NoAdjust /\ rotateAt' = now + p.rotationInterval
           /\ UNCHANGED <<now, adj, pending, logQueue>>
           /\ FoundHours \subseteq DOMAIN logFiles
           /\ logFiles' = [h \in FoundHours |-> logFiles[h]]
           /\ \E read \in SUBSET FoundHours :
                /\ IsFiniteSet(read)
                /\ unread' = FoundHours \ read
                /\ BuiltFrom(filters', p, "init", LinesTaken(p, read), now)
                /\ issued' = {Recovered(e, p, "init", LinesTaken(p, read), now) : e \in issued}
<1>0. TypeOK /\ p \in Param /\ now \in Nat /\ FilesOK /\ CanRebuild(p) /\ ~up /\ up' /\ param' = p
      /\ adj = NoAdjust /\ rotateAt' = now + p.rotationInterval
      /\ UNCHANGED <<now, adj, pending, logQueue>>
      /\ logFiles' = [h \in FoundHours |-> logFiles[h]]
    BY ConstAssumption DEF TInv, TypeOK, Start, Shape
<1>1. PICK stop \in FoundHours \cup {-1} :
        LET read == {h \in FoundHours : h > stop} IN
        /\ filters' = RecoverFromLog(p, read, "init")
        /\ unread' = FoundHours \ read
        /\ issued' = {Recovered(e, p, "init", LinesTaken(p, read), now) : e \in issued}
    BY DEF Start
<1> DEFINE read == {h \in FoundHours : h > stop}
<1>2. read \in SUBSET FoundHours /\ IsFiniteSet(read) /\ FoundHours \subseteq DOMAIN logFiles
    BY <1>0, FoundFinite, FS_Subset
<1>3. /\ filters' = RecoverFromLog(p, read, "init")
      /\ unread' = FoundHours \ read
      /\ issued' = {Recovered(e, p, "init", LinesTaken(p, read), now) : e \in issued}
    BY <1>1
<1> HIDE DEF read
<1>4. BuiltFrom(filters', p, "init", LinesTaken(p, read), now)
    BY <1>0, <1>2, <1>3, RecoverBuilds DEF Site
<1> QED  BY <1>0, <1>2, <1>3, <1>4

LEMMA TInvStart ==
    ASSUME TInv, NEW p \in Params, Start(p)
    PROVE  TInv'
<1>1. /\ p \in Param /\ now \in Nat /\ CanRebuild(p) /\ ~up /\ up' /\ param' = p
      /\ adj = NoAdjust /\ rotateAt' = now + p.rotationInterval
      /\ UNCHANGED <<now, adj, pending, logQueue>>
      /\ FoundHours \subseteq DOMAIN logFiles
      /\ logFiles' = [h \in FoundHours |-> logFiles[h]]
    BY StartBuilds
<1>2. PICK read \in SUBSET FoundHours :
        /\ unread' = FoundHours \ read
        /\ BuiltFrom(filters', p, "init", LinesTaken(p, read), now)
        /\ issued' = {Recovered(e, p, "init", LinesTaken(p, read), now) : e \in issued}
    BY StartBuilds
<1>3. issued' \subseteq Entry /\ IsFiniteSet(issued')
    <2>1. \A r \in LinesTaken(p, read) : r \in Record /\ InWindow(p, r.exp - now)
        BY <1>2 DEF BuiltFrom
    <2> QED  BY <1>1, <1>2, <2>1, RecoveredType DEF CanRebuild, Site
<1>4. filters' \in Seq(Filter) /\ Len(filters') = FiltersNum(p)
    BY <1>2 DEF BuiltFrom
<1>5. FilesOK' /\ unread' \subseteq Nat
    BY <1>1, <1>2 DEF FilesOK, TInv, TypeOK
<1>6. TypeOK'
    <2>1. up' \in BOOLEAN
        BY <1>1, Zenon
    <2>2. rotateAt' \in Nat
        BY <1>1 DEF Param
    <2> QED  BY <1>1, <1>3, <1>4, <1>5, <2>1, <2>2 DEF TInv, TypeOK
<1>7. Shape'
    BY <1>1, <1>4 DEF Shape
<1>8. Adjusting'
    BY <1>1, NoAdjustType DEF Adjusting
<1> QED  BY <1>3, <1>6, <1>7, <1>8 DEF TInv

\* An adjustment whose parameters do not kill the process begins.
LEMMA TInvAdjustScan ==
    ASSUME TInv, NEW p \in Params, AdjustScan(p)
    PROVE  TInv'
<1>1. CASE Die
    BY <1>1, TInvDie
<1>2. CASE /\ CanRebuild(p)
           /\ param' = p
           /\ \E s \in Scans :
                adj' = [NoAdjust EXCEPT !.at = "scanned", !.found = s.found,
                                        !.due = s.due, !.before = Cardinality(issued)]
           /\ UNCHANGED <<now, up, filters, rotateAt, pending, logQueue, logFiles, unread, issued>>
    <2>0. PICK s \in Scans :
                adj' = [NoAdjust EXCEPT !.at = "scanned", !.found = s.found,
                                        !.due = s.due, !.before = Cardinality(issued)]
        BY <1>2
    <2>1. adj' = [at |-> "scanned", found |-> s.found, filters |-> <<>>, lines |-> {},
                  time |-> 0, due |-> s.due, before |-> Cardinality(issued)]
        BY <2>0 DEF NoAdjust
    <2>2. s.found \subseteq DOMAIN logFiles /\ s.found \subseteq Nat /\ IsFiniteSet(s.found)
        <3>1. FoundHours \subseteq DOMAIN logFiles /\ FoundHours \subseteq Nat
              /\ IsFiniteSet(FoundHours) /\ IsFiniteSet({})
            BY FoundFinite, FS_EmptySet DEF TInv, TypeOK
        <3> HIDE DEF FoundHours
        <3> QED  BY <3>1 DEF Scans
    <2>3. s.due \subseteq [token : Token, exp : Nat, hour : Int]
        <3>1. LinesDue \subseteq [token : Token, exp : Nat, hour : Int]
            BY DEF LinesDue, TInv, TypeOK, Entry
        <3> HIDE DEF LinesDue
        <3> QED  BY <3>1 DEF Scans
    <2>4. Cardinality(issued) \in Nat
        BY FS_CardinalityType DEF TInv
    <2>5. adj' \in Adjust
        <3>1. {} \in SUBSET Record /\ <<>> \in Seq(Filter)
            OBVIOUS
        <3> QED  BY <2>1, <2>2, <2>3, <2>4, <3>1 DEF Adjust
    <2>6. param' \in Param
        BY <1>2, ConstAssumption
    <2>7. TypeOK'
        <3>1. FilesOK'
            BY <1>2 DEF FilesOK, TInv, TypeOK
        <3> QED  BY <1>2, <2>5, <2>6, <3>1 DEF TInv, TypeOK
    <2>8. up /\ up' /\ adj'.at = "scanned" /\ adj'.found = s.found
        BY <1>2, <2>1 DEF AdjustScan, Steady
    <2>9. Shape'
        BY <1>2, <2>8 DEF Shape, Steady
    <2>10. Adjusting'
        BY <1>2, <2>2, <2>8 DEF Adjusting
    <2> QED  BY <1>2, <2>7, <2>9, <2>10 DEF TInv
<1> QED  BY <1>1, <1>2 DEF AdjustScan

LEMMA UpAdjusting ==
    ASSUME TInv, adj.at # "none"
    PROVE  /\ up /\ ~Steady /\ param \in Params /\ CanRebuild(param)
           /\ param \in Param /\ param.rotationInterval # 0
BY NoAdjustType, ConstAssumption DEF TInv, Shape, Steady, CanRebuild

LEMMA TInvAdjustSweep ==
    ASSUME TInv, AdjustSweep
    PROVE  TInv'
<1> DEFINE mark(e) == IF e.flushed \in adj.found THEN e ELSE [e EXCEPT !.flushed = -1]
           f == [e \in issued |-> mark(e)]
<1>1. /\ adj.at = "scanned" /\ adj' = [adj EXCEPT !.at = "swept"]
      /\ logFiles' = [h \in adj.found |-> logFiles[h]]
      /\ issued' = {mark(e) : e \in issued}
      /\ UNCHANGED <<now, up, param, filters, rotateAt, pending, logQueue, unread>>
    BY DEF AdjustSweep
<1>2. adj' \in Adjust /\ adj'.at = "swept" /\ adj'.found = adj.found
    BY <1>1 DEF TInv, TypeOK, Adjust
<1>3. IsFiniteSet(adj.found) /\ adj.found \subseteq DOMAIN logFiles
    BY <1>1 DEF TInv, Adjusting
<1>4. issued' \subseteq Entry
    <2>1. ASSUME NEW e \in Entry PROVE mark(e) \in Entry
        BY DEF Entry
    <2> HIDE DEF mark
    <2> QED  BY <1>1, <2>1 DEF TInv, TypeOK
<1>5. issued' = {f[e] : e \in issued} /\ DOMAIN f = issued
    BY <1>1
<1> HIDE DEF f, mark
<1>6. IsFiniteSet(issued')
    BY <1>5, ImageFinite DEF TInv
<1>7. FilesOK'
    BY <1>1, <1>3 DEF FilesOK, TInv, TypeOK
<1>8. TypeOK'
    BY <1>1, <1>2, <1>4, <1>7 DEF TInv, TypeOK
<1>9. Shape'
    BY <1>1, <1>2, UpAdjusting DEF Shape, Steady
<1>10. Adjusting'
    BY <1>1, <1>2, <1>3 DEF Adjusting
<1> QED  BY <1>6, <1>8, <1>9, <1>10 DEF TInv

\* What adjustFiltersParam reads and builds.
LEMMA LoadBuilds ==
    ASSUME TInv, AdjustLoad
    PROVE  /\ adj.at = "swept" /\ adj' \in Adjust
           /\ adj'.at = "loaded" /\ adj'.time = now /\ adj'.due = adj.due
           /\ BuiltFrom(adj'.filters, param, "adjust", adj'.lines, now)
           /\ \E read \in SUBSET adj.found :
                /\ read \subseteq DOMAIN logFiles
                /\ unread' = adj.found \ read
                /\ adj'.lines = LinesTaken(param, read)
           /\ UNCHANGED <<now, up, param, filters, rotateAt, pending, logQueue, logFiles, issued>>
<1>0. /\ adj.at = "swept" /\ adj \in Adjust /\ now \in Nat /\ FilesOK
      /\ IsFiniteSet(adj.found) /\ adj.found \subseteq DOMAIN logFiles
      /\ param \in Param /\ CanRebuild(param)
      /\ UNCHANGED <<now, up, param, filters, rotateAt, pending, logQueue, logFiles, issued>>
    BY UpAdjusting DEF AdjustLoad, TInv, TypeOK, Adjusting
<1>1. PICK stop \in adj.found \cup {-1} :
        LET read == {h \in adj.found : h > stop} IN
        /\ unread' = adj.found \ read
        /\ adj' = [adj EXCEPT !.at = "loaded", !.time = now,
                              !.filters = RecoverFromLog(param, read, "adjust"),
                              !.lines = LinesTaken(param, read)]
    BY DEF AdjustLoad
<1> DEFINE read == {h \in adj.found : h > stop}
           fs == RecoverFromLog(param, read, "adjust")
           lines == LinesTaken(param, read)
<1>2. read \in SUBSET adj.found /\ read \subseteq DOMAIN logFiles /\ IsFiniteSet(read)
    BY <1>0, FS_Subset
<1>3. /\ unread' = adj.found \ read
      /\ adj' = [adj EXCEPT !.at = "loaded", !.time = now, !.filters = fs, !.lines = lines]
    BY <1>1
<1> HIDE DEF read
<1>4. BuiltFrom(fs, param, "adjust", lines, now)
    BY <1>0, <1>2, RecoverBuilds DEF Site
<1>5. fs \in Seq(Filter) /\ lines \subseteq Record
    BY <1>4 DEF BuiltFrom
<1> HIDE DEF fs, lines
<1>6. /\ adj' \in Adjust /\ adj'.at = "loaded" /\ adj'.time = now /\ adj'.due = adj.due
      /\ adj'.filters = fs /\ adj'.lines = lines
    BY <1>0, <1>3, <1>5 DEF Adjust
<1> QED  BY <1>0, <1>2, <1>3, <1>4, <1>6 DEF lines

LEMMA TInvAdjustLoad ==
    ASSUME TInv, AdjustLoad
    PROVE  TInv'
<1>1. /\ adj.at = "swept" /\ adj' \in Adjust
      /\ adj'.at = "loaded" /\ adj'.time = now
      /\ BuiltFrom(adj'.filters, param, "adjust", adj'.lines, now)
      /\ UNCHANGED <<now, up, param, filters, rotateAt, pending, logQueue, logFiles, issued>>
    BY LoadBuilds
<1>2. unread' \subseteq Nat
    BY LoadBuilds DEF TInv, TypeOK, Adjust
<1>3. TypeOK'
    <2>1. FilesOK'
        BY <1>1 DEF FilesOK, TInv, TypeOK
    <2> QED  BY <1>1, <1>2, <2>1 DEF TInv, TypeOK
<1>4. Shape'
    BY <1>1, UpAdjusting DEF Shape, Steady
<1>5. Adjusting'
    <2>1. now <= now
        BY DEF TInv, TypeOK
    <2> QED  BY <1>1, <2>1 DEF Adjusting
<1> QED  BY <1>1, <1>3, <1>4, <1>5 DEF TInv

\* What the swap puts in force.
LEMMA SwapBuilds ==
    ASSUME TInv, AdjustSwap
    PROVE  /\ up /\ param \in Params /\ param \in Param /\ CanRebuild(param)
           /\ adj.at = "loaded" /\ adj.time \in Nat /\ adj.time <= now /\ now \in Nat
           /\ adj' = NoAdjust /\ filters' = adj.filters
           /\ BuiltFrom(filters', param, "adjust", adj.lines, adj.time)
           /\ rotateAt' = now + param.rotationInterval \/ (rotateAt <= now /\ rotateAt' = rotateAt)
           /\ issued' = {Recovered(e, param, "adjust", adj.lines, adj.time) : e \in issued}
           /\ UNCHANGED <<now, up, param, pending, logQueue, logFiles, unread>>
<1>1. /\ adj.at = "loaded" /\ adj' = NoAdjust /\ filters' = adj.filters
      /\ issued' = {Recovered(e, param, "adjust", adj.lines, adj.time) : e \in issued}
      /\ UNCHANGED <<now, up, param, pending, logQueue, logFiles, unread>>
    BY DEF AdjustSwap
<1>2. adj.time \in Nat /\ now \in Nat /\ rotateAt \in Nat
    BY DEF TInv, TypeOK, Adjust
<1>3. adj.time <= now /\ BuiltFrom(adj.filters, param, "adjust", adj.lines, adj.time)
    BY <1>1 DEF TInv, Adjusting
<1>4. rotateAt' = now + param.rotationInterval \/ (rotateAt <= now /\ rotateAt' = rotateAt)
    BY <1>2 DEF AdjustSwap, RotationDue
<1>5. up /\ param \in Params /\ param \in Param /\ CanRebuild(param)
    BY <1>1, UpAdjusting
<1> QED  BY <1>1, <1>2, <1>3, <1>4, <1>5

LEMMA TInvAdjustSwap ==
    ASSUME TInv, AdjustSwap
    PROVE  TInv'
<1>1. /\ up /\ param \in Params /\ param \in Param /\ CanRebuild(param)
      /\ adj.time \in Nat /\ now \in Nat
      /\ adj' = NoAdjust
      /\ BuiltFrom(filters', param, "adjust", adj.lines, adj.time)
      /\ rotateAt' = now + param.rotationInterval \/ (rotateAt <= now /\ rotateAt' = rotateAt)
      /\ issued' = {Recovered(e, param, "adjust", adj.lines, adj.time) : e \in issued}
      /\ UNCHANGED <<now, up, param, pending, logQueue, logFiles, unread>>
    BY SwapBuilds
<1>2. issued' \subseteq Entry /\ IsFiniteSet(issued')
    <2>1. \A r \in adj.lines : r \in Record /\ InWindow(param, r.exp - adj.time)
        BY <1>1 DEF BuiltFrom
    <2> QED  BY <1>1, <2>1, RecoveredType DEF CanRebuild, Site
<1>3. filters' \in Seq(Filter) /\ Len(filters') = FiltersNum(param)
    BY <1>1 DEF BuiltFrom
<1>4. TypeOK'
    <2>1. FilesOK'
        BY <1>1 DEF FilesOK, TInv, TypeOK
    <2>2. rotateAt' \in Nat
        BY <1>1 DEF TInv, TypeOK, Param
    <2> QED  BY <1>1, <1>2, <1>3, <2>1, <2>2, NoAdjustType DEF TInv, TypeOK
<1>5. Shape'
    BY <1>1, <1>3 DEF Shape
<1>6. Adjusting'
    BY <1>1, NoAdjustType DEF Adjusting
<1> QED  BY <1>2, <1>4, <1>5, <1>6 DEF TInv

LEMMA TInvLogRevoke ==
    ASSUME TInv, LogRevoke
    PROVE  TInv'
<1>1. PICK r \in pending : logQueue' = Append(logQueue, r)
    BY DEF LogRevoke
<1>2. Len(logQueue) < LogCapacity /\ pending' = {}
      /\ UNCHANGED <<now, up, param, filters, rotateAt, adj, logFiles, unread, issued>>
    BY DEF LogRevoke
<1>3. logQueue' \in Seq(Record) /\ Len(logQueue') <= LogCapacity
    BY <1>1, <1>2, ConstAssumption DEF TInv, TypeOK
<1>4. TypeOK'
    <2>1. FilesOK'
        BY <1>2 DEF FilesOK, TInv, TypeOK
    <2> QED  BY <1>2, <1>3, <2>1 DEF TInv, TypeOK
<1>5. up
    BY <1>1 DEF TInv, Shape
<1>6. Shape'
    BY <1>2, <1>5 DEF TInv, Shape, Steady
<1>7. Adjusting'
    BY <1>2, AdjustingKept DEF TInv, TypeOK
<1> QED  BY <1>2, <1>4, <1>6, <1>7 DEF TInv

LEMMA TInvLogWrite ==
    ASSUME TInv, LogWrite
    PROVE  TInv'
<1> DEFINE r == Head(logQueue)
           h == HourOf(now)
           old == IF h \in DOMAIN logFiles THEN logFiles[h] ELSE <<>>
           mark(e) == IF e.token = r.token /\ e.exp = r.exp THEN [e EXCEPT !.flushed = h] ELSE e
           f == [e \in issued |-> mark(e)]
<1>1. /\ logQueue # <<>> /\ logQueue' = Tail(logQueue)
      /\ UNCHANGED <<now, up, param, filters, rotateAt, adj, pending, unread>>
    BY DEF LogWrite
<1>2. /\ logQueue' \in Seq(Record) /\ Len(logQueue') <= LogCapacity
      /\ r \in Record /\ h \in Nat /\ old \in Seq(Record)
    <2>1. logQueue \in Seq(Record) /\ Len(logQueue) <= LogCapacity
        BY DEF TInv, TypeOK
    <2>2. h \in Nat
        BY HourType DEF TInv, TypeOK
    <2>3. old \in Seq(Record)
        BY DEF TInv, TypeOK, FilesOK
    <2>4. Len(Tail(logQueue)) = Len(logQueue) - 1
        BY <1>1, <2>1
    <2> QED  BY <1>1, <2>1, <2>2, <2>3, <2>4, ConstAssumption
<1>3. up
    BY <1>1 DEF TInv, Shape
<1>4. /\ FilesOK' /\ issued' \subseteq Entry /\ IsFiniteSet(issued')
      /\ DOMAIN logFiles \subseteq DOMAIN logFiles'
    <2>1. CASE UNCHANGED <<logFiles, issued>>
        BY <2>1 DEF TInv, TypeOK, FilesOK
    <2>2. CASE /\ logFiles' = [k \in DOMAIN logFiles \cup {h} |->
                                  IF k = h THEN Append(old, r) ELSE logFiles[k]]
               /\ issued' = {mark(e) : e \in issued}
        <3>1. FilesOK'
            <4>1. Append(old, r) \in Seq(Record)
                BY <1>2
            <4> HIDE DEF old, r, h
            <4> QED  BY <1>2, <2>2, <4>1 DEF TInv, TypeOK, FilesOK
        <3>2. issued' \subseteq Entry
            <4>1. ASSUME NEW e \in Entry PROVE [e EXCEPT !.flushed = h] \in Entry
                <5> HIDE DEF h
                <5> QED  BY <1>2 DEF Entry
            <4>2. ASSUME NEW e \in Entry PROVE mark(e) \in Entry
                BY <4>1
            <4> HIDE DEF mark
            <4> QED  BY <2>2, <4>2 DEF TInv, TypeOK
        <3>3. issued' = {f[e] : e \in issued} /\ DOMAIN f = issued
            BY <2>2
        <3> HIDE DEF f
        <3>4. IsFiniteSet(issued')
            BY <3>3, ImageFinite DEF TInv
        <3>5. DOMAIN logFiles \subseteq DOMAIN logFiles'
            BY <2>2
        <3> QED  BY <3>1, <3>2, <3>4, <3>5
    <2> QED  BY <2>1, <2>2 DEF LogWrite
<1>5. TypeOK'
    BY <1>1, <1>2, <1>4 DEF TInv, TypeOK
<1>6. Shape'
    BY <1>1, <1>3 DEF TInv, Shape, Steady
<1>7. Adjusting'
    BY <1>1, <1>4, AdjustingKept DEF TInv, TypeOK
<1> QED  BY <1>4, <1>5, <1>6, <1>7 DEF TInv

LEMMA AgedType ==
    ASSUME NEW e \in Entry
    PROVE  Aged(e) \in Entry
<1>1. (IF e.kept = "fresh" THEN "aged" ELSE e.kept) \in {"fresh", "aged", "out"}
    BY DEF Entry
<1>2. (IF e.left = 0 THEN 0 ELSE e.left - 1) \in Nat /\ e.site \in Site
    BY DEF Entry
<1> QED  BY <1>1, <1>2, KeepType DEF Aged

LEMMA TInvRotate ==
    ASSUME TInv, Rotate
    PROVE  TInv'
<1>0. up
    BY DEF Rotate
<1>1. CASE /\ ValidFilter(param.bloomFilterSize, param.hashFunctionNum)
           /\ filters' = Rotated(filters, param)
           /\ rotateAt' = now + param.rotationInterval
           /\ issued' = {Aged(e) : e \in issued}
           /\ UNCHANGED <<now, up, param, adj, pending, logQueue, logFiles, unread>>
    <2> DEFINE f == [e \in issued |-> Aged(e)]
    <2>1. /\ filters' = Rotated(filters, param)
          /\ rotateAt' = now + param.rotationInterval
          /\ issued' = {Aged(e) : e \in issued}
          /\ UNCHANGED <<now, up, param, adj, pending, logQueue, logFiles, unread>>
          /\ up
        BY <1>0, <1>1
    <2>2. filters' \in Seq(Filter) /\ Len(filters') = Len(filters)
        BY <1>1, <2>1, RotatedType DEF TInv, TypeOK
    <2>3. issued' \subseteq Entry
        BY <2>1, AgedType DEF TInv, TypeOK
    <2>4. IsFiniteSet(issued')
        <3>1. issued' = {f[e] : e \in issued} /\ DOMAIN f = issued
            BY <2>1
        <3> HIDE DEF f
        <3> QED  BY <3>1, ImageFinite DEF TInv
    <2>5. TypeOK'
        <3>1. FilesOK'
            BY <2>1 DEF FilesOK, TInv, TypeOK
        <3>2. rotateAt' \in Nat
            BY <2>1 DEF TInv, TypeOK, Param
        <3> QED  BY <2>1, <2>2, <2>3, <3>1, <3>2 DEF TInv, TypeOK
    <2>6. Shape'
        BY <2>1, <2>2 DEF TInv, Shape, Steady
    <2>7. Adjusting'
        BY <2>1, AdjustingKept DEF TInv, TypeOK
    <2> QED  BY <2>4, <2>5, <2>6, <2>7 DEF TInv
<1>2. CASE Die
    BY <1>2, TInvDie
<1> QED  BY <1>1, <1>2 DEF Rotate

\* The steps that move only the clock or the time of the next rotation.
LEMMA TInvTime ==
    ASSUME TInv, Tick \/ SpuriousWakeup \/ UNCHANGED vars
    PROVE  TInv'
<1>1. UNCHANGED <<up, param, filters, adj, pending, logQueue, logFiles, unread, issued>>
    BY DEF Tick, SpuriousWakeup, vars
<1>2. now' \in Nat /\ rotateAt' \in Nat /\ now <= now'
    BY DEF Tick, SpuriousWakeup, vars, TInv, TypeOK, Param
<1>3. FilesOK'
    BY <1>1 DEF FilesOK, TInv, TypeOK
<1>4. TypeOK'
    BY <1>1, <1>2, <1>3 DEF TInv, TypeOK
<1>5. Shape'
    BY <1>1 DEF TInv, Shape, Steady
<1>6. Adjusting'
    BY <1>1, <1>2, AdjustingKept
<1> QED  BY <1>1, <1>4, <1>5, <1>6 DEF TInv

LEMMA TInvNext ==
    ASSUME TInv, [Next]_vars
    PROVE  TInv'
<1>1. CASE Tick \/ SpuriousWakeup \/ UNCHANGED vars
    BY <1>1, TInvTime
<1>2. CASE Die
    BY <1>2, TInvDie
<1>3. ASSUME NEW p \in Params, Start(p) PROVE TInv'
    BY <1>3, TInvStart
<1>4. ASSUME NEW p \in Params, AdjustScan(p) PROVE TInv'
    BY <1>4, TInvAdjustScan
<1>5. ASSUME NEW t \in Token, NEW x \in Exps, MasterRevoke(t, x) PROVE TInv'
    <2>1. x \in Nat
        BY ConstAssumption
    <2> QED  BY <1>5, <2>1, RevokeType DEF MasterRevoke, Site, Record
<1>6. ASSUME NEW t \in Token, NEW x \in Exps, ProxyRevoke(t, x) PROVE TInv'
    <2>1. pending' = pending
        BY <1>6 DEF ProxyRevoke
    <2> QED  BY <1>6, <2>1, RevokeType DEF ProxyRevoke, Site, TInv, TypeOK
<1>7. CASE LogRevoke
    BY <1>7, TInvLogRevoke
<1>8. CASE LogWrite
    BY <1>8, TInvLogWrite
<1>9. CASE Rotate
    BY <1>9, TInvRotate
<1>10. CASE AdjustSweep \/ AdjustLoad \/ AdjustSwap
    BY <1>10, TInvAdjustSweep, TInvAdjustLoad, TInvAdjustSwap
<1> QED  BY <1>1, <1>2, <1>3, <1>4, <1>5, <1>6, <1>7, <1>8, <1>9, <1>10 DEF Next

LEMMA TInvAlways ==
    Spec => []TInv
<1>1. TInv /\ [Next]_vars => TInv'
    BY TInvNext
<1> QED  BY TInvInit, <1>1, PTL DEF Spec

\* Types hold of every reachable state: the depth of a revocation, the size of
\* the log queue and the contents of the files stay in range through every
\* interleaving of the scheduler, the server, logWorker and the rotation thread.
THEOREM TypeCorrect ==
    Spec => []TypeOK
<1>1. TInv => TypeOK
    BY DEF TInv
<1> QED  BY <1>1, TInvAlways, PTL

\* No call of revokeJwt or isRevoked indexes past the vector, for all
\* parameters a master may send, save while an adjustment runs.
THEOREM NoIndexOutOfBounds ==
    Spec => []IndexInBounds
<1>1. ASSUME TInv PROVE IndexInBounds
    <2> SUFFICES ASSUME Steady, NEW rem \in 1..param.maxJwtLifeTime
                 PROVE  NumFilters(param, rem) <= Len(filters)
        BY DEF IndexInBounds
    <2>1. param \in Param /\ param.rotationInterval \in Nat \ {0} /\ param.maxJwtLifeTime \in Nat
        BY <1>1 DEF TInv, TypeOK, Shape, CanRebuild, Steady, Param
    <2>2. rem \in Nat /\ rem <= param.maxJwtLifeTime
        BY <2>1
    <2>3. NumFilters(param, rem) <= FiltersNum(param)
        BY <2>1, <2>2, DivMono DEF NumFilters, FiltersNum
    <2> QED  BY <1>1, <2>3 DEF TInv, Shape
<1> QED  BY <1>1, TInvAlways, PTL

-----------------------------------------------------------------------------
(* Where the bits come from *)

HasEntry(r) == \E e \in issued : e.token = r.token /\ e.exp = r.exp

\* Whatever is on its way to the log, in it, or read back from it, was issued.
InLog ==
    (pending \cup adj.lines \cup {logQueue[i] : i \in DOMAIN logQueue})
      \cup (UNION {{logFiles[h][i] : i \in DOMAIN logFiles[h]} : h \in DOMAIN logFiles})

Logged == \A r \in InLog : HasEntry(r)

LeftInRange == \A e \in issued : e.left <= Len(filters)

BInv ==
    /\ BitsExact
    /\ LeftInRange
    /\ Logged

\* A step that keeps the tokens and expiry times of the history keeps HasEntry.
LEMMA HasEntryKept ==
    ASSUME NEW r, HasEntry(r),
           \A e \in issued : \E d \in issued' : d.token = e.token /\ d.exp = e.exp
    PROVE  HasEntry(r)'
BY DEF HasEntry

LEMMA LoggedKept ==
    ASSUME Logged, InLog' \subseteq InLog,
           \A e \in issued : \E d \in issued' : d.token = e.token /\ d.exp = e.exp
    PROVE  Logged'
<1>1. ASSUME NEW r \in InLog' PROVE HasEntry(r)'
    BY <1>1, HasEntryKept DEF Logged
<1> QED  BY <1>1 DEF Logged

LEMMA BInvDie ==
    ASSUME TInv, BInv, Die
    PROVE  BInv'
<1>1. filters' = <<>> /\ pending' = {} /\ logQueue' = <<>> /\ logFiles' = logFiles
      /\ issued' = {Gone(e) : e \in issued} /\ adj' = NoAdjust
    BY DEF Die
<1>2. \A e \in issued : \E d \in issued' : d.token = e.token /\ d.exp = e.exp
    <2>1. \A e \in issued : Gone(e) \in issued'
        BY <1>1
    <2>2. \A e \in issued : Gone(e).token = e.token /\ Gone(e).exp = e.exp
        BY GoneType DEF TInv, TypeOK
    <2> QED  BY <2>1, <2>2
<1>3. Logged'
    <2>1. InLog' \subseteq InLog
        BY <1>1 DEF InLog, NoAdjust
    <2> QED  BY <1>2, <2>1, LoggedKept DEF BInv
<1>4. LeftInRange'
    <2>1. Len(filters') = 0
        BY <1>1
    <2>2. \A e \in issued : Gone(e).left <= Len(filters')
        BY <2>1, GoneType DEF TInv, TypeOK
    <2> QED  BY <1>1, <2>2 DEF LeftInRange
<1>5. BitsExact'
    <2>1. DOMAIN filters' = {}
        BY <1>1
    <2> QED  BY <2>1 DEF BitsExact
<1> QED  BY <1>3, <1>4, <1>5 DEF BInv

LEMMA BInvRevoke ==
    ASSUME TInv, BInv, NEW site \in Site, NEW token \in Token, NEW exp \in Exps,
           RevokeJwt(site, token, exp),
           pending' \subseteq pending \cup {[token |-> token, exp |-> exp]}
    PROVE  BInv'
<1> DEFINE rem == exp - now
           kept == InWindow(param, rem)
           n == NumFilters(param, rem)
<1>1. up /\ logQueue' = logQueue /\ logFiles' = logFiles /\ adj' = adj
      /\ filters' = IF kept THEN AddToFirst(filters, n, site, token) ELSE filters
    BY DEF RevokeJwt
<1>2. PICK new \in Entry :
        /\ issued' = issued \cup {new}
        /\ new.token = token /\ new.exp = exp /\ new.left <= Len(filters)
        /\ kept => /\ new.site = site
                   /\ \A i \in 1..Len(filters) : new.left >= i <=> n >= i
        /\ ~kept => new.left = 0
    BY <1>1, IssueType DEF RevokeJwt
<1>3. filters \in Seq(Filter) /\ issued \subseteq Entry
    BY DEF TInv, TypeOK
<1>4. rem \in Int
    BY ConstAssumption DEF TInv, TypeOK
<1>5. kept => n \in Nat
    BY <1>1, <1>4, DepthType DEF TInv, TypeOK, Shape, CanRebuild
<1> HIDE DEF n, kept
<1>6. DOMAIN filters' = DOMAIN filters /\ Len(filters') = Len(filters)
    BY <1>1, <1>3, <1>5, AddToFirstType
<1>7. LeftInRange'
    BY <1>2, <1>6 DEF LeftInRange, BInv
<1>8. Logged'
    <2>1. ASSUME NEW r, HasEntry(r) PROVE HasEntry(r)'
        BY <1>2, <2>1 DEF HasEntry
    <2>2. HasEntry([token |-> token, exp |-> exp])'
        BY <1>1, <1>2 DEF HasEntry
    <2>3. InLog' \subseteq InLog \cup {[token |-> token, exp |-> exp]}
        BY <1>1 DEF InLog
    <2> QED  BY <2>1, <2>2, <2>3 DEF BInv, Logged
<1>9. BitsExact'
    <2> SUFFICES ASSUME NEW i \in DOMAIN filters'
                 PROVE  filters'[i].bits =
                           UNION {CalcHashIndices(filters'[i], e.site, e.token) :
                                    e \in {d \in issued' : d.left >= i}}
        BY DEF BitsExact
    <2> DEFINE idx(e) == CalcHashIndices(filters[i], e.site, e.token)
    <2>1. i \in 1..Len(filters) /\ filters[i] \in Filter /\ i \in DOMAIN filters
        BY <1>3, <1>6
    <2>2. filters[i].bits = UNION {idx(e) : e \in {d \in issued : d.left >= i}}
        BY <2>1 DEF BInv, BitsExact
    <2>3. filters'[i].size = filters[i].size /\ filters'[i].hashNum = filters[i].hashNum
          /\ filters'[i].bits = filters[i].bits \cup (IF kept /\ i <= n THEN idx(new) ELSE {})
        <3>1. CASE kept /\ i <= n
            <4>1. filters'[i] = Add(filters[i], site, token)
                BY <1>1, <2>1, <3>1 DEF AddToFirst
            <4> QED  BY <1>2, <2>1, <3>1, <4>1, AddType
        <3>2. CASE kept /\ ~(i <= n)
            BY <1>1, <2>1, <3>2 DEF AddToFirst
        <3>3. CASE ~kept
            BY <1>1, <3>3
        <3> QED  BY <3>1, <3>2, <3>3
    <2>4. new.left >= i <=> kept /\ i <= n
        BY <1>2, <1>3, <1>5, <2>1
    <2>5. \A e : CalcHashIndices(filters'[i], e.site, e.token) = idx(e)
        BY <2>3, IndicesSame
    <2> HIDE DEF idx
    <2>6. UNION {idx(e) : e \in {d \in issued' : d.left >= i}} =
            (UNION {idx(e) : e \in {d \in issued : d.left >= i}})
              \cup (IF new.left >= i THEN idx(new) ELSE {})
        BY <1>2
    <2>7. {CalcHashIndices(filters'[i], e.site, e.token) : e \in {d \in issued' : d.left >= i}} =
            {idx(e) : e \in {d \in issued' : d.left >= i}}
        BY <2>5
    <2> QED  BY <2>2, <2>3, <2>4, <2>6, <2>7
<1> QED  BY <1>7, <1>8, <1>9 DEF BInv

LEMMA BInvRotate ==
    ASSUME TInv, BInv, Rotate
    PROVE  BInv'
<1>1. CASE Die
    BY <1>1, BInvDie
<1>2. CASE /\ ValidFilter(param.bloomFilterSize, param.hashFunctionNum)
           /\ filters' = Rotated(filters, param)
           /\ issued' = {Aged(e) : e \in issued}
           /\ UNCHANGED <<adj, pending, logQueue, logFiles>>
    <2>1. /\ filters' = Rotated(filters, param)
          /\ issued' = {Aged(e) : e \in issued}
          /\ UNCHANGED <<adj, pending, logQueue, logFiles>>
        BY <1>2
    <2>2. filters \in Seq(Filter) /\ issued \subseteq Entry
        BY DEF TInv, TypeOK
    <2>3. Len(filters') = Len(filters) /\ filters' \in Seq(Filter)
        BY <1>2, <2>1, <2>2, RotatedType DEF TInv, TypeOK
    <2>4. \A e : Aged(e).token = e.token /\ Aged(e).exp = e.exp /\ Aged(e).site = e.site
                /\ Aged(e).left = IF e.left = 0 THEN 0 ELSE e.left - 1
        BY DEF Aged, Keep
    <2>5. \A e \in issued : e.left \in Nat /\ e.left <= Len(filters)
        BY <2>2 DEF BInv, LeftInRange, Entry
    <2>6. LeftInRange'
        BY <2>1, <2>3, <2>4, <2>5 DEF LeftInRange
    <2>7. Logged'
        <3>1. \A e \in issued : \E d \in issued' : d.token = e.token /\ d.exp = e.exp
            BY <2>1, <2>4
        <3>2. InLog' = InLog
            BY <2>1 DEF InLog
        <3> QED  BY <3>1, <3>2, LoggedKept DEF BInv
    <2>8. BitsExact'
        <3> SUFFICES ASSUME NEW i \in DOMAIN filters'
                     PROVE  filters'[i].bits =
                               UNION {CalcHashIndices(filters'[i], e.site, e.token) :
                                        e \in {d \in issued' : d.left >= i}}
            BY DEF BitsExact
        <3> DEFINE idx(e) == CalcHashIndices(filters'[i], e.site, e.token)
        <3>1. i \in 1..Len(filters)
            BY <2>3
        <3>2. CASE i = Len(filters)
            <4>1. filters'[i].bits = {}
                BY <2>1, <3>1, <3>2 DEF Rotated, NewFilter
            <4>2. {d \in issued' : d.left >= i} = {}
                BY <2>1, <2>2, <2>4, <2>5, <3>1, <3>2
            <4> QED  BY <4>1, <4>2
        <3>3. CASE i < Len(filters)
            <4>1. filters'[i] = filters[i + 1] /\ i + 1 \in DOMAIN filters
                BY <2>1, <2>2, <3>1, <3>3 DEF Rotated
            <4>2. filters'[i].bits = UNION {idx(e) : e \in {d \in issued : d.left >= i + 1}}
                BY <4>1 DEF BInv, BitsExact
            <4>3. \A e : idx(Aged(e)) = idx(e)
                BY <2>4
            <4>4. \A e \in issued : Aged(e).left >= i <=> e.left >= i + 1
                BY <2>4, <2>5, <3>1
            <4> HIDE DEF idx
            <4>5. UNION {idx(e) : e \in {d \in issued' : d.left >= i}} =
                  UNION {idx(e) : e \in {d \in issued : d.left >= i + 1}}
                BY <2>1, <4>3, <4>4
            <4> QED  BY <4>2, <4>5 DEF idx
        <3> QED  BY <2>2, <3>1, <3>2, <3>3
    <2> QED  BY <2>6, <2>7, <2>8 DEF BInv
<1> QED  BY <1>1, <1>2 DEF Rotate

\* The vector a recovery builds holds the bits of exactly what it leaves of
\* the history.
LEMMA BitsRecovered ==
    ASSUME TInv, NEW p \in Param, p.rotationInterval # 0, NEW site \in Site, NEW lines,
           NEW time \in Nat, BuiltFrom(filters', p, site, lines, time),
           issued' = {Recovered(e, p, site, lines, time) : e \in issued},
           \A r \in lines : HasEntry(r)
    PROVE  /\ BitsExact' /\ LeftInRange'
           /\ \A e \in issued : \E d \in issued' : d.token = e.token /\ d.exp = e.exp
<1> DEFINE rec(e) == Recovered(e, p, site, lines, time)
           line(e) == [token |-> e.token, exp |-> e.exp]
<1>1. issued \subseteq Entry /\ issued' = {rec(e) : e \in issued}
    BY DEF TInv, TypeOK
<1>2. \A r \in lines : r \in Record /\ InWindow(p, r.exp - time)
    BY DEF BuiltFrom
<1>3. Len(filters') = FiltersNum(p) /\ DOMAIN filters' = 1..FiltersNum(p) /\ FiltersNum(p) \in Nat
    BY FiltersNumType DEF BuiltFrom
<1>4. ASSUME NEW e \in issued
      PROVE  /\ rec(e) \in Entry /\ rec(e).token = e.token /\ rec(e).exp = e.exp
             /\ line(e) \in lines => /\ rec(e).site = site
                                    /\ rec(e).left = NumFilters(p, e.exp - time)
                                    /\ rec(e).left <= FiltersNum(p)
             /\ line(e) \notin lines => rec(e).left = 0
    BY <1>1, <1>2, RecoveredEntry
<1> HIDE DEF rec
<1>5. LeftInRange'
    <2>1. ASSUME NEW e \in issued PROVE rec(e).left <= Len(filters')
        <3> HIDE DEF line
        <3> QED  BY <1>3, <1>4
    <2> QED  BY <1>1, <2>1 DEF LeftInRange
<1>6. BitsExact'
    <2> SUFFICES ASSUME NEW i \in DOMAIN filters'
                 PROVE  filters'[i].bits =
                           UNION {CalcHashIndices(filters'[i], e.site, e.token) :
                                    e \in {d \in issued' : d.left >= i}}
        BY DEF BitsExact
    <2> DEFINE idx(s, t) == CalcHashIndices(filters'[i], s, t)
               taken == {q \in lines : NumFilters(p, q.exp - time) >= i}
    <2>1. i \in Nat /\ i > 0
        BY <1>3
    <2>2. filters'[i].bits = UNION {idx(site, r.token) : r \in taken}
        BY DEF BuiltFrom
    <2> HIDE DEF idx
    <2>3. ASSUME NEW r \in taken
          PROVE  \E d \in issued' : d.left >= i /\ idx(d.site, d.token) = idx(site, r.token)
        <3>1. PICK e \in issued : e.token = r.token /\ e.exp = r.exp
            BY DEF HasEntry
        <3>2. line(e) = r
            BY <1>2, <3>1 DEF Record
        <3>3. rec(e).left >= i /\ rec(e).site = site /\ rec(e).token = r.token
            BY <1>4, <3>1, <3>2
        <3> QED  BY <1>1, <3>3
    <2>4. ASSUME NEW d \in issued', d.left >= i
          PROVE  \E r \in taken : idx(d.site, d.token) = idx(site, r.token)
        <3>1. PICK e \in issued : d = rec(e)
            BY <1>1
        <3>2. line(e) \in lines
            BY <1>4, <2>1, <2>4, <3>1
        <3>3. line(e) \in taken /\ line(e).token = e.token
            BY <1>4, <2>4, <3>1, <3>2
        <3> HIDE DEF taken, line
        <3> QED  BY <1>4, <3>1, <3>2, <3>3 DEF line
    <2> HIDE DEF taken
    <2>5. UNION {idx(site, r.token) : r \in taken}
            = UNION {idx(e.site, e.token) : e \in {d \in issued' : d.left >= i}}
        BY <2>3, <2>4
    <2> QED  BY <2>2, <2>5 DEF idx
<1> QED  BY <1>1, <1>4, <1>5, <1>6

\* What is read from files was issued.
LEMMA TakenLogged ==
    ASSUME TInv, BInv, NEW p, NEW hours, hours \subseteq DOMAIN logFiles,
           NEW r \in LinesTaken(p, hours)
    PROVE  HasEntry(r)
<1>1. PICK l \in Lines(hours) : r = LineAt(l)
    BY DEF LinesTaken
<1>2. \E h \in hours : \E j \in DOMAIN logFiles[h] : r = logFiles[h][j]
    BY <1>1, LinesType DEF TInv, TypeOK
<1>3. r \in InLog
    BY <1>2 DEF InLog
<1> QED  BY <1>3 DEF BInv, Logged

LEMMA BInvStart ==
    ASSUME TInv, BInv, NEW p \in Params, Start(p)
    PROVE  BInv'
<1>1. /\ p \in Param /\ now \in Nat /\ CanRebuild(p)
      /\ UNCHANGED <<adj, pending, logQueue>>
      /\ FoundHours \subseteq DOMAIN logFiles
      /\ logFiles' = [h \in FoundHours |-> logFiles[h]]
    BY StartBuilds
<1>2. PICK read \in SUBSET FoundHours :
        /\ BuiltFrom(filters', p, "init", LinesTaken(p, read), now)
        /\ issued' = {Recovered(e, p, "init", LinesTaken(p, read), now) : e \in issued}
    BY StartBuilds
<1>3. \A r \in LinesTaken(p, read) : HasEntry(r)
    BY <1>1, TakenLogged
<1>4. /\ BitsExact' /\ LeftInRange'
      /\ \A e \in issued : \E d \in issued' : d.token = e.token /\ d.exp = e.exp
    BY <1>1, <1>2, <1>3, BitsRecovered DEF CanRebuild, Site
<1>5. InLog' \subseteq InLog
    BY <1>1 DEF InLog
<1>6. Logged'
    BY <1>4, <1>5, LoggedKept DEF BInv
<1> QED  BY <1>4, <1>6 DEF BInv

LEMMA BInvSweep ==
    ASSUME TInv, BInv, AdjustSweep
    PROVE  BInv'
<1> DEFINE mark(e) == IF e.flushed \in adj.found THEN e ELSE [e EXCEPT !.flushed = -1]
<1>1. /\ adj.at = "scanned" /\ adj' = [adj EXCEPT !.at = "swept"]
      /\ logFiles' = [h \in adj.found |-> logFiles[h]]
      /\ issued' = {mark(e) : e \in issued}
      /\ UNCHANGED <<filters, pending, logQueue>>
    BY DEF AdjustSweep
<1>2. adj'.lines = adj.lines /\ adj.found \subseteq DOMAIN logFiles
    BY <1>1 DEF TInv, TypeOK, Adjust, Adjusting
<1>3. \A e \in issued : /\ mark(e).token = e.token /\ mark(e).exp = e.exp
                         /\ mark(e).site = e.site /\ mark(e).left = e.left
    BY DEF TInv, TypeOK, Entry
<1> HIDE DEF mark
<1>4. Logged'
    <2>1. InLog' \subseteq InLog
        BY <1>1, <1>2 DEF InLog
    <2> QED  BY <1>1, <1>3, <2>1, LoggedKept DEF BInv
<1>5. LeftInRange'
    BY <1>1, <1>3 DEF BInv, LeftInRange
<1>6. BitsExact'
    <2> SUFFICES ASSUME NEW i \in DOMAIN filters
                 PROVE  filters[i].bits =
                           UNION {CalcHashIndices(filters[i], e.site, e.token) :
                                    e \in {d \in issued' : d.left >= i}}
        BY <1>1 DEF BitsExact
    <2> DEFINE idx(e) == CalcHashIndices(filters[i], e.site, e.token)
    <2>1. filters[i].bits = UNION {idx(e) : e \in {d \in issued : d.left >= i}}
        BY DEF BInv, BitsExact
    <2>2. \A e \in issued : idx(mark(e)) = idx(e)
        BY <1>3
    <2> HIDE DEF idx
    <2>3. {idx(e) : e \in {d \in issued' : d.left >= i}} = {idx(e) : e \in {d \in issued : d.left >= i}}
        BY <1>1, <1>3, <2>2
    <2> QED  BY <2>1, <2>3 DEF idx
<1> QED  BY <1>4, <1>5, <1>6 DEF BInv

LEMMA BInvLoad ==
    ASSUME TInv, BInv, AdjustLoad
    PROVE  BInv'
<1>1. UNCHANGED <<filters, pending, logQueue, logFiles, issued>>
    BY DEF AdjustLoad
<1>2. PICK read : read \subseteq DOMAIN logFiles /\ adj'.lines = LinesTaken(param, read)
    BY LoadBuilds
<1>3. \A r \in adj'.lines : HasEntry(r)
    BY <1>2, TakenLogged
<1>4. Logged'
    <2>1. InLog' \subseteq InLog \cup adj'.lines
        BY <1>1 DEF InLog
    <2>2. \A r : HasEntry(r) => HasEntry(r)'
        BY <1>1 DEF HasEntry
    <2> QED  BY <1>3, <2>1, <2>2 DEF BInv, Logged
<1> QED  BY <1>1, <1>4 DEF BInv, BitsExact, LeftInRange

LEMMA BInvSwap ==
    ASSUME TInv, BInv, AdjustSwap
    PROVE  BInv'
<1>1. /\ param \in Param /\ CanRebuild(param)
      /\ adj.time \in Nat /\ adj' = NoAdjust
      /\ BuiltFrom(filters', param, "adjust", adj.lines, adj.time)
      /\ issued' = {Recovered(e, param, "adjust", adj.lines, adj.time) : e \in issued}
      /\ UNCHANGED <<pending, logQueue, logFiles>>
    BY SwapBuilds
<1>2. \A r \in adj.lines : HasEntry(r)
    BY DEF BInv, Logged, InLog
<1>3. /\ BitsExact' /\ LeftInRange'
      /\ \A e \in issued : \E d \in issued' : d.token = e.token /\ d.exp = e.exp
    BY <1>1, <1>2, BitsRecovered DEF CanRebuild, Site
<1>4. InLog' \subseteq InLog
    BY <1>1 DEF InLog, NoAdjust
<1>5. Logged'
    BY <1>3, <1>4, LoggedKept DEF BInv
<1> QED  BY <1>3, <1>5 DEF BInv

LEMMA BInvScan ==
    ASSUME TInv, BInv, NEW p \in Params, AdjustScan(p)
    PROVE  BInv'
<1>1. CASE Die
    BY <1>1, BInvDie
<1>2. CASE /\ \E s \in Scans :
                adj' = [NoAdjust EXCEPT !.at = "scanned", !.found = s.found,
                                        !.due = s.due, !.before = Cardinality(issued)]
           /\ UNCHANGED <<filters, pending, logQueue, logFiles, issued>>
    <2>1. adj'.lines = {}
        BY <1>2 DEF NoAdjust
    <2>2. InLog' \subseteq InLog
        BY <1>2, <2>1 DEF InLog
    <2>3. Logged'
        BY <1>2, <2>2, LoggedKept DEF BInv
    <2> QED  BY <1>2, <2>3 DEF BInv, BitsExact, LeftInRange
<1> QED  BY <1>1, <1>2 DEF AdjustScan

LEMMA BInvLogRevoke ==
    ASSUME TInv, BInv, LogRevoke
    PROVE  BInv'
<1>1. PICK r \in pending : logQueue' = Append(logQueue, r)
    BY DEF LogRevoke
<1>2. pending' = {} /\ UNCHANGED <<filters, adj, logFiles, issued>>
    BY DEF LogRevoke
<1>3. logQueue \in Seq(Record)
    BY DEF TInv, TypeOK
<1>4. \A i \in DOMAIN logQueue' : logQueue'[i] = r \/ (i \in DOMAIN logQueue /\ logQueue'[i] = logQueue[i])
    BY <1>1, <1>3
<1>5. InLog' \subseteq InLog
    BY <1>1, <1>2, <1>4 DEF InLog
<1>6. Logged'
    BY <1>2, <1>5, LoggedKept DEF BInv
<1> QED  BY <1>2, <1>6 DEF BInv, BitsExact, LeftInRange

LEMMA BInvLogWrite ==
    ASSUME TInv, BInv, LogWrite
    PROVE  BInv'
<1> DEFINE r == Head(logQueue)
           h == HourOf(now)
           old == IF h \in DOMAIN logFiles THEN logFiles[h] ELSE <<>>
           mark(e) == IF e.token = r.token /\ e.exp = r.exp THEN [e EXCEPT !.flushed = h] ELSE e
<1>1. /\ logQueue # <<>> /\ logQueue' = Tail(logQueue)
      /\ UNCHANGED <<filters, adj, pending>>
    BY DEF LogWrite
<1>2. logQueue \in Seq(Record) /\ issued \subseteq Entry /\ FilesOK
    BY DEF TInv, TypeOK
<1>3. r \in InLog /\ {logQueue'[i] : i \in DOMAIN logQueue'} \subseteq {logQueue[i] : i \in DOMAIN logQueue}
    <2>1. \A i \in DOMAIN logQueue' : i + 1 \in DOMAIN logQueue /\ logQueue'[i] = logQueue[i + 1]
        BY <1>1, <1>2
    <2>2. r = logQueue[1] /\ 1 \in DOMAIN logQueue
        BY <1>1, <1>2
    <2> QED  BY <2>1, <2>2 DEF InLog
<1>4. CASE UNCHANGED <<logFiles, issued>>
    <2>1. InLog' \subseteq InLog
        BY <1>1, <1>3, <1>4 DEF InLog
    <2>2. Logged'
        BY <1>4, <2>1, LoggedKept DEF BInv
    <2> QED  BY <1>1, <1>4, <2>2 DEF BInv, BitsExact, LeftInRange
<1>5. CASE /\ logFiles' = [k \in DOMAIN logFiles \cup {h} |->
                              IF k = h THEN Append(old, r) ELSE logFiles[k]]
           /\ issued' = {mark(e) : e \in issued}
    <2>1. \A e \in issued : /\ mark(e).token = e.token /\ mark(e).exp = e.exp
                             /\ mark(e).site = e.site /\ mark(e).left = e.left
        BY <1>2 DEF Entry
    <2>2. old \in Seq(Record)
        BY <1>2 DEF FilesOK
    <2> HIDE DEF mark, old, h
    <2>3. InLog' \subseteq InLog
        <3>1. ASSUME NEW i \in 1..Len(Append(old, r))
              PROVE  Append(old, r)[i] \in InLog
            <4>1. Append(old, r)[i] = r \/ (i \in DOMAIN old /\ Append(old, r)[i] = old[i])
                BY <2>2, <3>1
            <4>2. i \in DOMAIN old => h \in DOMAIN logFiles /\ old = logFiles[h]
                BY <2>2 DEF old
            <4>3. (i \in DOMAIN old) => old[i] \in InLog
                BY <4>2 DEF InLog
            <4> QED  BY <1>3, <4>1, <4>3
        <3>2. DOMAIN Append(old, r) = 1..Len(Append(old, r))
            BY <2>2
        <3>3. \A k \in DOMAIN logFiles' : \A i \in DOMAIN logFiles'[k] : logFiles'[k][i] \in InLog
            <4> SUFFICES ASSUME NEW k \in DOMAIN logFiles', NEW i \in DOMAIN logFiles'[k]
                         PROVE  logFiles'[k][i] \in InLog
                OBVIOUS
            <4>1. CASE k = h
                <5>1. logFiles'[k] = Append(old, r)
                    BY <1>5, <4>1
                <5> QED  BY <3>1, <3>2, <5>1
            <4>2. CASE k # h
                BY <1>5, <4>2 DEF InLog
            <4> QED  BY <4>1, <4>2
        <3> HIDE DEF r
        <3> QED  BY <1>1, <1>3, <3>3 DEF InLog
    <2>4. Logged'
        BY <1>5, <2>1, <2>3, LoggedKept DEF BInv
    <2>5. LeftInRange'
        BY <1>1, <1>5, <2>1 DEF BInv, LeftInRange
    <2>6. BitsExact'
        <3> SUFFICES ASSUME NEW i \in DOMAIN filters
                     PROVE  filters[i].bits =
                               UNION {CalcHashIndices(filters[i], e.site, e.token) :
                                        e \in {d \in issued' : d.left >= i}}
            BY <1>1 DEF BitsExact
        <3> DEFINE idx(e) == CalcHashIndices(filters[i], e.site, e.token)
        <3>1. filters[i].bits = UNION {idx(e) : e \in {d \in issued : d.left >= i}}
            BY DEF BInv, BitsExact
        <3>2. \A e \in issued : idx(mark(e)) = idx(e)
            BY <2>1
        <3> HIDE DEF idx
        <3>3. {idx(e) : e \in {d \in issued' : d.left >= i}} = {idx(e) : e \in {d \in issued : d.left >= i}}
            BY <1>5, <2>1, <3>2
        <3> QED  BY <3>1, <3>3 DEF idx
    <2> QED  BY <2>4, <2>5, <2>6 DEF BInv
<1> QED  BY <1>4, <1>5 DEF LogWrite

LEMMA BInvNext ==
    ASSUME TInv, BInv, [Next]_vars
    PROVE  BInv'
<1>1. CASE Tick \/ SpuriousWakeup \/ UNCHANGED vars
    <2>1. UNCHANGED <<filters, adj, pending, logQueue, logFiles, issued>>
        BY <1>1 DEF Tick, SpuriousWakeup, vars
    <2>2. Logged'
        <3>1. InLog' = InLog
            BY <2>1 DEF InLog
        <3> QED  BY <2>1, <3>1, LoggedKept DEF BInv
    <2> QED  BY <2>1, <2>2 DEF BInv, BitsExact, LeftInRange
<1>2. CASE Die
    BY <1>2, BInvDie
<1>3. ASSUME NEW p \in Params, Start(p) PROVE BInv'
    BY <1>3, BInvStart
<1>4. ASSUME NEW p \in Params, AdjustScan(p) PROVE BInv'
    BY <1>4, BInvScan
<1>5. ASSUME NEW t \in Token, NEW x \in Exps, MasterRevoke(t, x) PROVE BInv'
    <2>1. pending' = {[token |-> t, exp |-> x]} /\ RevokeJwt("revoke", t, x)
        BY <1>5 DEF MasterRevoke
    <2> QED  BY <2>1, BInvRevoke DEF Site
<1>6. ASSUME NEW t \in Token, NEW x \in Exps, ProxyRevoke(t, x) PROVE BInv'
    <2>1. pending' = pending /\ RevokeJwt("proxy", t, x)
        BY <1>6 DEF ProxyRevoke
    <2> QED  BY <2>1, BInvRevoke DEF Site
<1>7. CASE LogRevoke
    BY <1>7, BInvLogRevoke
<1>8. CASE LogWrite
    BY <1>8, BInvLogWrite
<1>9. CASE Rotate
    BY <1>9, BInvRotate
<1>10. CASE AdjustSweep \/ AdjustLoad \/ AdjustSwap
    BY <1>10, BInvSweep, BInvLoad, BInvSwap
<1> QED  BY <1>1, <1>2, <1>3, <1>4, <1>5, <1>6, <1>7, <1>8, <1>9, <1>10 DEF Next

LEMMA BInvInit ==
    Init => BInv
<1> SUFFICES ASSUME Init PROVE BInv
    OBVIOUS
<1>1. filters = <<>> /\ pending = {} /\ logQueue = <<>> /\ logFiles = <<>> /\ issued = {}
      /\ adj.lines = {}
    BY DEF Init, NoAdjust
<1>2. DOMAIN filters = {} /\ DOMAIN logQueue = {} /\ DOMAIN logFiles = {}
    BY <1>1
<1> QED  BY <1>1, <1>2 DEF BInv, BitsExact, LeftInRange, Logged, InLog

LEMMA BInvAlways ==
    Spec => [](TInv /\ BInv)
<1>1. TInv /\ BInv /\ [Next]_vars => TInv' /\ BInv'
    BY TInvNext, BInvNext
<1> QED  BY TInvInit, BInvInit, <1>1, PTL DEF Spec

\* The bits of every filter are those of the revocations whose depth reaches
\* it: through any number of inserts, rotations, parameter changes and
\* restarts no bit is lost before its time, and none survives it.
THEOREM FiltersHoldExactlyTheRevocations ==
    Spec => []BitsExact
<1>1. BInv => BitsExact
    BY DEF BInv
<1> QED  BY <1>1, BInvAlways, PTL

-----------------------------------------------------------------------------
(* How deep a revocation still is, and the clock *)

Interval == param.rotationInterval

\* Either no rotation came before its time since the depth of e was fixed, or
\* the next one is late enough.
InTime(e) ==
    \/ e.exp - now < (e.left + 1) * Interval
    \/ e.kept = "aged" /\ e.exp - rotateAt < (e.left + 1) * Interval

CInv ==
    Steady =>
        /\ rotateAt <= now + Interval
        /\ \A e \in issued : e.kept # "out" => InTime(e)

LEMMA CInvTime ==
    ASSUME TInv, CInv, Tick \/ SpuriousWakeup \/ UNCHANGED vars
    PROVE  CInv'
<1>1. UNCHANGED <<up, param, adj, issued>> /\ Interval' = Interval /\ now' \in Nat /\ now \in Nat
      /\ rotateAt \in Nat /\ rotateAt' \in Nat /\ now' >= now
    BY DEF Tick, SpuriousWakeup, vars, Interval, TInv, TypeOK, Param
<1> SUFFICES ASSUME Steady
             PROVE  /\ rotateAt' <= now' + Interval
                    /\ \A e \in issued : e.kept # "out" => InTime(e)'
    BY <1>1 DEF CInv, Steady
<1>2. Interval \in Nat
    BY DEF Interval, TInv, TypeOK, Param
<1>3. rotateAt' <= now' + Interval /\ rotateAt' >= rotateAt
    BY <1>1, <1>2 DEF CInv, Tick, SpuriousWakeup, vars, Interval
<1>4. ASSUME NEW e \in issued, e.kept # "out" PROVE InTime(e)'
    <2>1. InTime(e)
        BY <1>4 DEF CInv
    <2>2. e.exp \in Nat /\ e.left \in Nat
        BY DEF TInv, TypeOK, Entry
    <2>3. (e.left + 1) * Interval \in Nat
        BY <1>2, <2>2, OneMore
    <2> QED  BY <1>1, <1>3, <2>1, <2>2, <2>3 DEF InTime
<1> QED  BY <1>3, <1>4

LEMMA CInvRevoke ==
    ASSUME TInv, CInv, NEW site \in Site, NEW token \in Token, NEW exp \in Exps,
           RevokeJwt(site, token, exp)
    PROVE  CInv'
<1> DEFINE n == NumFilters(param, exp - now)
<1>1. up /\ UNCHANGED <<now, up, param, rotateAt, adj>>
    BY DEF RevokeJwt
<1>2. PICK new \in Entry :
        /\ issued' = issued \cup {new} /\ new.exp = exp
        /\ InWindow(param, exp - now) => (Steady => new.left = n)
        /\ ~InWindow(param, exp - now) => new.kept = "out"
    BY <1>1, IssueType DEF RevokeJwt
<1>3. Steady /\ new.kept # "out" => InTime(new)
    <2>1. SUFFICES ASSUME InWindow(param, exp - now), Steady
                   PROVE  new.exp - now < (new.left + 1) * Interval
        BY <1>2 DEF InTime
    <2>2. exp - now \in Nat
        BY <2>1, ConstAssumption DEF TInv, TypeOK, InWindow
    <2>3. Interval \in Nat \ {0}
        BY <1>1 DEF Interval, TInv, TypeOK, Shape, CanRebuild, Param
    <2>4. exp - now < (n + 1) * Interval
        BY <2>2, <2>3, DivStrict DEF NumFilters, Interval
    <2>5. new.left = n
        BY <1>2, <2>1
    <2> HIDE DEF n
    <2> QED  BY <1>2, <2>4, <2>5
<1>4. Interval' = Interval /\ Steady' = Steady /\ \A e : InTime(e)' <=> InTime(e)
    BY <1>1 DEF InTime, Interval, Steady
<1> QED  BY <1>1, <1>2, <1>3, <1>4 DEF CInv

\* A recovery fixes the depth of what it takes for the time it reads it, and
\* that serves a swap not before it.
LEMMA RecoveredInTime ==
    ASSUME TInv, NEW p \in Param, p.rotationInterval # 0, NEW site \in Site, NEW lines,
           NEW time \in Nat, time <= now, BuiltFrom(filters', p, site, lines, time),
           issued' = {Recovered(e, p, site, lines, time) : e \in issued},
           now' = now, param' = p
    PROVE  \A d \in issued' : d.kept # "out" => InTime(d)'
<1> SUFFICES ASSUME NEW d \in issued', d.kept # "out" PROVE InTime(d)'
    OBVIOUS
<1>1. PICK e \in issued : d = Recovered(e, p, site, lines, time)
    OBVIOUS
<1>2. e \in Entry /\ now \in Nat /\ \A r \in lines : r \in Record /\ InWindow(p, r.exp - time)
    BY DEF TInv, TypeOK, BuiltFrom
<1>3. /\ d.exp = e.exp /\ InWindow(p, e.exp - time) /\ d.left = NumFilters(p, e.exp - time)
    <2> DEFINE rec == Recovered(e, p, site, lines, time)
               r == [token |-> e.token, exp |-> e.exp]
    <2>1. /\ rec.exp = e.exp
          /\ r \in lines => /\ InWindow(p, e.exp - time)
                            /\ rec.left = NumFilters(p, e.exp - time)
          /\ r \notin lines => rec.kept = "out"
        BY <1>2, RecoveredEntry
    <2>2. d = rec
        BY <1>1
    <2> HIDE DEF rec, r
    <2> QED  BY <2>1, <2>2
<1>4. e.exp \in Nat /\ e.exp - time \in Nat
    BY <1>2, <1>3 DEF InWindow, Entry
<1>5. p.rotationInterval \in Nat \ {0}
    BY DEF Param
<1>6. e.exp - time < (d.left + 1) * p.rotationInterval /\ d.left \in Nat
    BY <1>3, <1>4, <1>5, DivStrict, DivType DEF NumFilters
<1>7. (d.left + 1) * p.rotationInterval \in Nat
    BY <1>5, <1>6, OneMore
<1>8. d.exp - now' < (d.left + 1) * Interval'
    <2> DEFINE bound == (d.left + 1) * p.rotationInterval
    <2>1. e.exp - time < bound /\ bound \in Nat
        BY <1>6, <1>7
    <2> HIDE DEF bound
    <2>2. e.exp - now < bound
        BY <1>2, <1>4, <2>1
    <2> QED  BY <1>3, <2>2 DEF bound, Interval
<1> QED  BY <1>8 DEF InTime

LEMMA CInvStart ==
    ASSUME TInv, NEW p \in Params, Start(p)
    PROVE  CInv'
<1>1. /\ p \in Param /\ now \in Nat /\ CanRebuild(p) /\ param' = p
      /\ rotateAt' = now + p.rotationInterval /\ now' = now
    BY StartBuilds
<1>2. PICK read \in SUBSET FoundHours :
        /\ BuiltFrom(filters', p, "init", LinesTaken(p, read), now)
        /\ issued' = {Recovered(e, p, "init", LinesTaken(p, read), now) : e \in issued}
    BY StartBuilds
<1>3. now <= now
    BY <1>1
<1>4. \A d \in issued' : d.kept # "out" => InTime(d)'
    BY <1>1, <1>2, <1>3, RecoveredInTime DEF CanRebuild, Site
<1>5. rotateAt' <= now' + Interval'
    BY <1>1 DEF Interval, Param
<1> QED  BY <1>4, <1>5 DEF CInv

LEMMA CInvSwap ==
    ASSUME TInv, AdjustSwap
    PROVE  CInv'
<1>1. /\ param \in Param /\ CanRebuild(param)
      /\ adj.time \in Nat /\ adj.time <= now /\ now \in Nat
      /\ BuiltFrom(filters', param, "adjust", adj.lines, adj.time)
      /\ rotateAt' = now + param.rotationInterval \/ (rotateAt <= now /\ rotateAt' = rotateAt)
      /\ issued' = {Recovered(e, param, "adjust", adj.lines, adj.time) : e \in issued}
      /\ UNCHANGED <<now, param>>
    BY SwapBuilds
<1>2. \A d \in issued' : d.kept # "out" => InTime(d)'
    BY <1>1, RecoveredInTime DEF CanRebuild, Site
<1>3. rotateAt' <= now' + Interval'
    BY <1>1 DEF Interval, Param, TInv, TypeOK
<1> QED  BY <1>2, <1>3 DEF CInv

\* While an adjustment runs nothing is said.
LEMMA CInvUnsteady ==
    ASSUME ~Steady'
    PROVE  CInv'
BY DEF CInv

LEMMA CInvAdjust ==
    ASSUME TInv, (\E p \in Params : AdjustScan(p)) \/ AdjustSweep \/ AdjustLoad
    PROVE  CInv'
<1>1. CASE Die
    BY <1>1, CInvUnsteady DEF Die, Steady
<1>2. CASE \E s \in Scans :
                adj' = [NoAdjust EXCEPT !.at = "scanned", !.found = s.found,
                                        !.due = s.due, !.before = Cardinality(issued)]
    BY <1>2, CInvUnsteady DEF NoAdjust, Steady
<1>3. CASE adj' = [adj EXCEPT !.at = "swept"]
    BY <1>3, CInvUnsteady DEF Steady, TInv, TypeOK, Adjust
<1>4. CASE AdjustLoad
    BY <1>4, LoadBuilds, CInvUnsteady DEF Steady
<1> QED  BY <1>1, <1>2, <1>3, <1>4 DEF AdjustScan, AdjustSweep

LEMMA CInvRotate ==
    ASSUME TInv, CInv, Rotate
    PROVE  CInv'
<1>1. CASE Die
    BY <1>1, CInvUnsteady DEF Die, Steady
<1>2. CASE /\ rotateAt' = now + param.rotationInterval
           /\ issued' = {Aged(e) : e \in issued}
           /\ UNCHANGED <<now, up, param, adj>>
    <2> SUFFICES ASSUME Steady'
                 PROVE  CInv'
        BY CInvUnsteady
    <2>0. Steady
        BY <1>2 DEF Steady
    <2>1. /\ rotateAt' = now + Interval
          /\ issued' = {Aged(e) : e \in issued}
          /\ UNCHANGED <<now, up, param>>
          /\ up /\ now >= rotateAt /\ Interval' = Interval
        BY <1>2 DEF Rotate, RotationDue, Interval
    <2>2. now \in Nat /\ rotateAt \in Nat /\ Interval \in Nat
        BY DEF Interval, TInv, TypeOK, Param
    <2>3. ASSUME NEW e \in issued, Aged(e).kept # "out" PROVE InTime(Aged(e))'
        <3>1. e \in Entry
            BY DEF TInv, TypeOK
        <3>2. /\ Aged(e).exp = e.exp
              /\ Aged(e).kept = IF e.kept = "fresh" THEN "aged" ELSE e.kept
              /\ Aged(e).left = IF e.left = 0 THEN 0 ELSE e.left - 1
            BY DEF Aged, Keep
        <3>3. Aged(e).kept = "aged" /\ e.kept # "out"
            BY <2>3, <3>1, <3>2 DEF Entry
        <3>4. InTime(e)
            BY <2>0, <3>3 DEF CInv
        <3>5. e.exp \in Nat /\ e.left \in Nat /\ (e.left + 1) * Interval \in Nat
            BY <2>2, <3>1, OneMore DEF Entry
        <3>6. e.exp - now < (e.left + 1) * Interval
            BY <2>1, <2>2, <3>4, <3>5 DEF InTime
        <3>7. (e.exp - now) - Interval < e.left * Interval
            BY <2>2, <3>5, <3>6, Later
        <3>8. (e.exp - now) - Interval < (Aged(e).left + 1) * Interval
            <4>1. CASE e.left = 0
                BY <2>2, <3>2, <3>5, <3>6, <4>1
            <4>2. CASE e.left # 0
                <5>1. Aged(e).left + 1 = e.left
                    BY <3>2, <3>5, <4>2
                <5> QED  BY <3>7, <5>1
            <4> QED  BY <4>1, <4>2
        <3>9. e.exp - rotateAt' = (e.exp - now) - Interval
            BY <2>1, <2>2, <3>5
        <3> QED  BY <2>1, <3>2, <3>3, <3>8, <3>9 DEF InTime
    <2> QED  BY <2>1, <2>2, <2>3 DEF CInv
<1> QED  BY <1>1, <1>2 DEF Rotate

LEMMA CInvLog ==
    ASSUME TInv, CInv, LogRevoke \/ LogWrite
    PROVE  CInv'
<1>1. UNCHANGED <<now, up, param, rotateAt, adj>>
    BY DEF LogRevoke, LogWrite
<1>2. \A e \in issued' : \E d \in issued : e.exp = d.exp /\ e.left = d.left /\ e.kept = d.kept
    <2>1. issued \subseteq Entry
        BY DEF TInv, TypeOK
    <2>2. CASE issued' = issued
        BY <2>2
    <2>3. CASE issued' = {IF e.token = Head(logQueue).token /\ e.exp = Head(logQueue).exp
                          THEN [e EXCEPT !.flushed = HourOf(now)] ELSE e : e \in issued}
        <3> SUFFICES ASSUME NEW d \in issued
                     PROVE  LET e == IF d.token = Head(logQueue).token /\ d.exp = Head(logQueue).exp
                                     THEN [d EXCEPT !.flushed = HourOf(now)] ELSE d
                            IN  e.exp = d.exp /\ e.left = d.left /\ e.kept = d.kept
            BY <2>3
        <3> QED  BY <2>1 DEF Entry
    <2>4. CASE LogRevoke
        BY <2>2, <2>4 DEF LogRevoke
    <2>5. CASE LogWrite
        BY <2>2, <2>3, <2>5, Zenon DEF LogWrite
    <2> QED  BY <2>4, <2>5
<1>3. Interval' = Interval
    BY <1>1 DEF Interval
<1> QED  BY <1>1, <1>2, <1>3 DEF CInv, InTime, Steady

LEMMA CInvNext ==
    ASSUME TInv, CInv, [Next]_vars
    PROVE  CInv'
<1>1. CASE Tick \/ SpuriousWakeup \/ UNCHANGED vars
    BY <1>1, CInvTime
<1>2. CASE Die
    BY <1>2, CInvUnsteady DEF Die, Steady
<1>3. ASSUME NEW p \in Params, Start(p) PROVE CInv'
    BY <1>3, CInvStart
<1>4. CASE (\E p \in Params : AdjustScan(p)) \/ AdjustSweep \/ AdjustLoad
    BY <1>4, CInvAdjust
<1>5. ASSUME NEW t \in Token, NEW x \in Exps, MasterRevoke(t, x) PROVE CInv'
    BY <1>5, CInvRevoke DEF MasterRevoke, Site
<1>6. ASSUME NEW t \in Token, NEW x \in Exps, ProxyRevoke(t, x) PROVE CInv'
    BY <1>6, CInvRevoke DEF ProxyRevoke, Site
<1>7. CASE LogRevoke \/ LogWrite
    BY <1>7, CInvLog
<1>8. CASE Rotate
    BY <1>8, CInvRotate
<1>9. CASE AdjustSwap
    BY <1>9, CInvSwap
<1> QED  BY <1>1, <1>2, <1>3, <1>4, <1>5, <1>6, <1>7, <1>8, <1>9 DEF Next

\* The conjunction of the three layers, inductive.
IInv == TInv /\ BInv /\ CInv

LEMMA IInvAlways ==
    Spec => []IInv
<1>1. Init => CInv
    BY DEF Init, CInv, Steady
<1>2. IInv /\ [Next]_vars => IInv'
    BY TInvNext, BInvNext, CInvNext DEF IInv
<1>3. Init => IInv
    BY <1>1, TInvInit, BInvInit DEF IInv
<1> QED  BY <1>2, <1>3, PTL DEF Spec

\* A filter contains the revocations that still reach it, asked for from a call
\* site whose hash buffer lies where that of the insert lay.
LEMMA ContainsWhatReachesIt ==
    ASSUME TInv, BInv, NEW e \in issued, NEW i \in DOMAIN filters, i <= e.left,
           NEW site \in Site, BufAddr[site] = BufAddr[e.site]
    PROVE  Contains(filters[i], site, e.token)
<1>1. filters[i].bits = UNION {CalcHashIndices(filters[i], d.site, d.token) :
                                  d \in {c \in issued : c.left >= i}}
    BY DEF BInv, BitsExact
<1>2. e \in {c \in issued : c.left >= i}
    <2>1. e.left \in Nat /\ i \in Nat
        BY DEF TInv, TypeOK, Entry
    <2> QED  BY <2>1
<1>3. CalcHashIndices(filters[i], site, e.token) = CalcHashIndices(filters[i], e.site, e.token)
    BY DEF CalcHashIndices, HashSHA256
<1> QED  BY <1>1, <1>2, <1>3 DEF Contains

\* Depth against time: at most one filter is missing, and none before the
\* first rotation.
LEMMA DepthLeft ==
    ASSUME IInv, Steady, NEW e \in issued, e.kept # "out", InWindow(param, e.exp - now)
    PROVE  /\ NumFilters(param, e.exp - now) \in Nat
           /\ NumFilters(param, e.exp - now) <= Len(filters)
           /\ e.left \in Nat
           /\ NumFilters(param, e.exp - now) <= e.left + 1
           /\ e.kept = "fresh" => NumFilters(param, e.exp - now) <= e.left
<1> DEFINE rem == e.exp - now
<1>1. e.exp \in Nat /\ e.left \in Nat /\ now \in Nat /\ rotateAt \in Nat /\ param \in Param
    BY DEF IInv, TInv, TypeOK, Entry
<1>2. rem \in Nat
    BY <1>1 DEF InWindow
<1>3. Interval \in Nat \ {0} /\ FiltersNum(param) = Len(filters)
    BY <1>1 DEF Interval, IInv, TInv, Shape, CanRebuild, Steady, Param
<1>4. NumFilters(param, rem) \in Nat /\ NumFilters(param, rem) <= Len(filters)
    BY <1>1, <1>2, <1>3, DepthType DEF Interval
<1>5. InTime(e) /\ rotateAt <= now + Interval
    BY DEF IInv, CInv
<1>6. /\ (e.left + 2) * Interval = (e.left + 1) * Interval + Interval
      /\ (e.left + 1) * Interval \in Nat
    BY <1>1, <1>3, OneMore
<1>7. NumFilters(param, rem) <= e.left + 1
    <2>1. rem < (e.left + 2) * Interval
        <3>1. \/ e.exp - now < (e.left + 1) * Interval
              \/ e.exp - rotateAt < (e.left + 1) * Interval
            BY <1>5, Zenon DEF InTime
        <3>2. ASSUME NEW bound \in Int, e.exp - now < bound \/ e.exp - rotateAt < bound
              PROVE  e.exp - now < bound + Interval
            BY <1>1, <1>3, <1>5, <3>2, NearNow
        <3>3. (e.left + 1) * Interval \in Int
            BY <1>6
        <3>4. e.exp - now < (e.left + 1) * Interval + Interval
            BY <3>1, <3>2, <3>3, Zenon
        <3> QED  BY <1>6, <3>4
    <2>2. e.left + 1 \in Nat /\ rem < ((e.left + 1) + 1) * Interval
        BY <1>1, <2>1
    <2> QED  BY <1>2, <1>3, <2>2, DivLess DEF NumFilters, Interval
<1>8. e.kept = "fresh" => NumFilters(param, rem) <= e.left
    <2>1. SUFFICES ASSUME e.kept = "fresh" PROVE NumFilters(param, rem) <= e.left
        OBVIOUS
    <2>2. rem < (e.left + 1) * Interval
        BY <1>5, <2>1 DEF InTime
    <2> QED  BY <1>1, <1>2, <1>3, <2>2, DivLess DEF NumFilters, Interval
<1> QED  BY <1>1, <1>4, <1>7, <1>8

\* However the insert, the rotations and the query fall against each other, a
\* revocation the filters hold is missing from at most the last of the
\* filters consulted for it.
THEOREM AtMostOneFilterShort ==
    Spec => []OneFilterShort
<1>1. ASSUME IInv PROVE OneFilterShort
    <2> SUFFICES ASSUME Steady, NEW e \in issued, e.kept # "out", InWindow(param, e.exp - now),
                        NEW i \in 1..(NumFilters(param, e.exp - now) - 1)
                 PROVE  Contains(filters[i], e.site, e.token)
        BY DEF OneFilterShort
    <2>1. i \in DOMAIN filters /\ i <= e.left
        BY <1>1, DepthLeft DEF IInv, TInv, TypeOK
    <2>2. e.site \in Site
        BY <1>1 DEF IInv, TInv, TypeOK, Entry
    <2> QED  BY <1>1, <2>1, <2>2, ContainsWhatReachesIt DEF IInv
<1> QED  BY <1>1, IInvAlways, PTL

\* Until the first rotation after it, a revocation is answered "revoked", where
\* insert and query hash from the same address.
THEOREM NoFalseNegativeBeforeRotation ==
    Spec => []AnsweredUntilRotation
<1>1. ASSUME IInv PROVE AnsweredUntilRotation
    <2> SUFFICES ASSUME Steady, NEW e \in issued, e.kept = "fresh", InWindow(param, e.exp - now),
                        BufAddr[e.site] = BufAddr["query"]
                 PROVE  IsRevoked(e.token, e.exp)
        BY DEF AnsweredUntilRotation
    <2>1. ASSUME NEW i \in 1..NumFilters(param, e.exp - now)
          PROVE  Contains(filters[i], "query", e.token)
        <3>1. i \in DOMAIN filters /\ i <= e.left
            BY <1>1, DepthLeft DEF IInv, TInv, TypeOK
        <3> QED  BY <1>1, <3>1, ContainsWhatReachesIt DEF IInv, Site
    <2> QED  BY <2>1 DEF IsRevoked
<1> QED  BY <1>1, IInvAlways, PTL

\* A revocation is missed only while its remaining lifetime exceeds a multiple of
\* the interval by less than the time to the next rotation: it is found
\* again before that rotation comes (Engine.hpp:139, 159, 316, 322).
THEOREM FoundAgainBeforeRotation ==
    Spec => []MissedOnlyAfterRotation
<1>1. ASSUME IInv PROVE MissedOnlyAfterRotation
    <2> SUFFICES ASSUME Steady, NEW e \in issued, e.kept # "out", InWindow(param, e.exp - now),
                        BufAddr[e.site] = BufAddr["query"],
                        rotateAt - now <= (e.exp - now) % param.rotationInterval
                 PROVE  IsRevoked(e.token, e.exp)
        BY DEF MissedOnlyAfterRotation
    <2> DEFINE rem == e.exp - now
               n == NumFilters(param, rem)
    <2>1. e.exp \in Nat /\ now \in Nat /\ rotateAt \in Nat /\ e.left \in Nat /\ e.site \in Site
        BY <1>1 DEF IInv, TInv, TypeOK, Entry
    <2>2. rem \in Nat
        BY <2>1 DEF InWindow
    <2>3. Interval \in Nat \ {0}
        BY <1>1 DEF Interval, IInv, TInv, TypeOK, Shape, CanRebuild, Steady, Param
    <2>4. n \in Nat /\ n <= Len(filters) /\ (e.kept = "fresh" => n <= e.left)
        BY <1>1, DepthLeft
    <2>5. n <= e.left
        <3>1. InTime(e)
            BY <1>1 DEF IInv, CInv
        <3>2. rem % Interval \in Nat /\ rotateAt - now <= rem % Interval
            BY <2>2, <2>3, ModType DEF Interval
        <3>3. (e.left + 1) * Interval \in Nat
            BY <2>1, <2>3, OneMore
        <3>4. rem - (rem % Interval) < (e.left + 1) * Interval
            <4> DEFINE rest == rem % Interval
                       bound == (e.left + 1) * Interval
            <4>1. \/ e.exp - now < bound
                  \/ e.exp - rotateAt < bound
                BY <3>1 DEF InTime
            <4>2. rest \in Nat /\ rotateAt - now <= rest /\ bound \in Nat
                BY <3>2, <3>3
            <4> HIDE DEF rest, bound
            <4>3. (e.exp - now) - rest < bound
                BY <2>1, <4>1, <4>2
            <4> QED  BY <4>3 DEF rest, bound
        <3> QED  BY <2>1, <2>2, <2>3, <3>4, DivLessRest DEF NumFilters, Interval
    <2>6. ASSUME NEW i \in 1..n
          PROVE  Contains(filters[i], "query", e.token)
        <3>1. i \in DOMAIN filters /\ i <= e.left
            BY <1>1, <2>1, <2>4, <2>5 DEF IInv, TInv, TypeOK
        <3> QED  BY <1>1, <3>1, ContainsWhatReachesIt DEF IInv, Site
    <2> QED  BY <2>6 DEF IsRevoked
<1> QED  BY <1>1, IInvAlways, PTL

=============================================================================
