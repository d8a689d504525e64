-------------------------------- MODULE Engine --------------------------------
(***************************************************************************)
(* The rotating Bloom-filter engine of Engine.hpp with its log.            *)
(*                                                                         *)
(* The operations of the class: init (Start, whole: the threads it starts  *)
(* come after it), adjustFiltersParam (four steps, for the threads go on   *)
(* beside it: the parameters and the scan of the log's directory, the      *)
(* deletion of what the scan did not find, the reading, the swap),         *)
(* revokeJwt as the scheduler and as the server call it, logRevoke, one    *)
(* turn of logWorker, the two ways wait_for returns in                     *)
(* rotateBloomFilterWorker, and the death of the process.  isRevoked is a  *)
(* pure read, so it is the operator IsRevoked that the properties use.     *)
(* Inserts, rotations and queries that overlap are in EngineThreads; each  *)
(* is one step here.                                                       *)
(*                                                                         *)
(* Time is in seconds.  A log file is named by its hour (HourOf).          *)
(***************************************************************************)
EXTENDS BaseBloomFilter, Sequences

CONSTANTS
    Token,          \* the jwt strings
    Params,         \* the four numbers the master may send, as records
    Hour,           \* seconds covered by a log file (3600 in the code)
    LogHours,       \* log files looked at by a recovery (24 in the code)
    UIntRange,      \* how many values an unsigned int has (2^32)
    LogCapacity,    \* QUEUE_DEFAULT_MAXSIZE of ThreadSafeQueue (4096)
    MaxTime,        \* bound on the clock
    Exps,           \* the expiry times tokens may have
    MaxIssued       \* bound on the number of revocations

Param == [maxJwtLifeTime : Nat, rotationInterval : Nat,
          bloomFilterSize : Nat, hashFunctionNum : Nat]

ASSUME ConstAssumption ==
    /\ Params \subseteq Param
    /\ Hour \in Nat \ {0} /\ LogHours \in Nat \ {0}
    /\ UIntRange \in Nat \ {0} /\ LogCapacity \in Nat \ {0}
    /\ Exps \subseteq Nat /\ MaxTime \in Nat /\ MaxIssued \in Nat

\* The members before init.
NoParam == [maxJwtLifeTime |-> 0, rotationInterval |-> 0,
            bloomFilterSize |-> 0, hashFunctionNum |-> 0]

Record == [token : Token, exp : Nat]
Filter == [size : Nat \ {0}, hashNum : Nat, bits : SUBSET Nat, msgNum : Nat]

VARIABLES
    now,        \* system_clock, in seconds
    up,         \* the process runs and init has returned
    param,      \* maxJwtLifeTime, rotationInterval, bloomFilterSize, hashFunctionNum
    filters,    \* the vector of filters, filters[1] the oldest
    rotateAt,   \* when the rotation thread's wait_for times out
    adj,        \* how far the scheduler's thread is in adjustFiltersParam
    pending,    \* what the scheduler's thread has revoked and not yet logged
    logQueue,   \* lines on their way to logWorker
    logFiles,   \* hour -> lines, its domain the files of log_file_path
    unread,     \* history: files the last recovery found but did not read
    issued      \* history: every revocation, and what became of it

vars == <<now, up, param, filters, rotateAt, adj, pending, logQueue, logFiles, unread, issued>>

(***************************************************************************)
(* A history entry.  kept: "fresh" while the filters hold the token and    *)
(* have not rotated since, "aged" once they have, "out" when the token was *)
(* refused, or went with the process or with a rebuild.  site: where its   *)
(* bits were added, "query" (where none are) when it is out.  left: how    *)
(* many filters, from the first, still carry them.  flushed: the hour of   *)
(* the file its line was last written to, -1 if none.                      *)
(***************************************************************************)
Entry == [id : Nat, token : Token, exp : Nat, site : Site,
          kept : {"fresh", "aged", "out"}, left : Nat, flushed : Int]

Keep(e, site, kept, left) ==
    [id |-> e.id, token |-> e.token, exp |-> e.exp, site |-> site,
     kept |-> kept, left |-> left, flushed |-> e.flushed]

(***************************************************************************)
(* An adjustment under way.  found: the hours of the files it found;       *)
(* filters: its own vector.  History: lines: what it has read and taken;   *)
(* time: when; due: the lines that are in files when it looks for files;   *)
(* before: how many revocations there have been then.                      *)
(***************************************************************************)
Adjust == [at : {"none", "scanned", "swept", "loaded"}, found : SUBSET Nat,
           filters : Seq(Filter), lines : SUBSET Record, time : Nat,
           due : SUBSET [token : Token, exp : Nat, hour : Int], before : Nat]
NoAdjust == [at |-> "none", found |-> {}, filters |-> <<>>, lines |-> {}, time |-> 0,
             due |-> {}, before |-> 0]

\* No adjustment has written its parameters and not yet swapped the vector.
Steady == up /\ adj.at = "none"

Gone(e) == Keep(e, "query", "out", 0)

HourOf(t) == t \div Hour

\* std::ceil of an integer quotient is that quotient: the division has
\* already dropped the fraction.
FiltersNum(p) == p.maxJwtLifeTime \div p.rotationInterval
NumFilters(p, rem) == rem \div p.rotationInterval

\* The early returns shared by revokeJwt, isRevoked and recoverFromLog.
InWindow(p, rem) ==
    /\ rem > 0
    /\ rem <= p.maxJwtLifeTime
    /\ NumFilters(p, rem) <= FiltersNum(p)

-----------------------------------------------------------------------------
(* Filters *)

ToUInt(n) == n % UIntRange

\* The range of an unsigned int is a power of two, so that a power of two
\* either fits or becomes 0.
ASSUME UIntAssumption ==
    \A p \in Params :
        IsPowerOfTwo(p.bloomFilterSize) => ToUInt(p.bloomFilterSize) \in {0, p.bloomFilterSize}

\* getNewFilters takes bloomFilterSize as an unsigned int.
FreshFilter(p) == NewFilter(ToUInt(p.bloomFilterSize), p.hashFunctionNum)

\* Neither the quotient nor a constructor of getNewFilters fails.
CanRebuild(p) ==
    /\ p.rotationInterval # 0
    /\ FiltersNum(p) > 0 => ValidFilter(ToUInt(p.bloomFilterSize), p.hashFunctionNum)

\* What Engine::init throws on before it rebuilds.
CanInit(p) ==
    /\ p.maxJwtLifeTime # 0
    /\ p.rotationInterval # 0
    /\ p.bloomFilterSize # 0
    /\ p.hashFunctionNum # 0

\* Mutated form: the loop stops one filter early.
AddToFirstOffByOne(fs, n, site, token) ==
    [i \in DOMAIN fs |-> IF i < n THEN Add(fs[i], site, token) ELSE fs[i]]

AddToFirst(fs, n, site, token) ==
    [i \in DOMAIN fs |-> IF i <= n THEN Add(fs[i], site, token) ELSE fs[i]]

\* Mutated forms: the new filter goes to the front; none is appended.
RotatedBackwards(fs, p) ==
    [i \in DOMAIN fs |-> IF i > 1 THEN fs[i - 1]
                         ELSE NewFilter(p.bloomFilterSize, p.hashFunctionNum)]
RotatedNoAppend(fs, p) == Tail(fs)

\* filters.erase(begin()), then emplace_back.
Rotated(fs, p) ==
    [i \in DOMAIN fs |-> IF i < Len(fs) THEN fs[i + 1]
                         ELSE NewFilter(p.bloomFilterSize, p.hashFunctionNum)]

\* Mutated form: the youngest filters are consulted.
IsRevokedYoungest(token, exp) ==
    /\ InWindow(param, exp - now)
    /\ \A i \in 1..NumFilters(param, exp - now) :
            Contains(filters[Len(filters) + 1 - i], "query", token)

IsRevoked(token, exp) ==
    /\ InWindow(param, exp - now)
    /\ \A i \in 1..NumFilters(param, exp - now) : Contains(filters[i], "query", token)

-----------------------------------------------------------------------------
(* The log *)

\* Mutated form: one file too few.
FoundHoursOneShort ==
    {h \in DOMAIN logFiles : h > HourOf(now) - LogHours + 1 /\ h <= HourOf(now)}

FoundHours == {h \in DOMAIN logFiles : h > HourOf(now) - LogHours /\ h <= HourOf(now)}

\* The lines of the files of hours, as <<hour, line number>>.
Lines(hours) == UNION {{h} \X DOMAIN logFiles[h] : h \in hours}
LineAt(l) == logFiles[l[1]][l[2]]

\* How many filters recoverFromLog adds a line to.
RecoverDepth(p, exp) ==
    IF InWindow(p, exp - now) THEN NumFilters(p, exp - now) ELSE 0

\* The filters after the loop of recoverFromLog over the files of hours.
RecoverFromLog(p, hours, site) ==
    [i \in 1..FiltersNum(p) |->
        LET f == FreshFilter(p)
            added == {l \in Lines(hours) : i <= RecoverDepth(p, LineAt(l).exp)}
        IN  Filled(f, UNION {CalcHashIndices(f, site, LineAt(l).token) : l \in added},
                   Cardinality(added))]

\* The lines of the files of hours that a recovery takes, and what it then
\* leaves of an entry (history).
LinesTaken(p, hours) ==
    {r \in {LineAt(l) : l \in Lines(hours)} : InWindow(p, r.exp - now)}
Recovered(e, p, site, lines, time) ==
    IF [token |-> e.token, exp |-> e.exp] \in lines
    THEN Keep(e, site, "fresh", NumFilters(p, e.exp - time))
    ELSE Gone(e)

\* The lines in files young enough for a recovery that begins now (history).
LinesDue ==
    {[token |-> e.token, exp |-> e.exp, hour |-> e.flushed] :
        e \in {d \in issued : d.flushed # -1 /\ d.flushed > HourOf(now) - LogHours}}

\* What the scan of an adjustment finds, and the lines it is to bring back (history).
\* localtime may have one buffer for all threads: the minutes that logWorker, at
\* work on a line, writes there make the scan ask for files that do not exist.
Scans ==
    {[found |-> FoundHours, due |-> LinesDue]} \cup
    (IF logQueue = <<>> THEN {} ELSE {[found |-> {}, due |-> {}]})

-----------------------------------------------------------------------------
Init ==
    /\ now = 0
    /\ up = FALSE
    /\ param = NoParam
    /\ filters = <<>>
    /\ rotateAt = 0
    /\ adj = NoAdjust
    /\ pending = {}
    /\ logQueue = <<>>
    /\ logFiles = <<>>
    /\ unread = {}
    /\ issued = {}

Tick ==
    /\ now < MaxTime
    /\ now' = now + 1
    /\ UNCHANGED <<up, param, filters, rotateAt, adj, pending, logQueue, logFiles, unread, issued>>

\* The process dies: a signal, an exception that leaves a thread, a division
\* by zero.  The files stay.
Die ==
    /\ up
    /\ up' = FALSE
    /\ param' = NoParam
    /\ filters' = <<>>
    /\ rotateAt' = 0
    /\ adj' = NoAdjust
    /\ pending' = {}
    /\ logQueue' = <<>>
    /\ issued' = {Gone(e) : e \in issued}
    /\ UNCHANGED <<now, logFiles, unread>>

\* Mutated form: the wait does not last rotationInterval.
RotationNotAwaited == TRUE

RotationDue == now >= rotateAt

\* Recovery deletes every file it did not find, reads the found ones from the
\* newest, and gives up on the rest at the first (stop) that does not open;
\* stop = -1: all open.
Start(p) ==
    /\ ~up
    /\ CanInit(p) /\ CanRebuild(p)
    /\ up' = TRUE
    /\ param' = p
    /\ rotateAt' = now + p.rotationInterval
    /\ logFiles' = [h \in FoundHours |-> logFiles[h]]
    /\ \E stop \in FoundHours \cup {-1} :
        LET read == {h \in FoundHours : h > stop} IN
        /\ filters' = RecoverFromLog(p, read, "init")
        /\ unread' = FoundHours \ read
        /\ issued' = {Recovered(e, p, "init", LinesTaken(p, read), now) : e \in issued}
    /\ UNCHANGED <<now, adj, pending, logQueue>>

\* adjustFiltersParam, on the scheduler's thread.  The parameters are in force
\* from here on, for the filters there are.
AdjustScan(p) ==
    /\ Steady
    /\ pending = {}
    /\ \/ /\ CanRebuild(p)
          /\ param' = p
          /\ \E s \in Scans :
                adj' = [NoAdjust EXCEPT !.at = "scanned", !.found = s.found,
                                        !.due = s.due, !.before = Cardinality(issued)]
          /\ UNCHANGED <<now, up, filters, rotateAt, pending, logQueue, logFiles, unread, issued>>
       \/ ~CanRebuild(p) /\ Die

\* A file that logWorker has created since goes, too, with its lines.
AdjustSweep ==
    /\ adj.at = "scanned"
    /\ adj' = [adj EXCEPT !.at = "swept"]
    /\ logFiles' = [h \in adj.found |-> logFiles[h]]
    /\ issued' = {IF e.flushed \in adj.found THEN e ELSE [e EXCEPT !.flushed = -1] : e \in issued}
    /\ UNCHANGED <<now, up, param, filters, rotateAt, pending, logQueue, unread>>

AdjustLoad ==
    /\ adj.at = "swept"
    /\ \E stop \in adj.found \cup {-1} :
        LET read == {h \in adj.found : h > stop} IN
        /\ unread' = adj.found \ read
        /\ adj' = [adj EXCEPT !.at = "loaded", !.time = now,
                              !.filters = RecoverFromLog(param, read, "adjust"),
                              !.lines = LinesTaken(param, read)]
    /\ UNCHANGED <<now, up, param, filters, rotateAt, pending, logQueue, logFiles, issued>>

\* The notification re-arms the wait, unless it has timed out before.
AdjustSwap ==
    /\ adj.at = "loaded"
    /\ adj' = NoAdjust
    /\ filters' = adj.filters
    /\ \/ rotateAt' = now + param.rotationInterval
       \/ RotationDue /\ UNCHANGED rotateAt
    /\ issued' = {Recovered(e, param, "adjust", adj.lines, adj.time) : e \in issued}
    /\ UNCHANGED <<now, up, param, pending, logQueue, logFiles, unread>>

Issue(site, token, exp) ==
    LET kept == InWindow(param, exp - now)
        num == NumFilters(param, exp - now)
    IN  issued' = issued \cup
            {[id |-> Cardinality(issued) + 1, token |-> token, exp |-> exp,
              site |-> IF kept THEN site ELSE "query",
              kept |-> IF kept THEN "fresh" ELSE "out",
              left |-> IF ~kept THEN 0 ELSE IF num <= Len(filters) THEN num ELSE Len(filters),
              flushed |-> -1]}

\* While an adjustment is under way the parameters may ask for more filters than
\* there are: an add past the end of the vector is undefined (it may end the
\* process, Die) and reaches none of them.

RevokeJwt(site, token, exp) ==
    /\ up
    /\ Cardinality(issued) < MaxIssued
    /\ filters' = IF InWindow(param, exp - now)
                  THEN AddToFirst(filters, NumFilters(param, exp - now), site, token)
                  ELSE filters
    /\ Issue(site, token, exp)
    /\ UNCHANGED <<now, up, param, rotateAt, adj, logQueue, logFiles, unread>>

\* revoke_jwt from the master: revoke, then log.
MasterRevoke(token, exp) ==
    /\ adj.at = "none"
    /\ pending = {}
    /\ pending' = {[token |-> token, exp |-> exp]}
    /\ RevokeJwt("revoke", token, exp)

\* revoke_jwt from another node: revoke only.
ProxyRevoke(token, exp) ==
    /\ UNCHANGED pending
    /\ RevokeJwt("proxy", token, exp)

\* Mutated form: enqueue does not wait for room.
LogRevokeNoWait ==
    /\ \E r \in pending : logQueue' = Append(logQueue, r)
    /\ pending' = {}
    /\ UNCHANGED <<now, up, param, filters, rotateAt, adj, logFiles, unread, issued>>

\* enqueue blocks while the queue is full.
LogRevoke ==
    /\ Len(logQueue) < LogCapacity
    /\ \E r \in pending : logQueue' = Append(logQueue, r)
    /\ pending' = {}
    /\ UNCHANGED <<now, up, param, filters, rotateAt, adj, logFiles, unread, issued>>

\* A line whose file does not open is dropped, and so is one whose file gets a name
\* that is no hour, since the minutes of an adjustment's scan were in the buffer.
LogWrite ==
    /\ logQueue # <<>>
    /\ logQueue' = Tail(logQueue)
    /\ LET r == Head(logQueue)
           h == HourOf(now)
           old == IF h \in DOMAIN logFiles THEN logFiles[h] ELSE <<>>
       IN  \/ /\ logFiles' = [k \in DOMAIN logFiles \cup {h} |->
                                IF k = h THEN Append(old, r) ELSE logFiles[k]]
              /\ issued' = {IF e.token = r.token /\ e.exp = r.exp
                             THEN [e EXCEPT !.flushed = h] ELSE e : e \in issued}
           \/ UNCHANGED <<logFiles, issued>>
    /\ UNCHANGED <<now, up, param, filters, rotateAt, adj, pending, unread>>

\* History: an entry after a rotation.
Aged(e) == Keep(e, e.site, IF e.kept = "fresh" THEN "aged" ELSE e.kept,
                IF e.left = 0 THEN 0 ELSE e.left - 1)

\* wait_for timed out.  The new filter's constructor may throw.  erase on an
\* empty vector is undefined: it ends the process, or the erase and the
\* emplace_back undo one another and the vector stays empty.
Rotate ==
    /\ up
    /\ RotationDue
    /\ \/ /\ ValidFilter(param.bloomFilterSize, param.hashFunctionNum)
          /\ filters' = Rotated(filters, param)
          /\ rotateAt' = now + param.rotationInterval
          /\ issued' = {Aged(e) : e \in issued}
          /\ UNCHANGED <<now, up, param, adj, pending, logQueue, logFiles, unread>>
       \/ /\ filters = <<>> \/ ~ValidFilter(param.bloomFilterSize, param.hashFunctionNum)
          /\ Die

\* wait_for returned no_timeout without a notification.
SpuriousWakeup ==
    /\ up
    /\ rotateAt' = now + param.rotationInterval
    /\ UNCHANGED <<now, up, param, filters, adj, pending, logQueue, logFiles, unread, issued>>

Next ==
    \/ Tick
    \/ Die
    \/ \E p \in Params : Start(p) \/ AdjustScan(p)
    \/ AdjustSweep
    \/ AdjustLoad
    \/ AdjustSwap
    \/ \E t \in Token, x \in Exps : MasterRevoke(t, x) \/ ProxyRevoke(t, x)
    \/ LogRevoke
    \/ LogWrite
    \/ Rotate
    \/ SpuriousWakeup

Spec == Init /\ [][Next]_vars

-----------------------------------------------------------------------------
(* Properties *)

FilesOK ==
    /\ DOMAIN logFiles \subseteq Nat
    /\ \A h \in DOMAIN logFiles : logFiles[h] \in Seq(Record)

TypeOK ==
    /\ now \in Nat
    /\ up \in BOOLEAN
    /\ param \in Param
    /\ filters \in Seq(Filter)
    /\ rotateAt \in Nat
    /\ adj \in Adjust
    /\ pending \subseteq Record /\ \A r, s \in pending : r = s
    /\ logQueue \in Seq(Record) /\ Len(logQueue) <= LogCapacity
    /\ FilesOK
    /\ unread \subseteq Nat
    /\ issued \subseteq Entry

\* Whatever the window lets through addresses filters that exist, save while an
\* adjustment has its parameters in force and not yet its vector: no call of
\* revokeJwt or isRevoked indexes past the vector (Engine.hpp:143, 165), and
\* the guard on filtersNum (140, 160) never has to refuse a token.
IndexInBounds ==
    Steady => \A rem \in 1..param.maxJwtLifeTime : NumFilters(param, rem) <= Len(filters)

\* A filter holds the bits of exactly the revocations whose depth reaches it,
\* after any sequence of inserts, rotations, rebuilds and restarts, whatever
\* falls into an adjustment (Engine.hpp:99-124, 143, 291, 322): nothing leaves
\* early, nothing lingers.
BitsExact ==
    \A i \in DOMAIN filters :
        filters[i].bits = UNION {CalcHashIndices(filters[i], e.site, e.token) :
                                    e \in {d \in issued : d.left >= i}}

\* An older filter holds all that a younger one holds and counts at least as
\* many adds (getBloomFilterFillingRate reports a non-increasing vector).
Nested ==
    Steady => \A i \in 1..(Len(filters) - 1) :
        /\ filters[i + 1].bits \subseteq filters[i].bits
        /\ filters[i + 1].msgNum <= filters[i].msgNum

\* A revocation the filters still hold is never short of more than the last
\* of the filters isRevoked consults for it (Engine.hpp:139, 159), however the
\* insert, the rotations and the query fall against each other.
OneFilterShort ==
    Steady => \A e \in issued :
        (e.kept # "out" /\ InWindow(param, e.exp - now)) =>
            \A i \in 1..(NumFilters(param, e.exp - now) - 1) :
                Contains(filters[i], e.site, e.token)

\* Until the first rotation after it, a revocation is answered "revoked",
\* provided the hash buffer of the query lies where that of the insert lay.
AnsweredUntilRotation ==
    Steady => \A e \in issued :
        (/\ e.kept = "fresh"
         /\ InWindow(param, e.exp - now)
         /\ BufAddr[e.site] = BufAddr["query"]) => IsRevoked(e.token, e.exp)

\* After it, a revocation still held is missed in the first part of the time
\* between two rotations only, and found again before the next: it is missed
\* while its remaining lifetime exceeds a multiple of the interval by less than
\* the time to the next rotation (Engine.hpp:139, 159, 316, 322).
MissedOnlyAfterRotation ==
    Steady => \A e \in issued :
        (/\ e.kept # "out"
         /\ InWindow(param, e.exp - now)
         /\ BufAddr[e.site] = BufAddr["query"]
         /\ rotateAt - now <= (e.exp - now) % param.rotationInterval) => IsRevoked(e.token, e.exp)

\* What an answer tells.  No query is answered "revoked" unless some revocation
\* still reaches every filter it consults: none lingers, and no rotation or
\* rebuild makes one up.  And one revocation that does so, of whatever token, is enough, if
\* the hash buffers lie alike, since an index does not depend on the key
\* (BaseBloomFilter.hpp:66, Engine.hpp:159-168).  Queries of depth 0 consult nothing.
AnsweredByDepth ==
    Steady => \A t \in Token, x \in Exps :
        LET n == NumFilters(param, x - now) IN
        (InWindow(param, x - now) /\ n > 0) =>
            /\ IsRevoked(t, x) => \E e \in issued : e.left >= n
            /\ (\E e \in issued : e.left >= n /\ BufAddr[e.site] = BufAddr["query"])
                    => IsRevoked(t, x)

\* The filters after the step hold a revocation to its full depth.
RestoredTo(token, exp) ==
    \A i \in 1..((exp - now) \div param'.rotationInterval) :
        \E s \in {"init", "adjust"} : Contains(filters'[i], s, token)

RestoredFrom(due, time) ==
    \A d \in due :
        (/\ d.exp > now /\ d.exp - time <= param'.maxJwtLifeTime
         /\ d.hour \notin unread') => RestoredTo(d.token, d.exp)

LoggedRestored ==
    /\ (\E p \in Params : Start(p)) => RestoredFrom(LinesDue, now)
    /\ AdjustSwap => RestoredFrom(adj.due, adj.time)

\* A rebuild restores to its full depth every live revocation whose line is,
\* when init or adjustFiltersParam looks for files, in one less than LogHours
\* hours old, unless that file could not be opened or the lifetime left when it is
\* read exceeds the maximum, whatever the other threads do meanwhile, but for one
\* thing: a logWorker that spoils the time the scan starts from (Scans, with no
\* lines due) makes it find and restore nothing (Engine.hpp:229-305).
RebuildKeepsLogged == [][LoggedRestored]_vars

\* A rebuild of a running engine keeps every live revocation the filters
\* held before it began, as it would if every revocation were in the log it
\* recovers from (Engine.hpp:114, Scheduler.hpp:116).
RebuildKeepsAccepted ==
    [][(AdjustSwap /\ unread = {}) =>
        \A e \in issued :
            (/\ e.id <= adj.before
             /\ e.kept # "out" /\ e.exp > now /\ e.exp - now <= param'.maxJwtLifeTime) =>
                \A i \in 1..((e.exp - now) \div param'.rotationInterval) :
                    Contains(filters'[i], "adjust", e.token)]_vars

\* What the comment at Engine.hpp:164 relies on: a token that some filter does
\* not contain is not on the blacklist.  So a revocation the engine accepted
\* and has not lost is reported.
NoFalseNegative ==
    Steady => \A e \in issued :
        (e.kept # "out" /\ InWindow(param, e.exp - now)) => IsRevoked(e.token, e.exp)

=============================================================================
