# JWTRevoker_BlackList in TLA+

A verification project for the blacklist node of a JWT revocation system, a
C++20 program (`src/src/main.cpp` and the headers under `src/src/detail/`).
The node keeps revoked tokens in a vector of rotating Bloom filters, takes
revocations and parameters from a master, answers queries of clients, and logs
revocations so that the filters can be rebuilt.

Line numbers below refer to the files of `src/src/detail/` unless said otherwise.

## 1. The system

| part | file | state | operations | who calls it |
|---|---|---|---|---|
| Bloom filter | `Engine/BaseBloomFilter.hpp` | bit vector, `hashFunctionNum`, `msgNum` | constructor (checks), `add`, `contains`, `getMsgNum` | Engine |
| Engine | `Engine/Engine.hpp` | four parameters, vector of filters, `filtersMtx`, log queue, files | `init`, `adjustFiltersParam`, `revokeJwt`, `isRevoked`, `logRevoke`, `getBloomFilterFillingRate`; threads `logWorker`, `rotateBloomFilterWorker` | Scheduler, Server |
| Queue between threads | `Utils/ThreadSafeQueue.hpp` | deque, mutex, one condition variable | `enqueue`, `dequeue` | Engine, MasterSession |
| Master session | `MasterSession/MasterSession.hpp` | socket, two queues, `connErrFlag`, two run flags | `connect`, `asyncSendMsg`, `recvMsg`; threads `send`, `recv`, `watchDog` | Scheduler |
| Scheduler | `Scheduler/Scheduler.hpp` | `nodeRole`, sender to another node | constructor (asks for the parameters), threads `msgProcWorker`, `keepaliveWorker`, `bloomFilterStatusReport` | main |
| Node message sender | `Scheduler/NodeMessageSender.hpp` | the socket to a proxy node | `connect`, `sendLogToProxyNode`, `isRevoked`, `revokeJwt`, `disconnect` | Scheduler, Server |
| Server | `Server/Server.hpp` | one-threaded `io_context`, per client a socket and two coroutine queues | accept, `recv`, `send`, `process` coroutines | clients, other nodes |
| Queue between coroutines | `Server/CoroutineSafeQueue.hpp` | deque, mutex, list of waiting timers | `enqueue`, `dequeue` | Server |
| Frames, JSON, parsing, configuration, SHA-256 | `Utils/*`, `Engine/SHA256/*` | none | conversions | everyone |
| main | `src/src/main.cpp` | owns the objects | start-up and destruction order | the system |

**How they interact.** `main` builds the master session (which connects and
authenticates in its constructor), the engine, the scheduler (whose
constructor sends one request and waits for the parameters, then runs
`Engine::init`) and the server, and destroys them in the reverse order. From then on at least nine threads run: log and
rotation threads of the engine; watchdog, send and recv of the session; message,
keepalive and report threads of the scheduler; the server's single event loop.
They share the engine (by direct calls), the queues, the socket and flags of the
session, and the role.

```
   master <==> MasterSession{watchDog, send, recv} <-sendQueue/recvQueue-> Scheduler{msgProc, keepalive, report}
                                                                               |  revokeJwt, logRevoke, adjustFiltersParam
   clients, nodes <==> Server (one event loop) -- isRevoked, revokeJwt --> Engine{filters} -> logQueue -> logWorker -> files
                              |                                               ^
                              +-- proxyQuery --> NodeMessageSender            +-- rotateBloomFilterWorker
```

**What is hard.** Rotation, insertion and query happen at unrelated moments, and
the depth of a token (how many filters hold it) must survive that. The hash
index depends on where a stack buffer lies. The recovery must agree with what
was logged, under crashes, dropped writes, files that do not open, and a log
thread that goes on writing while the directory is swept. Two threads insert into
the same words of a filter without a lock. Producers
and consumer share one condition variable with `notify_one`. The watchdog joins
threads that may be asleep in a queue only it can get moving again. An exception
in a thread ends the process. The coroutines of the server are lazy. Destructors
join threads that nobody wakes.

**What makes each part correct** (section 3 says what of it holds of this code).

* Engine: a filter holds the revocations it should and no others; a revoked
  token that has not expired is reported revoked; no index leaves the vector; a
  rebuild brings back what was logged.
* Queue: order, no loss, no duplicate, no lost wakeup, bounded.
* Session: authentication precedes all else on a connection; one owner of the
  socket; no error overlooked; a lost connection comes back.
* Node (roles, proxying): every query is answered by the role in force; a
  revocation reaches the filters and the log; a role change ends.
* Server: every request of a client is answered in order; a waiting coroutine
  costs nothing and is woken.
* Shutdown: every destructor returns.

The list `hazards` in `PROJECT.json` gives, line by line, what can go wrong in
this code that a test would hardly reach, and the property that looks at it.

## 2. The modules

| module | models | role |
|---|---|---|
| `BaseBloomFilter` | `BaseBloomFilter.hpp` | operators on a record; the bits raised are a set |
| `Engine` | `Engine.hpp` with the calls of Scheduler and Server that reach it | one action per operation, four for an adjustment; clock, files, crash |
| `EngineProofs` | | theorems about `Engine` |
| `BoundedFifo` | | what a bounded queue promises: abstract specification |
| `ThreadSafeQueue` | `ThreadSafeQueue.hpp` | mutex sections as steps, wait set, `notify_one`; implements `BoundedFifo` |
| `EngineRebuildProofs` | | that the filters are nested, what an answer tells, what a recovery brings back |
| `ThreadSafeQueueProofs` | | theorems about `ThreadSafeQueue` |
| `LossyLink` | | what a session promises to its users: abstract specification |
| `MasterSession` | `MasterSession.hpp` and the threads of `Scheduler.hpp` as its users | program counter per thread, master and network external; implements `LossyLink` |
| `MasterSessionProofs` | | theorems about the safety of `MasterSession`, the refinement included |
| `RevokedDepth` | | what the vector promises for one token: abstract specification |
| `EngineThreads` | `Engine.hpp` step by step: `filtersMtx`, walks and adds without it, the timed wait | implements `RevokedDepth` |
| `EngineThreadsProofs` | | theorems about `EngineThreads`, the refinement included |
| `Node` | roles: `Scheduler::msgProcWorker`, `Server::processTask`, `NodeMessageSender` | message thread and event loop on one role and one socket |
| `NodeProofs` | | theorems about `Node` |
| `Shutdown` | the three destructors, in `main`'s order, with the loops of all eight threads | where each thread stands and which flag is set |
| `ShutdownProofs` | | theorems about `Shutdown` |
| `ServerSession` | `Server::handleClient` and its coroutines, `CoroutineSafeQueue` | coroutines that start when awaited |
| `ServerSessionProofs` | | that no client's coroutines but the first ever start |
| `MCEngine`, `MCEngineThreads`, `MCThreadSafeQueue`, `MCMasterSession`, `MCNode`, `MCShutdown`, `MCServerSession` | | constants for TLC |

### Engine

*State.* `now` is the system clock in seconds; `param` the four numbers;
`filters` the vector (`filters[1]` is `filters[0]` of the code, the oldest);
`rotateAt` the moment at which `wait_for` (316) will time out; `adj` how far the
message thread is in `adjustFiltersParam`, with the files it has found and its own
vector; `pending` the revocation that `msgProcWorker` has applied and not yet logged
(`Scheduler.hpp:113-117`); `logQueue`, `logFiles` the log on its way and on disk.
`issued`, `unread` and the last four fields of `adj` are history: no guard of an
operation reads them, except the bound `MaxIssued`.

*Actions.* `Start` is `Engine::init`, for the first time or after a restart; the
threads start at its end, so it is one step. An adjustment is not, since log thread,
server and rotation go on beside it: `AdjustScan` writes the parameters, makes the
new vector and looks for the last hours' files; `AdjustSweep` deletes every file
it has not found, the one that `logWorker` may have created since included;
`AdjustLoad` reads the found files; `AdjustSwap` replaces the vector and notifies.
`MasterRevoke` and `ProxyRevoke` are `revokeJwt` as called by `msgProcWorker` (which
then logs) and by the server (which does not); `LogRevoke` the blocking `enqueue` of the
line; `LogWrite` one turn of `logWorker`, whose `ofstream` may not open; `Rotate` and
`SpuriousWakeup` the two ways out of the rotation thread's `wait_for`; `Die` the end of
the process at any moment; `Tick`. `isRevoked` changes nothing and is an operator.
Exceptions nobody catches (a zero interval, a size that is not a power of two)
end in `Die`; `erase` on an empty vector is undefined in C++ and is either the
end of the process or no change.

*The hour.* `recoverFromLog` and `logWorker` both get the hour from `localtime`, zero its
minutes and seconds and call `mktime` (212-215, 232-235). The standard lets `localtime` return one
buffer for all threads, as most libraries do (Windows' has one for each thread; the build file provides for
both). The minutes of the one may so end up in the other's hour. A scan that starts from
such a time asks for 24 files that do not exist, and the sweep deletes all
there are (`Scans`); a line goes to a file that no recovery reads, which is
a line dropped (`LogWrite`).

*Two details of the code that the model keeps.* `std::ceil` is applied to the
quotient of two integers, which has been floored before (`NumFilters`).
`getNewFilters` takes the size as `unsigned int` (`ToUInt`), the rotation does
not. *The hash*: `hashSHA256` returns the address of its stack buffer
(`BaseBloomFilter.hpp:66`), so an index depends on the call site and not on the
key. The constant `BufAddr` gives that address for each call site; nothing in
the source says what it is, and the theorems hold for all its values.

*Abstractions.* An insert, a rotation, a query and the swap are one step each:
what happens when they overlap is the subject of `EngineThreads`, and what
`Engine` says of filters it says of operations that do not. A scan, the deletions
and the reading are one step each, too; a line that `logWorker` writes to a found file while
the file is being read is in or out. Insertions between `AdjustScan` and `AdjustSwap`
take their depth from the new parameters and may index past the old vector, which is
undefined: here they reach the filters there are (or the process dies, `Die`). The clock of the
log (hours) and the clock of the tokens are the same clock, with an hour of
`Hour` seconds. A log line is the pair of token and expiry; a parsing error gives the
expiry 0, which is never in the window. `BufAddr` does not change while the process
lives, nor between two runs of it.

### ThreadSafeQueue

`calling` are the threads inside `enqueue` or `dequeue`, `waiting` those asleep
in `wait`. What lies between taking the mutex and giving it up is one step.
`NotifyOne` wakes any sleeper: producers and consumer share the condition
variable. Values are pairs of producer and number, so order, loss and
duplication are visible to the refinement. The model has one consumer, as every
queue of the program has at a time, and at most as many producers as places
(`QueueAssumption`; the code has 4096 places and a handful of producers). The
assumption matters: with more producers than places `notify_one` on a shared
condition variable does lose wakeups.

### MasterSession

One program counter per thread: `main` (the constructors), `watchDog`, `sendT`,
`recvT`, `handler` (the message thread), and `conn` for `connect()`, which the
constructor and the watchdog both run. `held` and `got` are the local variables of
the two I/O threads. `sendRunFlag` and `recvRunFlag` are always set together and
are the one variable `run`. `connErrFlag` is a plain `bool` in the code (`MasterSession.hpp:72`);
it is modelled as sequentially consistent. The network may break a connection at
any step, keep or lose what is in flight, and let a write to a broken connection
seem to succeed. A write blocks while the connection's buffer is full. The master
answers a hello with success, refusal or another event, reads, and pushes.
Exceptions in `connect()` have no handler and end the process (`Terminate`), as
does a first message that is not the answer to the constructor's request, or one
with parameters `Engine::init` refuses. What the message thread makes of a message
is cut down to what the session notices: nothing, an acknowledgement, an exception, or,
for a node ordered to be a slave, a call of `NodeMessageSender::connect` that never
returns (its loop has no exit). The
keepalive and report threads are one action, since all that concerns the session
is that they enqueue again and again.

*Refinement.* `LossyLink` knows a link that is down, new, up or broken and two
sequences of messages, those sent and not yet read by the other side and those
that come back. Messages keep their order, come out once, and none is delivered
or pushed before the link is up; only a link that was up and broke may lose any.
`Link` maps the connection to it (`"up"` once the master has accepted, `"broken"` from
the break of such a connection until the watchdog has closed the socket);
`Outbound` is what lies on the wire, in the hands of the send thread and in
`sendQueue`; `Inbound` what is in `recvQueue`, in the hands of the recv thread
and on its way from the master. A write that seemed to succeed on a broken
connection is `Lose`. `Blocked` names the two circles in which the reconnection
waits for itself, and `StaysBlocked` says that they are no delay but the end.

### EngineThreads and RevokedDepth

The engine again, at the grain of its threads. `msg` says how far the message
thread is in `adjustFiltersParam`: it writes the parameters (`SetParam`), then
`filtersNum` (`SetFiltersNum`), builds a vector of its own, takes `filtersMtx`
(`LockFilters`), replaces the vector and gives the lock up (`Swap`), and notifies
(`Notify`). `rot` says where the rotation thread is: about to wait, asleep, woken by a
notification or by time, between `erase` and `emplace_back`. Coming back from
`wait_for` needs the lock (`Returns`). `walk` is the loop over the vector each
thread is in: an insert or a query (`Begin`, `Access`) or the fill-rate report, on
the message, server and report thread. These loops take no lock. What they do past
the end of the vector, or beside the other threads' changes to it, is undefined
in C++: the access takes effect or not. Nor is an `add` atomic: it raises bits of a
`vector<bool>` (`BaseBloomFilter.hpp:28`) by reading a word and writing it back, and the
message thread and the server thread both insert. `beside` is what such an `add` may lose:
the tokens whose bits two inserts in the same filter have raised beside one another.
`Overwrite` writes a word of it before the last and `Access` the last, each of which takes any of
these tokens away. `clean` is the history variable that says that no change has overlapped the walk and,
of an insert, no other insert; `torn` the tokens whose insert was
overlapped, or whose bits an overlapping one has taken away; `lastRotation` the
last rotation since an adjustment.

*Abstractions.* A filter is the parameters it was made with and the tokens it
holds; its bits, and which lines a recovery finds, are matters of `Engine`, so a
recovery brings each token back to an arbitrary depth (`Recovered`). The four
parameters are written in one step: size and hashes are read by the rotation
only. Parameters that end the process are left to `Engine` (`ThreadsAssumption`).
Undefined behaviour ends at the access: that it may damage memory elsewhere is
not modelled. A token counts as lost from a filter when any of its bits is; a query that misses
it is the same then. `msgNum`, which loses increments to the same race, is a number of the
report only and left out. `Overwrite` may take away both of two overlapping tokens at once, which is more than
the words can do.

*Refinement.* `RevokedDepth` says for one token that the filters that hold it
are the first few; an insert takes them in order, a rotation drops the first, and
only a torn insert (one that a change of the vector or another insert overlapped) may
leave a gap, until the next rebuild. `Depth(t)` maps the
vector to it: its length is that of the vector, counting the filter a rotation
that has erased is about to append, and `held` the places where the token is.

### Node

`role` is `nodeRole`, `msg` the place of the message thread in the handling of
`revoke_jwt` and `adjust_bloom_filter`, down to `NodeMessageSender::connect`;
`conn` the connection the sender's socket has (numbered, since it is dialled anew
again and again) and `turn` the request the event loop is in. `processTask`
compares the role with three literals at three moments (`IsSingle`, `IsProxy`,
`IsSlave`), each on a fresh copy of the string, which may be torn while the message
thread assigns it (`RoleRead`). A proxied query is a write on the connection of
that moment (`SendQuery`) and a read on the connection of a later one
(`Receive`); a blocked read keeps its connection when the other thread closes or
redials the socket, and may or may not be told (`ReadFails`). `asked` and
`replies` are on the wire to and from the proxy node, which is external: it may be this
same program, and it may drop a query or never look at it, so nothing says that it
answers. A proxied query that throws (no connection, one that breaks, a reply that does not parse
or has no `status`) leaves `processTask` and the query without an answer (`Throw`, then `GiveUp`).
The role check for an insert of another node and the insert are two steps
(`TakesInserts`, `Insert`). Between `msgProcWorker`'s acceptance of a
revocation and its file lies the log queue (`queued`, `LogWrite`); `Recover` reads
what is on disk, `Swap` puts it in place of the filters.

*Abstractions.* The engine is the set of tokens its filters hold and the sets its log
queue and its log hold; tokens do not expire, filters do not rotate, and files are
young enough to be read: those are `Engine`'s subject. `logged` is what a recovery can read, so a
line written to a file that the sweep then deletes is a line dropped (`LogWrite`), and
the sweep of a spoilt scan empties it (`Recover`). A turn of
the event loop runs from its dequeue to its end without a `co_await`, so there
is one at a time. The model takes for granted that the turn happens: the run
`server_session` shows that `handleClient` does not get there, and `Node` says what
the handler does wherever it is run. The code of a slave after its connection
(`Scheduler.hpp:179-189`, `sendLogToProxyNode`) cannot be reached and is not modelled.
Every exception on the message thread ends the process (`Terminate`).

### Shutdown

`main` is what `main()` does: serve, or join a certain thread; `at` where each of
the eight threads stands in its loop, `flag` whose run flag is set. `Joins` is the
order of the joins, `Cleared` the flags cleared before each. The threads look at
their flag at the end of a turn; in between they may sleep in a queue, read from
the master, wait for room, or (watchdog) join and restart two of the others, whose
flags `Reconnect` sets again whoever cleared them (`MasterSession.hpp:88-89`).

`connect()` may succeed (`Reconnect`), throw, which ends the process since nobody catches
in the watchdog (`ConnectThrows`), or go on for ever: it retries every five seconds and reads
the master's answer without a limit, and looks at no flag (`MasterSession.hpp:100-129`).

*Abstractions.* Queues are counts, except `recvQueue`, whose messages decide what
the message thread does. Other exceptions that end the process are left out, as is
a master that does not read (a write always ends). The event loop is gone when the first
destructor runs.

### ServerSession

`awaits` is the coroutine each `handleClient` waits for, `task` how far each of the
three coroutines is: `"lazy"` until it is awaited, since `co_spawn` with
`use_awaitable` does nothing before. Queues are counts, `waiters` the timers in
`waiters_`; a timer has the clock's epoch as its time, so waiting for it ends at
the next turn of the loop and the loop of `dequeue` turns again, leaving the timer
behind. `Wake` is what `enqueue` does to it.

## 3. What the runs show

Bounds are constants, named in the modules; the longest, `engine`, takes two to three minutes.

| run | shows |
|---|---|
| `engine` | `IndexInBounds`: but for an adjustment under way, what the window lets through addresses filters that exist. `BitsExact`: a filter holds the bits of exactly the revocations whose depth reaches it, whatever falls into an adjustment. `Nested`: an older filter holds what a younger one holds. `OneFilterShort`: however insert, rotations and query fall, a revocation is missing at most from the last filter consulted. `AnsweredUntilRotation`: until the first rotation after it, it is reported (if the hash addresses agree). `MissedOnlyAfterRotation`: after it, it is missed in the first part of the time between two rotations only. `AnsweredByDepth`: an answer "revoked" means that some revocation, of whichever token, still reaches every filter consulted, and nothing else gives it. (The last four speak of an engine without an adjustment under way.) `RebuildKeepsLogged`: a rebuild restores every live revocation whose line is in a retained, readable file when it looks for files, whatever the log thread writes between its scan, its deletions and its reading, unless that thread spoilt the time the scan started from. Lines written to a file created after the scan are lost with it, and the property does not speak of them. |
| `engine_rotation` | `NoFalseNegative` fails: the "one filter short" above does happen. A token with two intervals left is written to two filters; one second later the rotation removes one; for almost an interval the query still consults two. |
| `engine_hash` | `NoFalseNegative` fails without time passing, if the query's stack buffer lies elsewhere than the insert's. |
| `engine_rebuild` | `RebuildKeepsAccepted` fails: a proxied revocation (`Server.hpp:125`) is never logged and lost at the next adjustment. |
| `queue` | `NoSleepOnValue`, `SleepersCovered`: no wakeup is lost on either side. `ImplementsFifo`: the queue is a `BoundedFifo`, progress included. Deadlock is checked. |
| `session` | `Supervised`: while the watchdog sleeps both threads serve or an error is flagged. `HelloAlone`: nothing old precedes the hello, nobody else reads its answer. `SocketOwned`: no thread uses the socket while it is replaced. `ImplementsLink`: the session is a `LossyLink`. `StaysBlocked`: the two deadlocks that the next two runs reach are for ever. `ReconnectsIfRead`: if `recvQueue` has room again and again, a break leads to a new authenticated connection or the end of the process. |
| `session_startup` | `Reconnects` fails: a break while the constructor waits for the parameters is for ever (the watchdog joins a send thread nobody wakes). |
| `session_full` | `ReconnectsOnceRunning` fails: `recvQueue` full, the message thread waiting for room in `sendQueue` (or in the slave's endless `connect`), the recv thread for the message thread, the watchdog for the recv thread, and only the watchdog could restart the send thread that makes room. |
| `engine_threads` | `Settled`: once an adjustment is through, the vector has the length and its filters the parameters in force, whatever rotations fell between the writing of the parameters and the swap. `CleanWalkInBounds`: a walk without the lock stays in the vector unless a change overlaps it. `CleanWalkHolds`: such a revocation or query is as good as one step at its last access: for a revocation also no other insert must overlap it, for a query none must have torn its token. `HeldInOrder`: a token leaves no gap unless the vector changed or the other thread inserted during its own insert. `RotationsApart`: one rotation may come right after an adjustment (a wait that timed out while the lock was held), no later one sooner than the interval. `ImplementsDepth`: the refinement. |
| `node` | `UnansweredByChangeOrProxy`: a query stays without answer only if the role was written during its turn, or on a slave whose talk with the proxy node failed. `AnswersAreToThisQuery`: however the socket is redialled between write and read, a reply used is the reply to this query. `OwnFiltersHoldTheLog`: a node that answers by itself has all of its log files in its filters, but for tokens whose line was still queued when the filters were last read from the log. `NothingForwarded`: no revocation is ever sent to a proxy node. `SlaveForGood`: a node that has become a slave stays one and takes no revocation any more; its log thread still writes what is queued, and one token whose insertion the event loop had decided on still gets into the filters. `ServerResumes`: the event loop comes back from every request, unless it reads for ever an answer that is not on its connection. |
| `shutdown` | `NoUseAfterDestruction`: no thread is left that uses an object when it is destroyed, although the watchdog starts threads while the destructor waits. `NothingAcceptedTooLate`: nothing is put into `logQueue` or `sendQueue` once its reader has gone for good, so the loss at the end is what was queued then. `HangsForGood`: a join of a thread asleep beside an empty queue whose writers are gone, or in a slave's `connect`, never ends but with the process. `EndsOrWaits`: after the signal the program ends (or dies in `connect()`), or joins for ever a thread in one of the waits listed in `Waits` (an empty queue, a full one, a read, a slave's `connect`, the session's `connect()` with a master that cannot be reached or does not answer); nothing else hangs it. |
| `server_session` | `RequestsAnswered` fails: `processTask` and `sendTask` are awaited behind `recvTask`, which ends only with an exception, so they never start and a client that stays is never answered. |

The six runs that fail are recorded as findings in `PROJECT.json`, each with the
comment of the source it contradicts.

**Bounds.** *Engine*: clock to 3, hours of one second and retention of 2 hours, so that a
line can be young, old or deleted within a run and every second starts a new file, the case that
scan, sweep and log thread race about; two revocations of one or two tokens
(interchangeable, hence the symmetry) with expiries 2 and 4; five parameter sets: two usable
with depths 2 and 3, one whose size is truncated by the 3-bit `unsigned int` so that the rotation
throws, one with interval 0, one with an interval beyond the lifetime (an empty
vector). One place in the log queue, so that the producer waits. The server's inserts
hash from an address of their own, the other call sites from one: the two fall on
different bits of the filters of two and of four. 4.7 million states. *Queue*: three producers and three
places, the extreme the assumption allows: the queue full, producers asleep, and the
consumer asleep beside an empty queue all occur; two values for each producer.
*Session*: two places in each queue and on the wire; the two violations need one.
The session has no counter and no bound on breaks.
*EngineThreads*: parameter sets of two filters and of one, with intervals 1 and
2, so that an adjustment lengthens and shortens the vector under a walk; the clock
to 2, enough for two rotations between adjustments; two tokens, so that an insert can lose the
bits of another's, and two walks at a time (`MaxWalks`): the races are between two of them. *Node*: two
tokens, so that a reply can be another query's and a line can be queued beside one written; three
connections. *Shutdown*: queues of one place, so
that both ends block; three messages of the master, one for each kind; one break, so that the
watchdog is at each point of its turn when the signal comes. *ServerSession*: two clients,
two requests each.

`CHECK_DEADLOCK FALSE` where the system may stop: the clock's bound with the process
down (Engine, EngineThreads), the end of the process
(MasterSession, Node, Shutdown), a client that says nothing more (ServerSession).

**Fairness.** *Queue*: a thread that is not asleep runs on (the scheduler of the
operating system), and the consumer calls again after each value (its loop);
no producer has to call, no spurious wakeup has to happen. *Session*: each thread
runs on; of the outside, that the master is reachable (`Dial`), reads, and does
not refuse success for ever when asked again and again (strong fairness of
`MasterAnswers("auth_success")`, since a break may disable it in between), and that
writes to a broken connection do not seem to succeed for ever (TCP gives up). Pushing
and breaking are not fair. *Node*: the event loop runs on; clients need not ask, connections need not
come about and the proxy node need not answer. *Shutdown*: every thread runs on, reads end when
the connection breaks, and a thread that waits for room
gets it if there is room again and again (strong fairness: its rivals for that room sleep for
seconds between two messages); of `connect()` nothing is assumed, nor of the master. *ServerSession*: the event loop, for each client;
`WaitForTimer` and the clients are not fair. `Engine` and `EngineThreads` have safety properties only.

**Mutants.** For every property of a passing run `PROJECT.json` names a plausible bug
(stated beside the definition it replaces, "Mutated form") under which the property fails.

## 4. What is proved

`tlapm` checks every step. The theorems hold for all values of the constants
under the named assumptions `BufAddrAssumption` (an address is a natural number),
`ConstAssumption` (parameters are quadruples of naturals, the sizes of hours,
queues and integers are positive), `UIntAssumption` (a power of two either fits an `unsigned
int` or becomes 0), `QueueAssumption`, `SessionAssumption` and `ShutdownAssumption` (positive
capacities), `ThreadsAssumption` (parameters the engine can run with: an interval
that is positive and not above the lifetime; no token is `NoToken`) and `NodeAssumption` (the bound on
connections is a number).

*Engine* (`EngineProofs`): `TypeCorrect`, `NoIndexOutOfBounds`,
`FiltersHoldExactlyTheRevocations` (`BitsExact`), `AtMostOneFilterShort`
(`OneFilterShort`), `NoFalseNegativeBeforeRotation` (`AnsweredUntilRotation`). The
inductive invariant has three layers.

1. `TInv`: types, finite history, that a running engine has parameters it can rebuild with
   and, when no adjustment is under way, `FiltersNum(param)` filters, which is what
   bounds indices (`Shape`); and of an adjustment, that the files it has found exist until it has
   read them and that the vector it has then built is the recovery of the lines
   it took (`Adjusting`), whatever happens to the files after that.
2. `BInv`: `BitsExact` is not inductive by itself, since a rebuild takes the bits
   from the log and not from the history. It is strengthened by the fact that
   each line in `pending`, `logQueue`, a file or the hands of an adjustment is that of some entry of
   the history, so that what a recovery adds is accounted for.
3. `CInv`, which rests while an adjustment is under way: an entry whose bits are in `left` filters expires less than
   `left + 1` intervals from now or, once it has seen a rotation, less than that from
   the next rotation. Time brings the expiry nearer, and a rotation comes no
   sooner than an interval after the one before, so a query can
   find at most one filter too many gone.

`FoundAgainBeforeRotation` (`MissedOnlyAfterRotation`) follows from `CInv` too, and
says how long the false negatives of run `engine_rotation` last: from a rotation until
the remaining lifetime next falls below a multiple of the interval.

`EngineRebuildProofs` adds three theorems. `FiltersAreNested` (`Nested`): `BitsExact` gives it
once all filters have the same size and number of hashes (`Alike`), which a rotation after a
rebuild with a truncated size would break if it did not throw. `AnswersTellTheDepth`
(`AnsweredByDepth`): each answer is exactly a statement about depths, since a filter
holds the bits of the revocations that reach it, at least one hash is made (`Alike` and the
checks of the constructor), and the index does not depend on the key. `RebuildRestoresTheLog`
(`RebuildKeepsLogged`): from `TInv` and `DInv`, that a line last written to a file of a retained
hour is in that file (`OnDisk`), that no file is of an hour to come, and that each line an adjustment
owes is in a file it has found and not yet read, or among the lines it took, unless
its file did not open or its lifetime was above the maximum (`Owed`). The clock moving on, files deleted by a
recovery beside a log thread that writes, and lines appended to old files each threaten it. Of a
scan that started from a spoilt time nothing is owed.

*EngineThreads* (`EngineThreadsProofs`): `ThreadsTypeCorrect`, `AdjustmentsSettle`
(`Settled`), `CleanWalksStayInside`, `CleanWalksKeepHold` (`CleanWalkHolds`),
`InsertsLeaveNoGap` (`HeldInOrder`),
`RotationsKeepApart` and `ThreadsImplementDepth`, for any number of tokens, filters
and parameters. The invariant relates the places of the three actors: which of
the message and rotation thread holds the lock, that `filtersNum` and the vector are
those of `param` when no adjustment is under way, that a clean insert has put its
token into, and a clean query of an untorn token found it in, every filter before `next`, that a
clean insert is beside no other and what an insert can take away is torn or being torn, that the
tokens not torn are in a prefix of the vector, and that
a deadline is an interval after the rotation before it. The refinement follows
from it step by step: a clean insert deepens by one or changes nothing, all
others tear.

*Node* (`NodeProofs`): `NodeTypeCorrect`, `UnansweredNeedsCause` (`UnansweredByChangeOrProxy`),
`AnswersMatch`, `FiltersHoldTheLog`, `NeverForwards`, `SlavesTakeNothing` (`SlaveForGood`). `AnswersMatch` needs that at most one query
is on any connection, that of the turn under way; `UnansweredNeedsCause` that
every comparison made so far speaks of the one role that is in force unless it
was written meanwhile; `FiltersHoldTheLog` that a token of the log or its queue is in the filters (in the vector just
read, before the swap), or was queued when that was read; the last two that a slave's message thread never
gets back to reading.

*Shutdown* (`ShutdownProofs`): `ShutdownTypeCorrect`, `NoThreadOutlivesItsObjects`
(`NoUseAfterDestruction`), `NothingIsAcceptedTooLate` (`NothingAcceptedTooLate`) and
`HungStays` (`HangsForGood`). What has been joined stays ended, since the only thread
that restarts others is joined before them; so when the log or the send thread may
leave for good, those that write to its queue are no more, and when it is asleep
beside the empty queue nobody is left to wake it. A `connect()` that throws is the one step that
ends a hang: it ends the process.

*ServerSession* (`ServerSessionProofs`): `RequestsPileUp` (`PiledUp`): what run
`server_session` shows of two clients holds of any number, and whatever they do. `recvTask` has
no end but an exception, and an exception ends `handleClient`, so the second await is
never reached.

*ThreadSafeQueue* (`ThreadSafeQueueProofs`): `QueueTypeCorrect`, `NoLostWakeup`,
`WritersAreOwedAWakeup`, `QueueImplementsFifo`, that every step is a step of
`BoundedFifo` or leaves it unchanged, and `ReaderSleepsAlone`, that reader and writers never
sleep at once. On the last rests that the models of the queue's users let a `dequeue` wait for a
value and an `enqueue` for room, and for nothing else. The two wakeup properties are inductive only
together: a notification by a producer reaches the sleeping reader because, by
`SleepersCovered`, no writer sleeps beside an empty queue; and the sleepers stay
covered because there are not more producers than places.

*MasterSession* (`MasterSessionProofs`): `SessionTypeCorrect`, `NoErrorForgotten`
(`Supervised`), `AuthenticationIsAlone` (`HelloAlone`), `SocketHasOneOwner`
(`SocketOwned`), for queues and connections of any size. They follow from two facts
about every state: the watchdog's position says which threads exist, and the
position in `connect()` says what the master knows and what lies on the wire (`Stage`):
only so is it clear that the first message read after the hello is its answer.

`SessionImplementsLink` (`ImplementsLink`) needs two facts more. An error is flagged
only of a connection that broke (`Flagged`): else the watchdog would close one
that serves, and lose what is on its way, which `LossyLink` does not allow. And
nothing comes from the master before its answer to the hello, nor after a refusal
(`Quiet`), so that `Inbound`, which leaves the answer out, has nothing before the link is up. The steps then fall into those that move a message within
`Outbound` or `Inbound`, which change neither, and those that are one action of
`LossyLink`; the lemmas on sequences say which.
`BlockedStays` (`StaysBlocked`) goes through the actors one by one: each is in the
circle, or waits for one who is, or does nothing to what the circle waits for. It holds
for every capacity, the 4096 of the code included, where the runs reach the circles with
queues of one and two places. `BlockedNeverServes` draws the conclusion: from then
on no connection is served, and no exception ends the process either.

*Only model-checked*: liveness (`ImplementsFifo`'s progress, `ReconnectsIfRead`,
`ServerResumes`, `EndsOrWaits` and the liveness that fails), since temporal
fairness is beyond this prover; and that the states the findings are about are reached,
`Blocked` among them: a counterexample on a small instance is all it takes. All
safety and action properties of the passing runs are proved. Two theorems of
which no run checks the statement as such (`BlockedNeverServes`, `RequestsPileUp`)
generalise what the violation runs show.

## 5. What is not modelled, and the plan

*Not modelled, and why.*

* What a slave node does after its connection: `sendLogToProxyNode`, its
  adjustment and its acknowledgement (`Scheduler.hpp:179-189`,
  `NodeMessageSender.hpp:42-105`). `connect` does not return, so no execution gets
  there.
* Framing, JSON, configuration and number parsing: a message is one unit, a
  number its parsed value; their error paths are actions of the parts that use them.
* SHA-256: its digest is not used by the program (`BaseBloomFilter.hpp:66`).
* The proxy node of another machine, the master, clients and the network:
  external, modelled by what the code can observe of them. The proxy node may be this program, so
  nothing is assumed of it, not even that it answers. That a proxied query is
  answered for expiry 0 (the key `expTime` of `NodeMessageSender.hpp:111` against
  `exp_time` of `Server.hpp:96`) needs no interleaving and is listed as a hazard only.
* `msgNum` when two inserts overlap: `++` without a lock may lose counts, which
  only the report of the filling rate shows.
* The set-up of the acceptor, `io_context` and signals, logging and wording. `asio`
  is modelled by how the code uses it.

*The plan.* The order was Engine, ThreadSafeQueue, MasterSession, then
EngineThreads, Node, Shutdown and ServerSession, each with the proofs of its safety, then
`LossyLink` and what the deadlocks and the false negatives amount to for all constants. What is
left: the composition of two nodes, one the proxy of the other (`Node` with the
proxy as a second instance), which would replace the external proxy by what it does, and that
`EngineThreads` without overlapping walks implements `Engine`'s atomic operations, bits
included.
