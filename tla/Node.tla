---------------------------------- MODULE Node ----------------------------------
(***************************************************************************)
(* The roles of a node: the message thread of Scheduler.hpp, which changes *)
(* them, the event loop of Server.hpp, which reads them once and again     *)
(* while it handles a request, and the NodeMessageSender between the two,  *)
(* whose socket the message thread dials while the event loop talks on it. *)
(*                                                                         *)
(* A turn of Server::processTask has no co_await between its dequeue and   *)
(* its last statement, so the event loop does one turn at a time, whoever  *)
(* the client.  The engine is reduced to the tokens its filters hold and   *)
(* those in its log queue and its log; tokens do not expire, filters do    *)
(* not rotate, log files open and are young enough to be read (all that is *)
(* a matter of module Engine).  The proxy node is external: it may be this *)
(* same program, and need not answer.                                      *)
(***************************************************************************)
EXTENDS Naturals

CONSTANTS
    Token,
    MaxDials    \* bound on the connections to proxy nodes

ASSUME NodeAssumption == MaxDials \in Nat

Role == {"single_node", "proxy_node", "slave_node"}
OwnRole == {"single_node", "proxy_node"}

VARIABLES
    role,       \* nodeRole
    newRole,    \* node_role of the adjust_bloom_filter being handled
    msg,        \* where the message thread is
    conn,       \* the connection sock has, counted from 1; 0: none, or broken
    dials,      \* how many there have been
    filters,    \* tokens in the engine's filters
    queued,     \* tokens in its logQueue
    logged,     \* tokens in its log files
    recovered,  \* tokens in the filters adjustFiltersParam has read from the log
    late,       \* history: tokens that were queued when the log was last read
    forwarded,  \* tokens sent to a proxy node to be revoked there
    turn,       \* the request the event loop is handling
    asked,      \* queries on their way to a proxy node
    replies,    \* and answers on their way back
    answers     \* history: which token each answer of a proxy node was used for

roleVars == <<role, newRole, dials, forwarded>>
logVars == <<queued, logged, recovered, late>>
proxyVars == <<asked, replies, answers>>
msgVars == <<roleVars, logVars, msg>>
vars == <<msgVars, conn, filters, turn, proxyVars>>

\* at: the line of processTask, in words; on: the connection a reply is read
\* from; changed (history): the role has been written since the turn began;
\* failed (history): the proxied query threw.
Turn == [at : {"idle", "single?", "proxy?", "slave?", "insert?", "insert", "own", "send", "recv",
               "reading", "unanswered"},
         token : Token, on : Nat, changed : BOOLEAN, failed : BOOLEAN]
Query == [conn : Nat, token : Token]

Goto(at) == turn' = [turn EXCEPT !.at = at]

\* getNodeRole copies the string while the message thread may be writing it:
\* the copy is the old one, the new one, or none of the three.
RoleRead == IF msg = "assign" THEN {role, newRole, "torn"} ELSE {role}

\* What is left of a set of queries or answers when sock lets go of its
\* connection: a blocked read keeps the connection it reads from.
Kept(qs) == {q \in qs : turn.at = "reading" /\ q.conn = turn.on}

-----------------------------------------------------------------------------
Init ==
    /\ role = "single_node" /\ newRole = "single_node"
    /\ msg = "read"
    /\ conn = 0 /\ dials = 0
    /\ filters = {} /\ forwarded = {}
    /\ queued = {} /\ logged = {} /\ recovered = {} /\ late = {}
    /\ turn \in {[at |-> "idle", token |-> t, on |-> 0, changed |-> FALSE, failed |-> FALSE] : t \in Token}
    /\ asked = {} /\ replies = {} /\ answers = {}

-----------------------------------------------------------------------------
(* The message thread *)

\* revoke_jwt: by role, then to the log whatever the role.
MasterRevoke(t) ==
    /\ msg = "read"
    /\ IF role \in OwnRole
       THEN filters' = filters \cup {t} /\ late' = late \ {t}
       ELSE UNCHANGED <<filters, late>>
    /\ forwarded' = IF role = "slave_node" THEN forwarded \cup {t} ELSE forwarded
    /\ queued' = queued \cup {t}
    /\ UNCHANGED <<role, newRole, dials, msg, logged, recovered, conn, turn, proxyVars>>

\* adjust_bloom_filter arrives: nodeRole is about to be written.
Adjust(r) ==
    /\ msg = "read"
    /\ msg' = "assign"
    /\ newRole' = r
    /\ turn' = [turn EXCEPT !.changed = TRUE]
    /\ UNCHANGED <<role, dials, forwarded, logVars, conn, filters, proxyVars>>

\* Mutated form: the name as a comment of the source spells it.
AssignRoleTypo ==
    /\ msg = "assign"
    /\ msg' = "disconnect"
    /\ role' = IF newRole = "slave_node" THEN "salve_node" ELSE newRole
    /\ UNCHANGED <<newRole, dials, forwarded, logVars, conn, filters, turn, proxyVars>>

AssignRole ==
    /\ msg = "assign"
    /\ msg' = "disconnect"
    /\ role' = newRole
    /\ UNCHANGED <<newRole, dials, forwarded, logVars, conn, filters, turn, proxyVars>>

\* sock lets go of its connection.
Close ==
    /\ conn' = 0
    /\ asked' = Kept(asked)
    /\ replies' = Kept(replies)

Disconnect ==
    /\ msg = "disconnect"
    /\ msg' = IF role = "slave_node" THEN "resolve" ELSE "recover"
    /\ Close
    /\ UNCHANGED <<roleVars, logVars, filters, turn, answers>>

\* Mutated form: the new filters stay empty.
RecoverNothing ==
    /\ msg = "recover"
    /\ msg' = "swap"
    /\ recovered' = {} /\ late' = queued
    /\ UNCHANGED <<roleVars, queued, logged, conn, filters, turn, proxyVars>>

\* adjustFiltersParam: new filters from the log files; what is still in the
\* queue is not in them.  Beside a log thread at work on a line the scan may miss
\* all files (Engine, Scans), which are then deleted.
Recover ==
    /\ msg = "recover"
    /\ msg' = "swap"
    /\ logged' = logged \/ (queued # {} /\ logged' = {})
    /\ recovered' = logged' /\ late' = queued
    /\ UNCHANGED <<roleVars, queued, conn, filters, turn, proxyVars>>

\* They replace the old ones, and what the event loop has put into these since.
Swap ==
    /\ msg = "swap"
    /\ msg' = "ack"
    /\ filters' = recovered /\ recovered' = {}
    /\ UNCHANGED <<roleVars, queued, logged, late, conn, turn, proxyVars>>

Acknowledge ==
    /\ msg = "ack"
    /\ msg' = "read"
    /\ UNCHANGED <<roleVars, logVars, conn, filters, turn, proxyVars>>

\* NodeMessageSender::connect.  Its loop has no exit: five seconds after a
\* connection, made or failed, it closes the socket and dials again.
Resolve ==
    /\ msg = "resolve"
    /\ msg' = "dial"
    /\ UNCHANGED <<roleVars, logVars, conn, filters, turn, proxyVars>>

Dial ==
    /\ msg = "dial"
    /\ msg' = "dialling"
    /\ Close
    /\ UNCHANGED <<roleVars, logVars, filters, turn, answers>>

\* Mutated form: the loop ends with a connection, as its message suggests.
ConnectedOnce ==
    /\ msg = "dialling"
    /\ dials < MaxDials
    /\ msg' = "recover"
    /\ conn' = dials + 1 /\ dials' = dials + 1
    /\ UNCHANGED <<role, newRole, forwarded, logVars, filters, turn, proxyVars>>

Connected ==
    /\ msg = "dialling"
    /\ dials < MaxDials
    /\ msg' = "dial"
    /\ conn' = dials + 1 /\ dials' = dials + 1
    /\ UNCHANGED <<role, newRole, forwarded, logVars, filters, turn, proxyVars>>

DialFails ==
    /\ msg = "dialling"
    /\ msg' = "dial"
    /\ UNCHANGED <<roleVars, logVars, conn, filters, turn, proxyVars>>

\* Nothing catches an exception of this thread (a message that does not parse
\* or lacks a field, a host without address, parameters the engine throws on):
\* the process ends.
Terminate ==
    /\ msg \in {"read", "resolve", "recover"}
    /\ msg' = "dead"
    /\ UNCHANGED <<roleVars, logVars, conn, filters, turn, proxyVars>>

-----------------------------------------------------------------------------
\* The log thread writes a line, or drops it: the file does not open, or it is
\* a new one that the recovery going on removes because it has not found it.
\* The same token may be queued more than once.
LogWrite ==
    /\ msg # "dead"
    /\ \E t \in queued :
        /\ queued' \in {queued, queued \ {t}}
        /\ logged' \in {logged, logged \cup {t}}
    /\ UNCHANGED <<roleVars, recovered, late, msg, conn, filters, turn, proxyVars>>

-----------------------------------------------------------------------------
(* A turn of processTask *)

Take(at, t) ==
    /\ turn.at = "idle" /\ msg # "dead"
    /\ turn' = [at |-> at, token |-> t, on |-> 0, changed |-> msg = "assign", failed |-> FALSE]
    /\ UNCHANGED <<msgVars, conn, filters, proxyVars>>

\* One comparison of the role with a literal.
Compare(at, literal, equal, other) ==
    /\ turn.at = at /\ msg # "dead"
    /\ \E r \in RoleRead : Goto(IF r = literal THEN equal ELSE other)
    /\ UNCHANGED <<msgVars, conn, filters, proxyVars>>

IsSingle == Compare("single?", "single_node", "own", "proxy?")
IsProxy == Compare("proxy?", "proxy_node", "own", "slave?")

\* Mutated form: the proxied query is for the role that is not there.
IsSlaveTypo == Compare("slave?", "salve_node", "send", "unanswered")
IsSlave == Compare("slave?", "slave_node", "send", "unanswered")

\* isRevoked of the node's own engine, and the answer into the send queue.
AnswerOwn ==
    /\ turn.at = "own" /\ msg # "dead"
    /\ Goto("idle")
    /\ UNCHANGED <<msgVars, conn, filters, proxyVars>>

\* The query stays without answer: on to the next request, or to the next
\* client after an exception.
GiveUp ==
    /\ turn.at = "unanswered" /\ msg # "dead"
    /\ Goto("idle")
    /\ UNCHANGED <<msgVars, conn, filters, proxyVars>>

\* revoke_jwt from another node: the role, and then the filters.
TakesInserts == Compare("insert?", "proxy_node", "insert", "idle")

Insert ==
    /\ turn.at = "insert" /\ msg # "dead"
    /\ filters' = filters \cup {turn.token}
    /\ Goto("idle")
    /\ UNCHANGED <<msgVars, conn, proxyVars>>

-----------------------------------------------------------------------------
(* NodeMessageSender::isRevoked, on the same thread.  An exception ends the  *)
(* client's coroutines: its query stays without answer                       *)

Throw == turn' = [turn EXCEPT !.at = "unanswered", !.failed = TRUE]

\* Mutated form: the query waits for a connection.
SendQueryWaiting ==
    /\ turn.at = "send" /\ msg # "dead"
    /\ conn # 0
    /\ Goto("recv") /\ asked' = asked \cup {[conn |-> conn, token |-> turn.token]}
    /\ UNCHANGED <<msgVars, conn, filters, replies, answers>>

SendQuery ==
    /\ turn.at = "send" /\ msg # "dead"
    /\ IF conn = 0 THEN Throw /\ UNCHANGED asked
       ELSE Goto("recv") /\ asked' = asked \cup {[conn |-> conn, token |-> turn.token]}
    /\ UNCHANGED <<msgVars, conn, filters, replies, answers>>

\* The read begins on whatever connection the socket has by now.
Receive ==
    /\ turn.at = "recv" /\ msg # "dead"
    /\ IF conn = 0 THEN Throw ELSE turn' = [turn EXCEPT !.at = "reading", !.on = conn]
    /\ UNCHANGED <<msgVars, conn, filters, proxyVars>>

\* A reply that does not parse, or has no status, throws.
ReadReply ==
    /\ turn.at = "reading" /\ msg # "dead"
    /\ \E r \in replies :
        /\ r.conn = turn.on
        /\ replies' = replies \ {r}
        /\ \/ Goto("idle") /\ answers' = answers \cup {<<turn.token, r.token>>}
           \/ Throw /\ UNCHANGED answers
    /\ UNCHANGED <<msgVars, conn, filters, asked>>

\* Mutated form: the read gives up after a while.
ReadTimesOut ==
    /\ turn.at = "reading" /\ msg # "dead"
    /\ Throw
    /\ UNCHANGED <<msgVars, conn, filters, proxyVars>>

\* The connection broke, or another thread closed the socket under the read,
\* which some systems report and some do not.
ReadFails ==
    /\ turn.at = "reading" /\ msg # "dead"
    /\ turn.on # conn
    /\ Throw
    /\ asked' = {q \in asked : q.conn # turn.on}
    /\ replies' = {q \in replies : q.conn # turn.on}
    /\ UNCHANGED <<msgVars, conn, filters, answers>>

-----------------------------------------------------------------------------
(* Outside *)

\* The proxy node may answer; if it does not, nothing here notices.
ProxyAnswers ==
    \E q \in asked :
        /\ asked' = asked \ {q}
        /\ replies' = replies \cup {q}
        /\ UNCHANGED <<msgVars, conn, filters, turn, answers>>

Break ==
    /\ conn # 0
    /\ conn' = 0
    /\ asked' = {q \in asked : q.conn # conn}
    /\ replies' = {q \in replies : q.conn # conn}
    /\ UNCHANGED <<msgVars, filters, turn, answers>>

MessageThread ==
    \/ \E t \in Token : MasterRevoke(t)
    \/ \E r \in Role : Adjust(r)
    \/ AssignRole \/ Disconnect \/ Recover \/ Swap \/ Acknowledge
    \/ Resolve \/ Dial \/ Connected \/ DialFails
    \/ Terminate

EventLoop ==
    \/ IsSingle \/ IsProxy \/ IsSlave \/ AnswerOwn \/ GiveUp \/ TakesInserts \/ Insert
    \/ SendQuery \/ Receive \/ ReadReply

Next ==
    \/ MessageThread
    \/ LogWrite
    \/ \E t \in Token : Take("single?", t) \/ Take("insert?", t)
    \/ EventLoop
    \/ ReadFails
    \/ ProxyAnswers
    \/ Break

Spec == Init /\ [][Next]_vars

\* The event loop runs on.  Clients need not ask, connections need not come about
\* or last, and a proxy node need not answer.
FairSpec == Spec /\ WF_vars(EventLoop)

-----------------------------------------------------------------------------
(* Properties *)

TypeOK ==
    /\ role \in Role /\ newRole \in Role
    /\ msg \in {"read", "assign", "disconnect", "recover", "swap", "ack", "resolve", "dial",
                "dialling", "dead"}
    /\ dials \in 0..MaxDials /\ conn \in 0..dials
    /\ filters \subseteq Token /\ forwarded \subseteq Token
    /\ queued \subseteq Token /\ logged \subseteq Token
    /\ recovered \subseteq Token /\ late \subseteq Token
    /\ turn \in Turn
    /\ asked \subseteq Query /\ replies \subseteq Query
    /\ answers \subseteq Token \X Token

\* A query goes without an answer only if the role was written while it was
\* being handled (the three reads of Server.hpp:98 and 109 then see two roles,
\* or a torn one), or on a slave whose proxied query threw: no connection, one that
\* broke, an answer that cannot be used (Server.hpp:110, NodeMessageSender.hpp:112-120).
UnansweredByChangeOrProxy ==
    turn.at = "unanswered" => turn.changed \/ (role = "slave_node" /\ turn.failed)

\* The answer used for a query is the answer to that query, though the socket
\* is dialled anew between and during write and read, and replies carry
\* nothing to match them by (NodeMessageSender.hpp:31, 112-114).
AnswersAreToThisQuery == \A a \in answers : a[1] = a[2]

\* While a node answers by itself, a token of its log is in its filters, in
\* whatever roles the node was when it took it, unless the token's line was still
\* in the log queue when the filters were last read from the log, and no revocation
\* of it has come since (Scheduler.hpp:109-116, 134, 157, Engine.hpp:115-120, 172-174).
OwnFiltersHoldTheLog ==
    (role \in OwnRole /\ msg \in {"read", "ack"}) => logged \subseteq filters \cup late

\* No revocation is ever forwarded to a proxy node: the thread that would do it
\* (Scheduler.hpp:112-115) does not come back from becoming a slave, since
\* connect does not return (NodeMessageSender.hpp:30-39).
NothingForwarded == forwarded = {}

\* A node that has become a slave stays one and takes no revocation again, from
\* the master or from other nodes: nothing new comes to its log, and nothing to its
\* filters but the one token whose insertion the event loop had decided on while
\* the node was a proxy.  Its message thread does not come back from connect
\* (NodeMessageSender.hpp:30-39), and the server inserts as a proxy only
\* (Server.hpp:121-127).
SlaveForGood ==
    [][role = "slave_node" =>
        /\ UNCHANGED <<role, forwarded>>
        /\ (queued \cup logged)' \subseteq queued \cup logged
        /\ filters' \subseteq filters \cup (IF turn.at = "insert" THEN {turn.token} ELSE {})
        /\ turn'.at = "insert" => turn.at = "insert"]_vars

\* The one thread that serves all clients comes back from every request, unless
\* it waits for ever in the read of an answer that is not there: the proxy node does
\* not give it, or gave it on another connection (NodeMessageSender.hpp:112-114).
ServerResumes ==
    turn.at # "idle" ~>
        \/ turn.at = "idle" \/ msg = "dead"
        \/ [](turn.at = "reading" /\ \A q \in replies : q.conn # turn.on)

=============================================================================
