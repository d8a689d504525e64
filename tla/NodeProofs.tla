------------------------------- MODULE NodeProofs -------------------------------
(***************************************************************************)
(* The safety properties of Node, for any tokens and any number of         *)
(* connections.  Inv adds to them what a turn knows of the role while the  *)
(* role stays (RoleSeen), where a query can be on its way (Outstanding),   *)
(* where a token of the log or its queue is to be found (LogHeld), and     *)
(* that a slave's message thread never comes back (SlaveStays).            *)
(***************************************************************************)
EXTENDS Node, TLAPS

RoleSeen ==
    /\ msg = "assign" => turn.changed
    /\ (turn.at = "proxy?" /\ ~turn.changed) => role # "single_node"
    /\ (turn.at = "slave?" /\ ~turn.changed) => role \notin OwnRole
    /\ (turn.at \in {"send", "recv", "reading"} /\ ~turn.changed) => role = "slave_node"

\* At most one query is on its way, the one of the turn, and on the connection
\* from which its answer is or will be read.
Outstanding ==
    /\ asked = {} \/ replies = {}
    /\ \A q \in asked \cup replies :
        /\ q.token = turn.token
        /\ \/ turn.at = "recv" /\ q.conn = conn /\ conn # 0
           \/ turn.at = "reading" /\ q.conn = turn.on

DiallingUnconnected == msg = "dialling" => conn = 0

\* OwnFiltersHoldTheLog, of the lines still to be written too, and of the filters
\* about to replace the old ones.
LogHeld ==
    /\ (role \in OwnRole /\ msg \in {"read", "ack"}) => queued \cup logged \subseteq filters \cup late
    /\ msg = "swap" => queued \cup logged \subseteq recovered \cup late

SlaveStays == role = "slave_node" => msg \in {"disconnect", "resolve", "dial", "dialling", "dead"}

Inv ==
    /\ TypeOK
    /\ RoleSeen
    /\ UnansweredByChangeOrProxy
    /\ Outstanding
    /\ DiallingUnconnected
    /\ AnswersAreToThisQuery
    /\ LogHeld
    /\ SlaveStays
    /\ NothingForwarded

-----------------------------------------------------------------------------
LEMMA InvInit ==
    Init => Inv
<1> SUFFICES ASSUME Init PROVE Inv
    OBVIOUS
<1>1. turn \in Turn /\ turn.at = "idle" /\ ~turn.changed
    <2>1. PICK t \in Token : turn = [at |-> "idle", token |-> t, on |-> 0, changed |-> FALSE, failed |-> FALSE]
        BY DEF Init
    <2> QED  BY <2>1 DEF Turn
<1>2. TypeOK
    BY <1>1, NodeAssumption DEF Init, TypeOK, Role
<1> QED  BY <1>1, <1>2 DEF Init, Inv, RoleSeen, UnansweredByChangeOrProxy, Outstanding, DiallingUnconnected,
            AnswersAreToThisQuery, LogHeld, SlaveStays, NothingForwarded

\* What each part of the invariant looks at; a step that leaves these alone
\* keeps the part.
LEMMA Frames ==
    ASSUME Inv
    PROVE  /\ UNCHANGED <<turn, role, msg>> => RoleSeen' /\ UnansweredByChangeOrProxy'
           /\ UNCHANGED <<asked, replies, turn, conn>> => Outstanding'
           /\ UNCHANGED <<msg, conn>> => DiallingUnconnected'
           /\ UNCHANGED answers => AnswersAreToThisQuery'
           /\ UNCHANGED <<role, msg>> => SlaveStays'
           /\ UNCHANGED <<role, msg, logVars, filters>> => LogHeld'
           /\ UNCHANGED forwarded => NothingForwarded'
BY DEF Inv, RoleSeen, UnansweredByChangeOrProxy, Outstanding, DiallingUnconnected,
       AnswersAreToThisQuery, LogHeld, SlaveStays, NothingForwarded, logVars

\* What a turn knows survives every step of the message thread but the writing
\* of the role, which it marks.
LEMMA MessageSteps ==
    ASSUME Inv, MessageThread
    PROVE  Inv'
<1> USE DEF roleVars, logVars, proxyVars
<1>t. turn \in Turn /\ role \in Role /\ newRole \in Role
    BY DEF Inv, TypeOK
<1>1. ASSUME NEW t \in Token, MasterRevoke(t) PROVE Inv'
    <2>1. role \in OwnRole /\ forwarded' = forwarded
        BY <1>1, <1>t DEF MasterRevoke, Inv, SlaveStays, OwnRole, Role
    <2>2. TypeOK'
        BY <1>1, <2>1 DEF MasterRevoke, Inv, TypeOK
    <2>3. LogHeld'
        BY <1>1, <2>1 DEF MasterRevoke, Inv, LogHeld
    <2> QED  BY <1>1, <2>1, <2>2, <2>3, Frames DEF MasterRevoke, Inv
<1>2. ASSUME NEW r \in Role, Adjust(r) PROVE Inv'
    <2>1. turn' = [turn EXCEPT !.changed = TRUE] /\ msg = "read" /\ msg' = "assign"
          /\ UNCHANGED <<role, dials, forwarded, logVars, conn, filters, proxyVars>>
        BY <1>2 DEF Adjust
    <2>2. turn' \in Turn /\ turn'.changed /\ turn'.at = turn.at /\ turn'.token = turn.token
          /\ turn'.on = turn.on
        BY <2>1, <1>t DEF Turn
    <2>3. TypeOK'
        BY <1>2, <2>1, <2>2 DEF Adjust, Inv, TypeOK
    <2>4. RoleSeen' /\ UnansweredByChangeOrProxy' /\ Outstanding'
        BY <2>1, <2>2 DEF Inv, RoleSeen, UnansweredByChangeOrProxy, Outstanding
    <2>5. SlaveStays' /\ LogHeld' /\ DiallingUnconnected'
        BY <2>1 DEF Inv, SlaveStays, DiallingUnconnected, LogHeld
    <2> QED  BY <2>1, <2>3, <2>4, <2>5, Frames DEF Inv
<1>3. CASE AssignRole
    <2>1. TypeOK'
        BY <1>3 DEF AssignRole, Inv, TypeOK
    <2>2. RoleSeen' /\ SlaveStays' /\ LogHeld' /\ UnansweredByChangeOrProxy'
          /\ DiallingUnconnected'
        BY <1>3 DEF AssignRole, Inv, RoleSeen, SlaveStays, LogHeld,
                    UnansweredByChangeOrProxy, DiallingUnconnected
    <2> QED  BY <1>3, <2>1, <2>2, Frames DEF AssignRole, Inv
<1>4. ASSUME Close, UNCHANGED <<roleVars, logVars, filters, turn, answers>>,
             msg' \in {"resolve", "recover", "dialling"}, msg # "assign",
             msg' = "recover" => role # "slave_node"
      PROVE  Inv'
    <2>1. TypeOK'
        BY <1>4 DEF Close, Kept, Inv, TypeOK
    <2>2. RoleSeen' /\ SlaveStays' /\ LogHeld' /\ UnansweredByChangeOrProxy'
          /\ DiallingUnconnected'
        BY <1>4 DEF Inv, RoleSeen, SlaveStays, LogHeld, UnansweredByChangeOrProxy,
                    DiallingUnconnected, Close
    <2>3. Outstanding'
        BY <1>4 DEF Close, Kept, Inv, Outstanding
    <2> QED  BY <1>4, <2>1, <2>2, <2>3, Frames DEF Inv
<1>5. CASE Disconnect
    BY <1>5, <1>4 DEF Disconnect
<1>6. CASE Dial
    BY <1>6, <1>4 DEF Dial
<1>7. CASE Recover \/ Swap
    <2>1. /\ msg \in {"recover", "swap"} /\ msg' \in {"swap", "ack"}
          /\ UNCHANGED <<roleVars, queued, conn, turn, proxyVars>>
        BY <1>7 DEF Recover, Swap
    <2>2. TypeOK'
        BY <1>7 DEF Recover, Swap, Inv, TypeOK
    <2>3. LogHeld'
        BY <1>7 DEF Recover, Swap, Inv, LogHeld
    <2>4. RoleSeen' /\ SlaveStays' /\ UnansweredByChangeOrProxy' /\ DiallingUnconnected'
        BY <2>1 DEF Inv, RoleSeen, SlaveStays, UnansweredByChangeOrProxy, DiallingUnconnected
    <2> QED  BY <2>1, <2>2, <2>3, <2>4, Frames DEF Inv
<1>8. CASE Acknowledge \/ Resolve \/ DialFails \/ Terminate
    <2>1. /\ UNCHANGED <<roleVars, logVars, conn, filters, turn, proxyVars>>
          /\ msg # "assign" /\ msg' \in {"read", "dial", "dead"}
          /\ msg' = "read" => msg = "ack"
        BY <1>8 DEF Acknowledge, Resolve, DialFails, Terminate
    <2>2. TypeOK' /\ LogHeld' /\ RoleSeen' /\ SlaveStays'
          /\ UnansweredByChangeOrProxy' /\ DiallingUnconnected'
        BY <2>1 DEF Inv, TypeOK, LogHeld, RoleSeen, SlaveStays,
                    UnansweredByChangeOrProxy, DiallingUnconnected
    <2> QED  BY <2>1, <2>2, Frames DEF Inv
<1>9. CASE Connected
    <2>1. /\ UNCHANGED <<role, newRole, forwarded, logVars, filters, turn, proxyVars>>
          /\ msg = "dialling" /\ msg' = "dial" /\ dials \in Nat /\ dials < MaxDials
          /\ conn' = dials + 1 /\ dials' = dials + 1
        BY <1>9, NodeAssumption DEF Connected, Inv, TypeOK
    <2>2. TypeOK' /\ LogHeld' /\ RoleSeen' /\ SlaveStays'
          /\ UnansweredByChangeOrProxy' /\ DiallingUnconnected'
        BY <2>1, NodeAssumption DEF Inv, TypeOK, LogHeld, RoleSeen, SlaveStays,
                    UnansweredByChangeOrProxy, DiallingUnconnected
    <2>3. Outstanding'
        BY <2>1 DEF Inv, Outstanding, DiallingUnconnected
    <2> QED  BY <2>1, <2>2, <2>3, Frames DEF Inv
<1> QED  BY <1>1, <1>2, <1>3, <1>5, <1>6, <1>7, <1>8, <1>9 DEF MessageThread

LEMMA LogStep ==
    ASSUME Inv, LogWrite
    PROVE  Inv'
<1>1. PICK t \in queued : queued' \in {queued, queued \ {t}} /\ logged' \in {logged, logged \cup {t}}
    BY DEF LogWrite
<1>2. UNCHANGED <<roleVars, recovered, late, msg, conn, filters, turn, proxyVars>>
    BY DEF LogWrite
<1>3. queued' \cup logged' \subseteq queued \cup logged
    BY <1>1
<1>4. TypeOK' /\ LogHeld'
    BY <1>2, <1>3 DEF Inv, TypeOK, LogHeld, roleVars, proxyVars
<1> QED  BY <1>2, <1>4, Frames DEF Inv, roleVars, proxyVars

\* A turn that goes on without touching the queries.
LEMMA TurnGoesOn ==
    ASSUME Inv, NEW at, turn' = [turn EXCEPT !.at = at],
           at \in {"idle", "own", "proxy?", "slave?", "send", "insert", "unanswered"},
           turn.at \notin {"recv", "reading"},
           filters \subseteq filters', filters' \subseteq Token,
           UNCHANGED <<msgVars, conn, proxyVars>>,
           (at = "proxy?" /\ ~turn.changed) => role # "single_node",
           (at = "slave?" /\ ~turn.changed) => role \notin OwnRole,
           (at = "send" /\ ~turn.changed) => role = "slave_node",
           at = "unanswered" => turn.changed
    PROVE  Inv'
<1> USE DEF msgVars, roleVars, logVars, proxyVars
<1>1. turn \in Turn
    BY DEF Inv, TypeOK
<1>2. turn' \in Turn /\ turn'.at = at /\ turn'.changed = turn.changed
    BY <1>1 DEF Turn
<1>3. TypeOK'
    BY <1>2 DEF Inv, TypeOK
<1>4. RoleSeen' /\ UnansweredByChangeOrProxy'
    BY <1>2 DEF Inv, RoleSeen, UnansweredByChangeOrProxy
<1>5. Outstanding'
    BY DEF Inv, Outstanding
<1>6. LogHeld'
    BY DEF Inv, LogHeld
<1> QED  BY <1>3, <1>4, <1>5, <1>6, Frames DEF Inv

\* One look at the role: while it has not been written, it is the role.
LEMMA ComparisonStep ==
    ASSUME Inv, NEW at, NEW literal, NEW equal, NEW other, Compare(at, literal, equal, other),
           at \in {"single?", "proxy?", "slave?", "insert?"},
           equal \in {"own", "send", "insert"},
           equal = "send" => literal = "slave_node",
           other \in {"proxy?", "slave?", "unanswered", "idle"},
           (role # literal /\ ~turn.changed) =>
                /\ other = "proxy?" => role # "single_node"
                /\ other = "slave?" => role \notin OwnRole
                /\ other # "unanswered"
    PROVE  Inv'
<1>1. PICK r \in RoleRead : turn' = [turn EXCEPT !.at = IF r = literal THEN equal ELSE other]
    BY DEF Compare, Goto
<1>2. ~turn.changed => r = role
    BY <1>1 DEF RoleRead, Inv, RoleSeen
<1>3. /\ turn.at = at /\ filters' = filters /\ filters \subseteq Token
      /\ UNCHANGED <<msgVars, conn, proxyVars>>
    BY DEF Compare, Inv, TypeOK
<1>4. CASE r = literal
    BY <1>1, <1>2, <1>3, <1>4, TurnGoesOn
<1>5. CASE r # literal
    BY <1>1, <1>2, <1>3, <1>5, TurnGoesOn
<1> QED  BY <1>4, <1>5

LEMMA TakeStep ==
    ASSUME Inv, NEW at \in {"single?", "insert?"}, NEW t \in Token, Take(at, t)
    PROVE  Inv'
<1> USE DEF msgVars, roleVars, logVars, proxyVars
<1>1. turn' \in Turn /\ turn'.at = at /\ turn'.changed = (msg = "assign")
      /\ turn.at = "idle" /\ UNCHANGED <<msgVars, conn, filters, proxyVars>>
    BY DEF Take, Turn
<1>2. TypeOK'
    BY <1>1 DEF Inv, TypeOK
<1>3. RoleSeen' /\ UnansweredByChangeOrProxy'
    BY <1>1 DEF Inv, RoleSeen, UnansweredByChangeOrProxy
<1>4. Outstanding'
    BY <1>1 DEF Inv, Outstanding
<1> QED  BY <1>1, <1>2, <1>3, <1>4, Frames DEF Inv

\* The way of a query and its answer.
LEMMA ProxyStep ==
    ASSUME Inv, UNCHANGED <<msgVars, filters>>,
           turn' \in Turn,
           \/ turn' = turn
           \/ turn'.at = "idle"
           \/ turn.at \in {"send", "recv", "reading"} /\ turn'.at \in {"recv", "reading"}
           \/ turn.at \in {"send", "recv", "reading"} /\ turn'.at = "unanswered" /\ turn'.failed,
           turn'.changed = turn.changed,
           conn' \in {0, conn},
           asked' \subseteq Query, replies' \subseteq Query,
           Outstanding', answers' \subseteq Token \X Token, AnswersAreToThisQuery'
    PROVE  Inv'
<1> USE DEF msgVars, roleVars, logVars
<1>1. TypeOK'
    BY DEF Inv, TypeOK
<1>2. RoleSeen' /\ UnansweredByChangeOrProxy'
    BY DEF Inv, RoleSeen, UnansweredByChangeOrProxy
<1>3. DiallingUnconnected'
    BY DEF Inv, DiallingUnconnected
<1> QED  BY <1>1, <1>2, <1>3, Frames DEF Inv

\* An exception, or the end of a turn, that leaves no query behind.
LEMMA TurnEnds ==
    ASSUME Inv, turn.at \in {"send", "recv", "reading"}, Throw \/ Goto("idle"),
           UNCHANGED <<msgVars, conn, filters>>,
           asked' = {}, replies' = {},
           answers' \subseteq Token \X Token, AnswersAreToThisQuery'
    PROVE  Inv'
<1>1. turn \in Turn
    BY DEF Inv, TypeOK
<1>2. /\ turn' \in Turn /\ turn'.changed = turn.changed
      /\ turn'.at = "idle" \/ (turn'.at = "unanswered" /\ turn'.failed)
    BY <1>1 DEF Throw, Goto, Turn
<1>3. Outstanding'
    BY DEF Outstanding
<1> QED  BY <1>2, <1>3, ProxyStep

LEMMA EventLoopSteps ==
    ASSUME Inv, EventLoop \/ ReadFails
    PROVE  Inv'
<1>t. turn \in Turn /\ filters \subseteq Token /\ role \in Role /\ conn \in Nat
      /\ asked \subseteq Query /\ replies \subseteq Query
      /\ answers \subseteq Token \X Token
    BY NodeAssumption DEF Inv, TypeOK
<1>1. CASE IsSingle
    BY <1>1, ComparisonStep DEF IsSingle
<1>2. CASE IsProxy
    <2>1. turn.at = "proxy?"
        BY <1>2 DEF IsProxy, Compare
    <2>2. (role # "proxy_node" /\ ~turn.changed) => role \notin OwnRole
        BY <2>1 DEF Inv, RoleSeen, OwnRole
    <2> QED  BY <1>2, <2>2, ComparisonStep DEF IsProxy
<1>3. CASE IsSlave
    <2>1. turn.at = "slave?"
        BY <1>3 DEF IsSlave, Compare
    <2>2. role # "slave_node" => turn.changed
        BY <2>1, <1>t DEF Inv, RoleSeen, OwnRole, Role
    <2> QED  BY <1>3, <2>2, ComparisonStep DEF IsSlave
<1>4. CASE TakesInserts
    BY <1>4, ComparisonStep DEF TakesInserts
<1>5. CASE AnswerOwn \/ GiveUp
    <2>1. turn.at \in {"own", "unanswered"} /\ turn' = [turn EXCEPT !.at = "idle"]
          /\ UNCHANGED <<msgVars, conn, filters, proxyVars>>
        BY <1>5 DEF AnswerOwn, GiveUp, Goto
    <2> QED  BY <2>1, <1>t, TurnGoesOn
<1>6. CASE Insert
    <2>1. turn.at = "insert" /\ turn' = [turn EXCEPT !.at = "idle"]
          /\ UNCHANGED <<msgVars, conn, proxyVars>>
        BY <1>6 DEF Insert, Goto
    <2>2. turn.token \in Token
        BY <1>t DEF Turn
    <2>3. filters \subseteq filters' /\ filters' \subseteq Token
        BY <1>6, <2>2, <1>t DEF Insert
    <2> QED  BY <2>1, <2>3, TurnGoesOn
<1>7. CASE SendQuery
    <2>1. turn.at = "send" /\ UNCHANGED <<msgVars, conn, filters, replies, answers>>
        BY <1>7 DEF SendQuery
    <2>2. asked = {} /\ replies = {}
        BY <2>1 DEF Inv, Outstanding
    <2>3. CASE conn = 0
        <3>1. Throw /\ UNCHANGED asked
            BY <1>7, <2>3 DEF SendQuery
        <3> QED  BY <3>1, <2>1, <2>2, <1>t, Frames, TurnEnds
    <2>4. CASE conn # 0
        <3>1. turn' = [turn EXCEPT !.at = "recv"] /\ asked' = {[conn |-> conn, token |-> turn.token]}
            BY <1>7, <2>2, <2>4 DEF SendQuery, Goto
        <3>2. turn' \in Turn /\ turn'.at = "recv" /\ turn'.changed = turn.changed
              /\ turn'.token = turn.token /\ turn.token \in Token
            BY <3>1, <1>t DEF Turn
        <3>3. asked' \subseteq Query
            BY <3>1, <3>2, <1>t DEF Query
        <3>4. Outstanding'
            BY <3>1, <3>2, <2>1, <2>2, <2>4 DEF Outstanding
        <3> QED  BY <3>2, <3>3, <3>4, <2>1, <1>t, Frames, ProxyStep
    <2> QED  BY <2>3, <2>4
<1>8. CASE Receive
    <2>1. turn.at = "recv" /\ UNCHANGED <<msgVars, conn, filters, asked, replies, answers>>
        BY <1>8 DEF Receive, proxyVars
    <2>2. \A q \in asked \cup replies : q.token = turn.token /\ q.conn = conn /\ conn # 0
        BY <2>1 DEF Inv, Outstanding
    <2>3. CASE conn = 0
        <3>1. Throw /\ asked' = {} /\ replies' = {}
            BY <1>8, <2>1, <2>2, <2>3 DEF Receive
        <3> QED  BY <3>1, <2>1, <1>t, Frames, TurnEnds
    <2>4. CASE conn # 0
        <3>1. turn' \in Turn /\ turn'.changed = turn.changed /\ turn'.token = turn.token
              /\ turn'.at = "reading" /\ turn'.on = conn
            BY <1>8, <2>4, <1>t DEF Receive, Turn
        <3>2. Outstanding'
            BY <2>1, <2>2, <3>1 DEF Inv, Outstanding
        <3> QED  BY <2>1, <3>1, <3>2, <1>t, Frames, ProxyStep
    <2> QED  BY <2>3, <2>4
<1>9. CASE ReadReply
    <2>1. turn.at = "reading" /\ UNCHANGED <<msgVars, conn, filters, asked>>
        BY <1>9 DEF ReadReply
    <2>2. PICK r \in replies : /\ r.conn = turn.on /\ replies' = replies \ {r}
                               /\ \/ Goto("idle") /\ answers' = answers \cup {<<turn.token, r.token>>}
                                  \/ Throw /\ UNCHANGED answers
        BY <1>9 DEF ReadReply
    <2>3. asked = {} /\ \A q \in replies : q.token = turn.token /\ q.conn = turn.on
        BY <2>1, <2>2 DEF Inv, Outstanding
    <2>4. replies' = {}
        BY <2>2, <2>3, <1>t DEF Query
    <2>5. r.token = turn.token /\ turn.token \in Token
        BY <2>3, <1>t DEF Turn
    <2>6. answers' \subseteq Token \X Token /\ AnswersAreToThisQuery'
        BY <2>2, <2>5, <1>t DEF Inv, AnswersAreToThisQuery
    <2> QED  BY <2>1, <2>2, <2>3, <2>4, <2>6, TurnEnds
<1>10. CASE ReadFails
    <2>1. turn.at = "reading" /\ Throw
          /\ UNCHANGED <<msgVars, conn, filters, answers>>
          /\ asked' = {q \in asked : q.conn # turn.on}
          /\ replies' = {q \in replies : q.conn # turn.on}
        BY <1>10 DEF ReadFails
    <2>2. asked' = {} /\ replies' = {}
        BY <2>1 DEF Inv, Outstanding
    <2> QED  BY <2>1, <2>2, <1>t, Frames, TurnEnds
<1> QED  BY <1>1, <1>2, <1>3, <1>4, <1>5, <1>6, <1>7, <1>8, <1>9, <1>10 DEF EventLoop

LEMMA OutsideSteps ==
    ASSUME Inv, ProxyAnswers \/ Break
    PROVE  Inv'
<1>t. turn \in Turn /\ asked \subseteq Query /\ replies \subseteq Query
      /\ answers \subseteq Token \X Token
    BY DEF Inv, TypeOK
<1>1. CASE ProxyAnswers
    <2>1. PICK q \in asked : asked' = asked \ {q} /\ replies' = replies \cup {q}
                             /\ UNCHANGED <<msgVars, conn, filters, turn, answers>>
        BY <1>1 DEF ProxyAnswers
    <2>2. asked' = {} /\ replies' = {q}
        <3>1. replies = {} /\ \A p \in asked : p.token = q.token /\ p.conn = q.conn
            BY <2>1 DEF Inv, Outstanding
        <3> QED  BY <3>1, <2>1, <1>t DEF Query
    <2>3. Outstanding'
        BY <2>1, <2>2 DEF Inv, Outstanding
    <2> QED  BY <2>1, <2>2, <2>3, <1>t, Frames, ProxyStep
<1>2. CASE Break
    <2>1. /\ conn' = 0 /\ UNCHANGED <<msgVars, filters, turn, answers>>
          /\ asked' = {q \in asked : q.conn # conn}
          /\ replies' = {q \in replies : q.conn # conn}
        BY <1>2 DEF Break
    <2>2. Outstanding'
        BY <2>1 DEF Inv, Outstanding
    <2> QED  BY <2>1, <2>2, <1>t, Frames, ProxyStep
<1> QED  BY <1>1, <1>2

LEMMA InvNext ==
    ASSUME Inv, [Next]_vars
    PROVE  Inv'
<1>1. CASE MessageThread
    BY <1>1, MessageSteps
<1>2. CASE \E t \in Token : Take("single?", t) \/ Take("insert?", t)
    BY <1>2, TakeStep
<1>3. CASE EventLoop \/ ReadFails
    BY <1>3, EventLoopSteps
<1>4. CASE ProxyAnswers \/ Break
    BY <1>4, OutsideSteps
<1>5. CASE LogWrite
    BY <1>5, LogStep
<1>6. CASE UNCHANGED vars
    <2>1. TypeOK'
        BY <1>6 DEF Inv, TypeOK, vars, msgVars, roleVars, logVars, proxyVars
    <2> QED  BY <1>6, <2>1, Frames DEF Inv, vars, msgVars, roleVars, logVars, proxyVars
<1> QED  BY <1>1, <1>2, <1>3, <1>4, <1>5, <1>6 DEF Next

LEMMA InvAlways ==
    Spec => []Inv
<1>1. Init => Inv
    BY InvInit
<1>2. Inv /\ [Next]_vars => Inv'
    BY InvNext
<1> QED  BY <1>1, <1>2, PTL DEF Spec

-----------------------------------------------------------------------------
(* The theorems *)

\* Types of the node's state (Scheduler.hpp, Server.hpp, NodeMessageSender.hpp).
THEOREM NodeTypeCorrect ==
    Spec => []TypeOK
<1>1. Inv => TypeOK
    BY DEF Inv
<1> QED  BY <1>1, InvAlways, PTL

\* A query that stays without answer met a change of the role, or an exception of
\* the proxied query on a slave (Server.hpp:98, 109, 110).
THEOREM UnansweredNeedsCause ==
    Spec => []UnansweredByChangeOrProxy
<1>1. Inv => UnansweredByChangeOrProxy
    BY DEF Inv
<1> QED  BY <1>1, InvAlways, PTL

\* However often the socket is dialled anew and broken between a query and its
\* answer, no answer is taken for another query's (NodeMessageSender.hpp:112-114).
THEOREM AnswersMatch ==
    Spec => []AnswersAreToThisQuery
<1>1. Inv => AnswersAreToThisQuery
    BY DEF Inv
<1> QED  BY <1>1, InvAlways, PTL

\* A node that answers by itself has in its filters what is in its log, but for
\* what was still queued when they were last read from it, whatever the log thread
\* writes and drops in between (Scheduler.hpp:109-116, 134, 157, Engine.hpp:172-174).
THEOREM FiltersHoldTheLog ==
    Spec => []OwnFiltersHoldTheLog
<1>1. Inv => OwnFiltersHoldTheLog
    BY DEF Inv, LogHeld, OwnFiltersHoldTheLog
<1> QED  BY <1>1, InvAlways, PTL

\* The branch that forwards revocations to a proxy node is never reached
\* (Scheduler.hpp:112-115).
THEOREM NeverForwards ==
    Spec => []NothingForwarded
<1>1. Inv => NothingForwarded
    BY DEF Inv
<1> QED  BY <1>1, InvAlways, PTL

\* A slave keeps its role and takes no revocation again, but for the one whose
\* insertion was decided on before (NodeMessageSender.hpp:30-39, Server.hpp:121-127).
THEOREM SlavesTakeNothing ==
    Spec => SlaveForGood
<1> DEFINE Step == /\ UNCHANGED <<role, forwarded>>
                   /\ (queued \cup logged)' \subseteq queued \cup logged
                   /\ filters' \subseteq filters \cup (IF turn.at = "insert" THEN {turn.token} ELSE {})
                   /\ turn'.at = "insert" => turn.at = "insert"
<1>1. ASSUME Inv, role = "slave_node", [Next]_vars
      PROVE  Step
    <2> USE <1>1 DEF msgVars, roleVars, logVars, proxyVars
    <2>t. turn \in Turn
        BY DEF Inv, TypeOK
    <2>1. msg \in {"disconnect", "resolve", "dial", "dialling", "dead"}
        BY DEF Inv, SlaveStays
    <2>2. CASE MessageThread
        BY <2>1, <2>2 DEF MessageThread, MasterRevoke, Adjust, AssignRole, Disconnect, Recover, Swap,
                          Acknowledge, Resolve, Dial, Connected, DialFails, Terminate
    <2>3. CASE LogWrite
        BY <2>3 DEF LogWrite
    <2>4. ASSUME NEW at, NEW literal, NEW equal, NEW other, Compare(at, literal, equal, other),
                 other # "insert", literal \in OwnRole \/ equal # "insert"
          PROVE  Step
        <3>1. PICK r \in RoleRead : turn' = [turn EXCEPT !.at = IF r = literal THEN equal ELSE other]
            BY <2>4 DEF Compare, Goto
        <3>2. r = "slave_node"
            BY <2>1, <3>1 DEF RoleRead
        <3>3. turn'.at # "insert"
            BY <3>1, <3>2, <2>4, <2>t DEF OwnRole, Turn
        <3> QED  BY <3>3, <2>4 DEF Compare
    <2>5. CASE IsSingle \/ IsProxy \/ IsSlave \/ TakesInserts
        BY <2>4, <2>5 DEF IsSingle, IsProxy, IsSlave, TakesInserts, OwnRole
    <2>6. CASE Insert
        BY <2>6, <2>t DEF Insert, Goto, Turn
    <2>7. CASE \/ \E t \in Token : Take("single?", t) \/ Take("insert?", t)
               \/ AnswerOwn \/ GiveUp \/ SendQuery \/ Receive \/ ReadReply \/ ReadFails
        <3>1. UNCHANGED <<msgVars, filters>>
            BY <2>7 DEF Take, AnswerOwn, GiveUp, SendQuery, Receive, ReadReply, ReadFails
        <3>2. CASE \E t \in Token : Take("single?", t) \/ Take("insert?", t)
            BY <3>1, <3>2 DEF Take
        <3>3. CASE AnswerOwn \/ GiveUp \/ SendQuery \/ Receive \/ ReadReply \/ ReadFails
            <4>1. turn'.at \in {"idle", "recv", "reading", "unanswered"}
                BY <3>3, <2>t DEF AnswerOwn, GiveUp, SendQuery, Receive, ReadReply, ReadFails, Throw,
                                  Goto, Turn
            <4> QED  BY <3>1, <4>1
        <3> QED  BY <2>7, <3>2, <3>3
    <2>8. CASE ProxyAnswers \/ Break
        BY <2>8 DEF ProxyAnswers, Break
    <2>9. CASE UNCHANGED vars
        BY <2>9 DEF vars
    <2> QED  BY <2>2, <2>3, <2>5, <2>6, <2>7, <2>8, <2>9 DEF Next, EventLoop
<1>2. Inv /\ [Next]_vars => [role = "slave_node" => Step]_vars
    BY <1>1
<1> QED  BY <1>2, InvAlways, PTL DEF Spec, SlaveForGood

=============================================================================
