------------------------------ MODULE Positions ------------------------------
(***************************************************************************)
(* Requests for positions: the Controller's handlers of                    *)
(* RequestForPositions, of its acknowledgement and of the position         *)
(* reports, on the mapping pos_req_id.  Unlike the other requests that use *)
(* a fresh id, an UNSUBSCRIBE goes out under the id of its subscription,   *)
(* and a snapshot is many answers: the acknowledgement says how many, and  *)
(* total_num_pos_reports_ counts them, one counter for all clients.        *)
(*                                                                         *)
(* LogonService and the bridge are as in Subscriptions.                    *)
(***************************************************************************)
EXTENDS Naturals, ReqIds

CONSTANTS
    Users,
    MaxRequests,   \* bound on requests passed on in one behaviour
    MaxReports     \* bound on the reports that one acknowledgement announces

ASSUME ServerIdsAssumption == MaxRequests \in Nat /\ ServerIds = 1 .. MaxRequests
ASSUME MaxReportsAssumption == MaxReports \in Nat

VARIABLES
    up, phase, holder,        \* LogonService
    pos_req_id,               \* subscriptions_.pos_req_id
    total_num_pos_reports,
    next_request_id,          \* Shared
    bridge,                   \* requests the bridge has not finished (external)
    lost,                     \* the request an announced report of which was not passed on
    fatal                     \* the process has ended with a log::fatal

service == <<up, phase, holder>>
vars == <<service, pos_req_id, total_num_pos_reports, next_request_id, bridge, lost, fatal>>

Kinds == {"pos_req_id"}

\* What is on record, for RequestService.
record == [k \in Kinds |-> Requests(pos_req_id)]

Service == INSTANCE RequestService WITH Ids <- ServerIds

Types == {"INVALID", "UNDEFINED", "UNKNOWN", "SNAPSHOT", "SNAPSHOT_UPDATES", "UNSUBSCRIBE"}

\* What the bridge holds.  announced: how many reports its acknowledgement still
\* promises.  Observations: whose request it is, and whether the bridge never had
\* another one at the same time.
Request == [id : ServerIds, type : {"SNAPSHOT", "SNAPSHOT_UPDATES", "UNSUBSCRIBE"},
            acknowledged : BOOLEAN, announced : 0 .. MaxReports,
            session : Sessions, alone : BOOLEAN]

TypeOK ==
    /\ up \in BOOLEAN
    /\ phase \in [Sessions -> {"new", "joining", "active", "leaving", "done"}]
    /\ holder \in [Users -> Sessions \cup {None}]
    /\ pos_req_id \in Mapping
    /\ total_num_pos_reports \in 0 .. MaxReports
    /\ next_request_id \in 0 .. MaxRequests
    /\ bridge \subseteq Request
    /\ lost \in Request \cup {None}
    /\ fatal \in BOOLEAN

Init ==
    /\ Service!Init
    /\ pos_req_id = EmptyMapping
    /\ total_num_pos_reports = 0
    /\ next_request_id = 0
    /\ bridge = {}
    /\ lost = None
    /\ fatal = FALSE

-----------------------------------------------------------------------------
(* A client's request.                                                     *)

\* A missing type means SNAPSHOT.
get_subscription_request_type(type) == IF type = "UNDEFINED" THEN "SNAPSHOT" ELSE type

Accepted(s, r, type) ==
    \/ type \in {"SNAPSHOT", "SNAPSHOT_UPDATES"} /\ ~exists(pos_req_id, s, r)
    \/ type = "UNSUBSCRIBE" /\ exists(pos_req_id, s, r)

\* A new request goes out under a fresh id, and is recorded.
Subscribe(s, r, type) ==
    LET id == next_request_id + 1
    IN  /\ id \in ServerIds
        /\ next_request_id' = id
        /\ bridge' = {[q EXCEPT !.alone = FALSE] : q \in bridge} \cup
             {[id |-> id, type |-> type, acknowledged |-> FALSE, announced |-> 0,
               session |-> s, alone |-> bridge = {}]}
        /\ pos_req_id' = add_req_id(pos_req_id, s, r, id, type = "SNAPSHOT_UPDATES")
        /\ UNCHANGED fatal

\* The request is repeated to the bridge under its id; the answer that ends the
\* reports will remove it.  A request that is not on record both ways ends the
\* process.
Unsubscribe(s, r) ==
    LET id == pos_req_id.client_to_server[s][r]
    IN  /\ bridge' = {IF q.id = id THEN [q EXCEPT !.type = "UNSUBSCRIBE"] ELSE q : q \in bridge}
        /\ IF pos_req_id.server_to_client[id] = None
             THEN fatal' = TRUE /\ UNCHANGED pos_req_id
             ELSE /\ pos_req_id' = [pos_req_id EXCEPT !.server_to_client[id].keep_alive = FALSE]
                  /\ UNCHANGED fatal
        /\ UNCHANGED next_request_id

\* A request that is refused is answered at once and changes nothing.
RequestForPositions(s, r, type) ==
    LET t == get_subscription_request_type(type)
    IN  /\ phase[s] = "active"
        /\ \/ t \in {"SNAPSHOT", "SNAPSHOT_UPDATES"} /\ Accepted(s, r, t) /\ Subscribe(s, r, t)
           \/ t = "UNSUBSCRIBE" /\ Accepted(s, r, t) /\ Unsubscribe(s, r)
           \/ /\ ~Accepted(s, r, t)
              /\ UNCHANGED <<pos_req_id, next_request_id, bridge, fatal>>
        /\ lost' = None
        /\ UNCHANGED <<service, total_num_pos_reports>>

-----------------------------------------------------------------------------
(* The bridge's answers.                                                   *)

Found(q) == pos_req_id.server_to_client[q.id]

\* The record after an answer that does (not) end it.
Forget(q, remove) ==
    pos_req_id' = IF Found(q) # None /\ remove THEN remove_req_id(pos_req_id, q.id) ELSE pos_req_id

\* q, as the bridge holds it after its answer, is finished or not.
Keep(q, after, finished) ==
    bridge' = (bridge \ {q}) \cup IF finished THEN {} ELSE {after}

\* The request is refused, or n reports will follow; an UNSUBSCRIBE may be
\* acknowledged as well, and nothing follows.
RequestForPositionsAck(q, failure, n) ==
    /\ ~q.acknowledged \/ (q.type = "UNSUBSCRIBE" /\ q.announced = 0 /\ n = 0)
    /\ Forget(q, failure \/ n = 0)
    /\ total_num_pos_reports' =
         IF Found(q) = None THEN total_num_pos_reports ELSE IF failure THEN 0 ELSE n
    /\ Keep(q, [q EXCEPT !.acknowledged = TRUE, !.announced = n],
            failure \/ (n = 0 /\ q.type # "SNAPSHOT_UPDATES"))
    /\ lost' = None
    /\ UNCHANGED <<service, next_request_id, fatal>>

\* Fault: reports are not counted.
CountReportNever == total_num_pos_reports

\* The counter after a report, anybody's.
CountReport == IF total_num_pos_reports = 0 THEN 0 ELSE total_num_pos_reports - 1

\* Fault: the record ends with the first report.
ReportRemovesAlways(q, failure) == failure \/ ~Found(q).keep_alive

ReportRemoves(q, failure) == failure \/ (CountReport = 0 /\ ~Found(q).keep_alive)

\* A report that was announced, or an update to a subscription.  The session on
\* record passes it on if READY.
PositionReport(q, failure) ==
    LET announced == q.announced > 0
        left == IF announced THEN q.announced - 1 ELSE 0
    IN  /\ q.acknowledged
        /\ announced \/ q.type # "SNAPSHOT"
        /\ total_num_pos_reports' = CountReport
        /\ Forget(q, Found(q) # None /\ ReportRemoves(q, failure))
        /\ Keep(q, [q EXCEPT !.announced = left],
                failure \/ (left = 0 /\ q.type # "SNAPSHOT_UPDATES"))
        /\ lost' = IF announced /\ (Found(q) = None \/ Found(q).session # q.session)
                     THEN q ELSE None
        /\ UNCHANGED <<service, next_request_id, fatal>>

\* The bridge refuses the request as such.  The mapping keeps it.
BusinessMessageReject(q) ==
    /\ ~q.acknowledged
    /\ bridge' = bridge \ {q}
    /\ lost' = None
    /\ UNCHANGED <<service, pos_req_id, total_num_pos_reports, next_request_id, fatal>>

-----------------------------------------------------------------------------
(* Sessions come and go.                                                   *)

\* Nothing the Controller keeps about positions changes.
LogonStep ==
    /\ \/ Service!Raise
       \/ \E s \in Sessions :
            \/ \E u \in Users : Service!Join(s, u)
            \/ Service!Admit(s)
            \/ Service!Retract(s)
            \/ phase[s] = "new" /\ Service!End(s)
    /\ lost' = None
    /\ UNCHANGED <<pos_req_id, total_num_pos_reports, next_request_id, bridge, fatal>>

\* The Controller is told that a logged on session died.  The bridge is not: it
\* goes on reporting.
Disconnected(s) ==
    /\ phase[s] \in {"joining", "active", "leaving"}
    /\ Service!End(s)
    /\ pos_req_id' = clear_req_ids(pos_req_id, {s})
    /\ lost' = None
    /\ UNCHANGED <<total_num_pos_reports, next_request_id, bridge, fatal>>

\* The bridge is lost: every logged on session dies.
BridgeLost ==
    /\ up
    /\ Service!Drop
    /\ pos_req_id' = clear_req_ids(pos_req_id, Service!Inside)
    /\ bridge' = {}
    /\ lost' = None
    /\ UNCHANGED <<total_num_pos_reports, next_request_id, fatal>>

-----------------------------------------------------------------------------
ClientStep(s) ==
    \/ \E r \in ReqIds, type \in Types : RequestForPositions(s, r, type)
    \/ Disconnected(s)

BridgeStep(q) ==
    \/ \E failure \in BOOLEAN, n \in 0 .. MaxReports : RequestForPositionsAck(q, failure, n)
    \/ \E failure \in BOOLEAN : PositionReport(q, failure)
    \/ BusinessMessageReject(q)

Next ==
    \/ ~fatal /\ LogonStep
    \/ \E s \in Sessions : ~fatal /\ ClientStep(s)
    \/ \E q \in bridge : ~fatal /\ BridgeStep(q)
    \/ ~fatal /\ BridgeLost

Spec == Init /\ [][Next]_vars

-----------------------------------------------------------------------------
(* Properties.                                                             *)

\* A client's request and the id it was passed on under find each other, so that
\* an UNSUBSCRIBE never runs into its log::fatal.
PositionsPaired == Paired(pos_req_id) /\ ~fatal

\* Late reports to a session that died bring nothing of it back.
TheDeadAreForgotten ==
    \A id \in ServerIds :
      pos_req_id.server_to_client[id] # None =>
        phase[pos_req_id.server_to_client[id].session] \in {"active", "leaving"}

\* The handler "must await all reports before removing" (controller.cpp:679): every
\* announced report of a client that is still there finds its request on record.
AllReportsArrive ==
    lost # None => phase[lost.session] \notin {"active", "leaving"}

\* It does while the bridge has one request at a time, whatever else happens:
\* disconnects, unsubscribes, reports to clients that are gone.
AllReportsArriveAlone ==
    lost # None /\ lost.alone => phase[lost.session] \notin {"active", "leaving"}

\* For a request that has the bridge to itself the counter is exact, whatever
\* clients that are gone have left in it: so its last report takes it off the
\* record, and no earlier one does.
CounterExactAlone ==
    \A q \in bridge : q.alone /\ q.acknowledged /\ Found(q) # None =>
      total_num_pos_reports = q.announced

\* Whatever becomes of sessions and bridge: a request gets on record when an active session
\* makes one that it does not have there yet, under an id that is free.  There it stays
\* unaltered until it is taken off alone, or with all else of its session, and nothing of
\* any other's, when that is done.
ImplementsRequestService == Service!RequestSpec

=============================================================================
