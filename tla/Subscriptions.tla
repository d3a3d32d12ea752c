---------------------------- MODULE Subscriptions ----------------------------
(***************************************************************************)
(* Requests for reference data and market data: the Controller's handlers  *)
(* of security list, security definition, security status and market data  *)
(* requests and of the bridge's answers, on the mappings security_req_id,  *)
(* security_status_req_id and md_req_id.  Each request is passed on under  *)
(* a fresh id.                                                             *)
(*                                                                         *)
(* Who is logged on is LogonService, which UserRouting implements: "active" *)
(* is a READY session, "leaving" one in WAITING_REMOVE_ROUTE.  A request of *)
(* any other session never gets here.  The bridge is external: it holds    *)
(* the requests it has not finished, answers them in any order, a          *)
(* subscription any number of times, and forgets them all when its         *)
(* connection is lost.                                                     *)
(***************************************************************************)
EXTENDS Naturals, ReqIds

CONSTANTS
    Users,
    MaxRequests     \* bound on requests passed on in one behaviour

ASSUME ServerIdsAssumption == MaxRequests \in Nat /\ ServerIds = 1 .. MaxRequests

VARIABLES
    up, phase, holder,   \* LogonService
    mapping,             \* subscriptions_, by name
    next_request_id,     \* Shared
    bridge,              \* requests the bridge has not finished (external)
    answer               \* the answer that the last step passed on, if any

service == <<up, phase, holder>>
vars == <<service, mapping, next_request_id, bridge, answer>>

Kinds == {"security_req_id", "security_status_req_id", "md_req_id"}

\* What is on record, for RequestService.
record == [k \in Kinds |-> Requests(mapping[k])]

Service == INSTANCE RequestService WITH Ids <- ServerIds

Messages == {"SecurityList", "SecurityDefinition", "SecurityStatus", "MarketData"}

\* The mapping that a request of message type msg, and its answers, go through.
KindOf(msg) ==
    CASE msg \in {"SecurityList", "SecurityDefinition"} -> "security_req_id"
      [] msg = "SecurityStatus"                         -> "security_status_req_id"
      [] msg = "MarketData"                             -> "md_req_id"

\* SubscriptionRequestType: UNDEFINED when the field is missing.  INVALID is any
\* request whose fields do not pass the codec's check, is_valid().
Types == {"INVALID", "UNDEFINED", "UNKNOWN", "SNAPSHOT", "SNAPSHOT_UPDATES", "UNSUBSCRIBE"}

\* What the bridge holds: the request and, as an observation, whose it is.  One
\* that it refused with a BusinessMessageReject is kept as "REJECTED".
Request == [msg : Messages, id : ServerIds, session : Sessions, req_id : ReqIds,
            type : {"SNAPSHOT", "SNAPSHOT_UPDATES", "UNSUBSCRIBE", "REJECTED"}]

\* An answer to `request` was sent to session `to` as an answer to its `req_id`;
\* or to nobody.
Answer == [request : Request, to : Sessions \cup {None}, req_id : ReqIds \cup {None}]

TypeOK ==
    /\ up \in BOOLEAN
    /\ phase \in [Sessions -> {"new", "joining", "active", "leaving", "done"}]
    /\ holder \in [Users -> Sessions \cup {None}]
    /\ mapping \in [Kinds -> Mapping]
    /\ next_request_id \in 0 .. MaxRequests
    /\ bridge \subseteq Request
    /\ answer \in Answer \cup {None}

Init ==
    /\ Service!Init
    /\ mapping = [k \in Kinds |-> EmptyMapping]
    /\ next_request_id = 0
    /\ bridge = {}
    /\ answer = None

-----------------------------------------------------------------------------
(* A client's request.                                                     *)

\* Market data requests name their type; for the others, none means SNAPSHOT.
get_subscription_request_type(msg, type) ==
    IF type = "UNDEFINED" /\ msg # "MarketData" THEN "SNAPSHOT" ELSE type

\* A SNAPSHOT or SNAPSHOT_UPDATES needs a new req_id, an UNSUBSCRIBE a known one.
Accepted(msg, s, r, type) ==
    \/ type \in {"SNAPSHOT", "SNAPSHOT_UPDATES"} /\ ~exists(mapping[KindOf(msg)], s, r)
    \/ type = "UNSUBSCRIBE" /\ exists(mapping[KindOf(msg)], s, r)

\* Fault: ids repeat.
create_request_id_same == 1

create_request_id == next_request_id + 1

\* The request goes out under a fresh id.  Only then is it recorded; or, of an
\* UNSUBSCRIBE, the fresh id is removed, which no mapping knows.
Dispatch(msg, s, r, type) ==
    LET k  == KindOf(msg)
        id == create_request_id
    IN  /\ id \in ServerIds
        /\ next_request_id' = id
        /\ bridge' = bridge \cup
             {[msg |-> msg, id |-> id, session |-> s, req_id |-> r, type |-> type]}
        /\ mapping' = [mapping EXCEPT ![k] =
             IF exists(@, s, r) THEN remove_req_id(@, id)
                                ELSE add_req_id(@, s, r, id, type = "SNAPSHOT_UPDATES")]

\* The four handlers.  A request that is refused is answered at once and changes
\* nothing (the ids that some of the answers carry are not recorded, and not
\* counted here).
ClientRequest(msg, s, r, type) ==
    LET t == get_subscription_request_type(msg, type)
    IN  /\ phase[s] = "active"
        /\ \/ Accepted(msg, s, r, t) /\ Dispatch(msg, s, r, t)
           \/ ~Accepted(msg, s, r, t) /\ UNCHANGED <<mapping, next_request_id, bridge>>
        /\ answer' = None
        /\ UNCHANGED service

SecurityListRequest(s, r, type)       == ClientRequest("SecurityList", s, r, type)
SecurityDefinitionRequest(s, r, type) == ClientRequest("SecurityDefinition", s, r, type)
SecurityStatusRequest(s, r, type)     == ClientRequest("SecurityStatus", s, r, type)
MarketDataRequest(s, r, type)         == ClientRequest("MarketData", s, r, type)

-----------------------------------------------------------------------------
(* The bridge's answers.                                                   *)

Found(q) == mapping[KindOf(q.msg)].server_to_client[q.id]

\* An answer to q goes to the session on record, which passes it on if READY.
Passed(q) ==
    IF Found(q) # None /\ phase[Found(q).session] = "active"
      THEN [request |-> q, to |-> Found(q).session, req_id |-> Found(q).req_id]
      ELSE [request |-> q, to |-> None, req_id |-> None]

\* Fault: a snapshot is treated like a subscription.
ForgetOnFailure(q, failure) ==
    IF failure
      THEN [mapping EXCEPT ![KindOf(q.msg)] = remove_req_id(@, q.id)]
      ELSE mapping

\* The mapping after an answer: a failure, and any answer to a snapshot, ends it.
ForgetIfDone(q, failure) ==
    IF Found(q) # None /\ (failure \/ ~Found(q).keep_alive)
      THEN [mapping EXCEPT ![KindOf(q.msg)] = remove_req_id(@, q.id)]
      ELSE mapping

\* The bridge is finished with a request, except a subscription that goes well.
Finish(q, failure) ==
    bridge' = IF q.type = "SNAPSHOT_UPDATES" /\ ~failure THEN bridge ELSE bridge \ {q}

\* An answer that may end the request on the proxy's side.
FinalAnswer(q, failure) ==
    /\ answer' = Passed(q)
    /\ mapping' = ForgetIfDone(q, failure)
    /\ Finish(q, failure)
    /\ UNCHANGED <<service, next_request_id>>

SecurityList(q, failure)       == q.msg = "SecurityList" /\ FinalAnswer(q, failure)
SecurityDefinition(q, failure) == q.msg = "SecurityDefinition" /\ FinalAnswer(q, failure)
\* Failure cannot be told.
SecurityStatus(q)              == q.msg = "SecurityStatus" /\ FinalAnswer(q, FALSE)
MarketDataRequestReject(q)     == q.msg = "MarketData" /\ FinalAnswer(q, TRUE)
MarketDataSnapshotFullRefresh(q) == q.msg = "MarketData" /\ FinalAnswer(q, FALSE)

\* An update to a subscription; one that is no longer on record is ignored.
MarketDataIncrementalRefresh(q) ==
    /\ q.msg = "MarketData"
    /\ q.type # "SNAPSHOT"
    /\ answer' = Passed(q)
    /\ UNCHANGED <<service, mapping, next_request_id, bridge>>

\* The bridge refuses the request as such.  The mapping keeps it.
BusinessMessageReject(q) ==
    /\ answer' = Passed(q)
    /\ bridge' = (bridge \ {q}) \cup {[q EXCEPT !.type = "REJECTED"]}
    /\ UNCHANGED <<service, mapping, next_request_id>>

-----------------------------------------------------------------------------
(* Sessions come and go.                                                   *)

\* Nothing the Controller keeps about requests changes.
LogonStep ==
    /\ \/ Service!Raise
       \/ \E s \in Sessions :
            \/ \E u \in Users : Service!Join(s, u)
            \/ Service!Admit(s)
            \/ Service!Retract(s)
            \/ phase[s] = "new" /\ Service!End(s)
    /\ answer' = None
    /\ UNCHANGED <<mapping, next_request_id, bridge>>

\* Fault: the bridge is not told.
UnsubscribeNothing(s) == UNCHANGED bridge

\* A market data request of s that the bridge has not finished is unsubscribed
\* under its own id.
UnsubscribeAll(s) ==
    bridge' = {IF q.id \in RequestsOf(mapping["md_req_id"], {s}) /\ q.type # "REJECTED"
                 THEN [q EXCEPT !.type = "UNSUBSCRIBE"] ELSE q : q \in bridge}

\* The Controller is told that a logged on session died (ready_ holds, as
\* LogonService admits nobody otherwise).
Disconnected(s) ==
    /\ phase[s] \in {"joining", "active", "leaving"}
    /\ Service!End(s)
    /\ UnsubscribeAll(s)
    /\ mapping' = [k \in Kinds |-> clear_req_ids(mapping[k], {s})]
    /\ answer' = None
    /\ UNCHANGED next_request_id

\* The bridge is lost: every logged on session dies, and there is nobody to
\* unsubscribe with.
BridgeLost ==
    /\ up
    /\ Service!Drop
    /\ mapping' = [k \in Kinds |-> clear_req_ids(mapping[k], Service!Inside)]
    /\ bridge' = {}
    /\ answer' = None
    /\ UNCHANGED next_request_id

-----------------------------------------------------------------------------
ClientStep(s) ==
    \/ \E r \in ReqIds, type \in Types :
         \/ SecurityListRequest(s, r, type)
         \/ SecurityDefinitionRequest(s, r, type)
         \/ SecurityStatusRequest(s, r, type)
         \/ MarketDataRequest(s, r, type)
    \/ Disconnected(s)

BridgeStep(q) ==
    \/ \E failure \in BOOLEAN : SecurityList(q, failure) \/ SecurityDefinition(q, failure)
    \/ SecurityStatus(q)
    \/ MarketDataRequestReject(q)
    \/ MarketDataSnapshotFullRefresh(q)
    \/ MarketDataIncrementalRefresh(q)
    \/ BusinessMessageReject(q)

Next ==
    \/ LogonStep
    \/ \E s \in Sessions : ClientStep(s)
    \/ \E q \in bridge : q.type # "REJECTED" /\ BridgeStep(q)
    \/ BridgeLost

Spec == Init /\ [][Next]_vars

-----------------------------------------------------------------------------
(* Properties.                                                             *)

\* In every mapping, a client's request and the id it was passed on under find
\* each other, and nothing else.
MappingsPaired == \A k \in Kinds : Paired(mapping[k])

\* Whatever was in flight when a session died, nothing is on record for it
\* afterwards: no late answer can be sent to it, and no late answer can bring an
\* entry back.
TheDeadAreForgotten ==
    \A k \in Kinds, id \in ServerIds :
      mapping[k].server_to_client[id] # None =>
        phase[mapping[k].server_to_client[id].session] \in {"active", "leaving"}

\* An answer reaches the client that asked, under the id it asked with; only a
\* client that is gone, that is leaving or that has unsubscribed gets nothing.
AnswersArrive ==
    answer # None =>
      LET q == answer.request
      IN  \/ answer.to = q.session /\ answer.req_id = q.req_id
          \/ answer.to = None /\ (phase[q.session] # "active" \/ q.type = "UNSUBSCRIBE")

\* A request id that a client may not use again is one that the bridge is still
\* busy with, or refused with a BusinessMessageReject (the handler leaves "what
\* about keep_alive" open): any other request is forgotten with its last answer.
SnapshotsEnd ==
    \A k \in Kinds, id \in ServerIds :
      LET e == mapping[k].server_to_client[id]
      IN  e # None => \E q \in bridge : q.id = id /\ KindOf(q.msg) = k

\* The bridge streams market data only to those that are there to receive it: the
\* death of a client unsubscribes each of its market data requests, under the id that
\* the bridge knows.  Its other subscriptions stay with the bridge ("subscriptions not
\* yet supported", controller.cpp:795).
NoOrphanStream ==
    \A q \in bridge : q.msg = "MarketData" /\ q.type = "SNAPSHOT_UPDATES" =>
      LET e == mapping["md_req_id"].server_to_client[q.id]
      IN  e # None /\ e.session = q.session

\* An UNSUBSCRIBE takes the request off the record, "an unsubscribe request could
\* already have removed md_req_id" (controller.cpp:546): what is on record for its
\* req_id afterwards, if anything, is a younger request.
UnsubscribeForgets ==
    \A q \in bridge : q.type = "UNSUBSCRIBE" =>
      LET m == mapping[KindOf(q.msg)]
      IN  exists(m, q.session, q.req_id) => m.client_to_server[q.session][q.req_id] > q.id

\* Whatever becomes of sessions and bridge: a request gets on record when an active session
\* makes one that it does not have there yet, under an id that is free.  There it stays
\* unaltered until it is taken off alone, or with all else of its session, and nothing of
\* any other's, when that is done.
ImplementsRequestService == Service!RequestSpec

=============================================================================
