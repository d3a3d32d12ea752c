------------------------------- MODULE Orders -------------------------------
(***************************************************************************)
(* Order entry: the Controller's handlers of new, replace and cancel       *)
(* requests, of execution reports and of cancel rejects, on the mapping    *)
(* cl_ord_id and on cl_ord_id_.state.  A request is passed on under an id  *)
(* made of the client's party and its own id, so an order outlives the     *)
(* session that sent it, and a client that reconnects goes on with it.     *)
(* Reports that answer a status request are here for what they do to       *)
(* cl_ord_id_.state; whom they are passed on to is in Queries.             *)
(*                                                                         *)
(* LogonService is as in Subscriptions; a user stands for its party, which *)
(* no other user has.  The route of a party, by which reports find the     *)
(* client, is bound and released on the way, as in UserRouting.  The       *)
(* bridge is external: it holds the requests it has not finished and the   *)
(* orders, reports on them in any order, and names the party of whoever    *)
(* made the request.                                                       *)
(***************************************************************************)
EXTENDS Naturals, FiniteSets, ReqIds

CONSTANTS
    Users,
    MaxPending,  \* bound on the requests the bridge holds at a time
    MaxIds       \* bound on the ids that the bridge or cl_ord_id_.state knows at a time

ASSUME ServerIdsAssumption == ServerIds = Users \X ReqIds
ASSUME BoundsAssumption == MaxPending \in Nat /\ MaxIds \in Nat
ASSUME NoneIsNoSession == None \notin Sessions

VARIABLES
    up, phase, holder,   \* LogonService
    route,               \* subscriptions_.user.client_to_session
    cl_ord_id,           \* subscriptions_.cl_ord_id
    state,               \* the keys of cl_ord_id_.state
    requests,            \* requests the bridge has not finished (external)
    orders,              \* what the bridge last reported of an order (external)
    denied,              \* the ids in state of which, asked for the status, the bridge has
                         \* said that there is no such order (an observation)
    stray                \* an answer that the last step passed on to another user

service == <<up, phase, holder>>
vars == <<service, route, cl_ord_id, state, requests, orders, denied, stray>>

Kinds == {"cl_ord_id"}

\* What is on record, for RequestService.
record == [k \in Kinds |-> Requests(cl_ord_id)]

Service == INSTANCE RequestService WITH Ids <- ServerIds

\* Fault: the party is left out.
create_request_id_alone(client_id, req_id) == <<CHOOSE u \in Users : TRUE, req_id>>

create_request_id(client_id, req_id) == <<client_id, req_id>>

\* The party of session s, which add_party_ids has put into its requests.
client_id(s) == CHOOSE u \in Users : holder[u] = s

\* What the bridge holds; one that it refused with a BusinessMessageReject is kept
\* as "REFUSED".  Observations: whose request it is, and whether no other request
\* or order had the same id.
Request == [action : {"NEW", "REPLACE", "CANCEL", "REFUSED"}, id : ServerIds,
            orig : ServerIds \cup {None}, session : Sessions, unique : BOOLEAN]

TypeOK ==
    /\ up \in BOOLEAN
    /\ phase \in [Sessions -> {"new", "joining", "active", "leaving", "done"}]
    /\ holder \in [Users -> Sessions \cup {None}]
    /\ route \in [Users -> Sessions \cup {None}]
    /\ cl_ord_id \in Mapping
    /\ state \subseteq ServerIds
    /\ requests \subseteq Request
    /\ orders \in [ServerIds -> {"none", "open", "done"}]
    /\ denied \subseteq state
    /\ stray \in [id : ServerIds, to : Sessions] \cup {None}

Init ==
    /\ Service!Init
    /\ route = [u \in Users |-> None]
    /\ cl_ord_id = EmptyMapping
    /\ state = {}
    /\ requests = {}
    /\ orders = [id \in ServerIds |-> "none"]
    /\ denied = {}
    /\ stray = None

\* The bound on ids: with id, the bridge and cl_ord_id_.state know no more than MaxIds.
HasRoom(id) ==
    Cardinality({id} \cup state \cup {q.id : q \in requests}
                     \cup {i \in ServerIds : orders[i] # "none"}) =< MaxIds

-----------------------------------------------------------------------------
(* A client's request.                                                     *)

\* The request goes out, and is then recorded.  One whose id is on record for the
\* session, or that fails the codec's check, is refused at once.
Send(s, action, r, orig) ==
    LET id == create_request_id(client_id(s), r)
        unique == orders[id] = "none" /\ \A q \in requests : q.id # id
    IN  /\ phase[s] = "active"
        /\ \/ /\ ~exists(cl_ord_id, s, r)
              /\ Cardinality(requests) < MaxPending
              /\ HasRoom(id)
              /\ requests' =
                   {IF q.id = id THEN [q EXCEPT !.unique = FALSE] ELSE q : q \in requests} \cup
                   {[action |-> action, id |-> id, orig |-> orig, session |-> s,
                     unique |-> unique]}
              /\ cl_ord_id' = add_req_id(cl_ord_id, s, r, id, TRUE)
           \/ UNCHANGED <<cl_ord_id, requests>>
        /\ stray' = None
        /\ UNCHANGED <<service, route, state, orders, denied>>

NewOrderSingle(s, r) == Send(s, "NEW", r, None)

OrderCancelReplaceRequest(s, r, o) ==
    Send(s, "REPLACE", r, create_request_id(client_id(s), o))

OrderCancelRequest(s, r, o) ==
    Send(s, "CANCEL", r, create_request_id(client_id(s), o))

-----------------------------------------------------------------------------
(* The proxy's handling of the bridge's answers.                           *)

\* A session passes on what it gets if READY: an answer about id by session s that
\* is not the session of the user whose id it is.
Astray(id, s) ==
    IF s # None /\ phase[s] = "active" /\ holder[id[1]] # s THEN [id |-> id, to |-> s] ELSE None

\* To the session that id is on record for.
ToRequester(id) ==
    LET e == cl_ord_id.server_to_client[id]
    IN  Astray(id, IF e = None THEN None ELSE e.session)

\* To the session that has the route of the report's party, which is that of id.
Broadcast(id) == Astray(id, route[id[1]])

\* cl_ord_id_.state with and without an id; None stands for an empty one.
ensure_cl_ord_id(st, id) == st \cup {id}
remove_cl_ord_id(st, id) == st \ {id}

\* cl_ord_id_.state after a report with exec_type PENDING_*, REJECTED or OTHER on
\* request id about order orig (None when the report has no orig_cl_ord_id).
\* Fault: an order that is complete stays.
StateWithComplete(id, orig, exec_type, complete) ==
    CASE exec_type = "REJECTED" -> state
      [] exec_type = "PENDING"  -> ensure_cl_ord_id(state, id)
      [] OTHER                  -> remove_cl_ord_id(state, orig)

StateAfter(id, orig, exec_type, complete) ==
    LET own == IF complete THEN remove_cl_ord_id(state, id)
               ELSE IF exec_type = "PENDING" THEN ensure_cl_ord_id(state, id) ELSE state
    IN  CASE exec_type = "REJECTED" -> state
          [] exec_type = "PENDING"  -> own
          [] OTHER                  -> remove_cl_ord_id(own, orig)

\* Fault: every report ends the request.
RecordAfterAny(id, exec_type) == remove_req_id(cl_ord_id, id)

\* The record of the request after the report: only PENDING_* keeps it.
RecordAfter(id, exec_type) ==
    IF exec_type = "PENDING" THEN cl_ord_id ELSE remove_req_id(cl_ord_id, id)

\* A report without a status request's id.
ExecutionReport(id, orig, exec_type, complete) ==
    /\ stray' = IF exec_type = "REJECTED" THEN ToRequester(id) ELSE Broadcast(id)
    /\ state' = StateAfter(id, orig, exec_type, complete)
    /\ denied' = denied \cap state'
    /\ cl_ord_id' = RecordAfter(id, exec_type)
    /\ UNCHANGED <<service, route>>

\* A report that answers an order status or a mass status request: it enters whatever
\* id it names, also when it is REJECTED because there is no such order.
StatusExecutionReport(id, rejected) ==
    /\ state' = ensure_cl_ord_id(state, id)
    /\ denied' = IF rejected THEN denied \cup {id} ELSE denied
    /\ stray' = None
    /\ UNCHANGED <<service, route, cl_ord_id>>

OrderCancelReject(id) ==
    /\ stray' = ToRequester(id)
    /\ cl_ord_id' = remove_req_id(cl_ord_id, id)
    /\ UNCHANGED <<service, route, state, denied>>

-----------------------------------------------------------------------------
(* What the bridge reports.                                                *)

\* The bridge can do what q asks for.
Possible(q) ==
    /\ orders[q.id] = "none"
    /\ IF q.action = "NEW" THEN TRUE ELSE orders[q.orig] = "open"

\* PENDING_NEW, PENDING_REPLACE or PENDING_CANCEL.
ReportPending(q) ==
    /\ Possible(q)
    /\ ExecutionReport(q.id, q.orig, "PENDING", FALSE)
    /\ UNCHANGED <<requests, orders>>

\* The order is there, perhaps filled at once; or replaced; or cancelled.
ReportDone(q, complete) ==
    /\ Possible(q)
    /\ (q.action = "CANCEL") => complete
    /\ ExecutionReport(q.id, q.orig, "OTHER", complete)
    /\ requests' = requests \ {q}
    /\ orders' = [id \in ServerIds |->
         IF id = q.id THEN IF complete THEN "done" ELSE "open"
                      ELSE IF id = q.orig THEN "done" ELSE orders[id]]

\* The request is turned down.
ReportRejected(q) ==
    /\ IF q.action = "NEW" THEN ExecutionReport(q.id, None, "REJECTED", TRUE)
                           ELSE OrderCancelReject(q.id)
    /\ requests' = requests \ {q}
    /\ UNCHANGED orders

\* An order trades, partly or completely, or the exchange ends it.
ReportTrade(id, complete) ==
    /\ up
    /\ orders[id] = "open"
    /\ ExecutionReport(id, None, "OTHER", complete)
    /\ orders' = [orders EXCEPT ![id] = IF complete THEN "done" ELSE "open"]
    /\ UNCHANGED requests

\* The bridge refuses the request as such.  The mapping keeps it.
BusinessMessageReject(q) ==
    /\ stray' = ToRequester(q.id)
    /\ requests' = (requests \ {q}) \cup {[q EXCEPT !.action = "REFUSED"]}
    /\ UNCHANGED <<service, route, cl_ord_id, state, orders, denied>>

\* A session of u may have asked for the status of orders: the one it has, or one that
\* is gone.
MayHaveAsked(u) ==
    \E s \in Sessions :
      phase[s] = "done" \/ (holder[u] = s /\ phase[s] \in {"active", "leaving"})

\* The status of an order or of a request that the bridge has, or that there is none.
ReportStatus(id, rejected) ==
    /\ up
    /\ MayHaveAsked(id[1])
    /\ IF rejected THEN orders[id] # "open"
                   ELSE \/ orders[id] = "open"
                        \/ orders[id] = "none" /\ \E q \in requests : q.id = id
    /\ HasRoom(id)
    /\ StatusExecutionReport(id, rejected)
    /\ UNCHANGED <<requests, orders>>

-----------------------------------------------------------------------------
(* Sessions come and go.                                                   *)

\* Nothing the Controller keeps about orders changes.  A user whose party has a route
\* is not let in, and who is let in has the route.
LogonStep ==
    /\ \/ Service!Raise /\ UNCHANGED route
       \/ \E s \in Sessions :
            \/ \E u \in Users : Service!Join(s, u) /\ route[u] = None /\ UNCHANGED route
            \/ Service!Admit(s) /\ route' = [route EXCEPT ![client_id(s)] = s]
            \/ Service!Retract(s) /\ UNCHANGED route
            \/ phase[s] = "new" /\ Service!End(s) /\ UNCHANGED route
    /\ stray' = None
    /\ UNCHANGED <<cl_ord_id, state, requests, orders, denied>>

\* The routes of sessions S are released.
ReleaseRoutes(S) == [u \in Users |-> IF route[u] \in S THEN None ELSE route[u]]

\* The Controller is told that a logged on session died.  When that session awaited the
\* bridge's leave, a late one still binds the route, to a session that is gone.
Disconnected(s) ==
    /\ phase[s] \in {"joining", "active", "leaving"}
    /\ Service!End(s)
    /\ \/ route' = ReleaseRoutes({s})
       \/ phase[s] = "joining" /\ route' = [route EXCEPT ![client_id(s)] = s]
    /\ cl_ord_id' = clear_req_ids(cl_ord_id, {s})
    /\ stray' = None
    /\ UNCHANGED <<state, requests, orders, denied>>

\* The bridge is lost: every logged on session dies; the orders stay.
BridgeLost ==
    /\ up
    /\ Service!Drop
    /\ route' = ReleaseRoutes(Service!Inside)
    /\ cl_ord_id' = clear_req_ids(cl_ord_id, Service!Inside)
    /\ requests' = {}
    /\ stray' = None
    /\ UNCHANGED <<state, orders, denied>>

-----------------------------------------------------------------------------
ClientStep(s) ==
    \/ \E r \in ReqIds : NewOrderSingle(s, r)
    \/ \E r, o \in ReqIds : OrderCancelReplaceRequest(s, r, o)
    \/ \E r, o \in ReqIds : OrderCancelRequest(s, r, o)
    \/ Disconnected(s)

BridgeStep(q) ==
    \/ ReportPending(q)
    \/ \E complete \in BOOLEAN : ReportDone(q, complete)
    \/ ReportRejected(q)
    \/ BusinessMessageReject(q)

Next ==
    \/ LogonStep
    \/ \E s \in Sessions : ClientStep(s)
    \/ \E q \in requests : q.action # "REFUSED" /\ BridgeStep(q)
    \/ \E id \in ServerIds, complete \in BOOLEAN : ReportTrade(id, complete)
    \/ \E id \in ServerIds, rejected \in BOOLEAN : ReportStatus(id, rejected)
    \/ BridgeLost

Spec == Init /\ [][Next]_vars

-----------------------------------------------------------------------------
(* Properties.                                                             *)

\* A client's id and the id it was passed on under find each other, although the
\* latter is the same for all sessions that a user ever has: it has one at a time,
\* and what a session leaves behind is cleared before the next one is let in.
OrdersPaired == Paired(cl_ord_id)

\* Late reports to a session that died bring nothing of it back.
TheDeadAreForgotten ==
    \A id \in ServerIds :
      cl_ord_id.server_to_client[id] # None =>
        phase[cl_ord_id.server_to_client[id].session] \in {"active", "leaving"}

\* What the bridge says about a request or an order of a user is told to that user,
\* on the session it has now, if to anybody: although a rejection goes to the session
\* that the id is on record for, and anything else to the one that has the route.
AnswersStayWithTheUser ==
    stray = None

\* A request that awaits its answer is on record for the session that sent it, so
\* that a reject will find the client: fills of the order it is about, pending
\* reports and answers to other requests do not take it off.
AwaitedRequestsAreOnRecord ==
    \A q \in requests :
      q.unique /\ q.action # "REFUSED" /\ phase[q.session] \in {"active", "leaving"} =>
        LET e == cl_ord_id.server_to_client[q.id] IN e # None /\ e.session = q.session

\* An id that a client may not use again is one that the bridge has not answered, or
\* has refused with a BusinessMessageReject.
RequestsEnd ==
    \A id \in ServerIds :
      cl_ord_id.server_to_client[id] # None => \E q \in requests : q.id = id

\* cl_ord_id_.state has forgotten every order that is known to be complete or replaced,
\* whatever was pending on it, and whatever status of it was reported before.  What
\* brings such an order back is a status report that says it is not there.
DoneOrdersAreForgotten ==
    \A id \in state \ denied : orders[id] # "done"

\* "Disable the removal of cl_ord_id when order reaches final state" is an option
\* (flags.json), so by default cl_ord_id_.state only has ids of orders that are not
\* final and of requests that are not answered, but for what status reports put there
\* of which there is no order.
OnlyOpenOrdersAreKept ==
    up => \A id \in state \ denied : orders[id] = "open" \/ \E q \in requests : q.id = id

\* Whatever becomes of sessions and bridge: a request gets on record when an active session
\* makes one that it does not have there yet, under an id that is free.  There it stays
\* unaltered until it is taken off alone, or with all else of its session, and nothing of
\* any other's, when that is done.
ImplementsRequestService == Service!RequestSpec

=============================================================================
