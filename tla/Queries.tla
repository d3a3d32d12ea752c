------------------------------ MODULE Queries -------------------------------
(***************************************************************************)
(* Requests under ids that are made of the client's party and its own id,  *)
(* other than order entry: the Controller's handlers of order status, mass *)
(* status, mass cancel and trade capture requests and of their answers, on *)
(* the mappings ord_status_req_id, mass_status_req_id,                     *)
(* mass_cancel_cl_ord_id and trade_request_id.                             *)
(*                                                                         *)
(* LogonService and the bridge are as in Orders.                           *)
(***************************************************************************)
EXTENDS Naturals, FiniteSets, ReqIds

CONSTANTS
    Users,
    Empty,       \* the id of a request that has none
    MaxPending   \* bound on the requests the bridge holds at a time

ASSUME ServerIdsAssumption == ServerIds = Users \X ReqIds
ASSUME EmptyAssumption == Empty \in ReqIds
ASSUME MaxPendingAssumption == MaxPending \in Nat
ASSUME NoneIsNoSession == None \notin Sessions

VARIABLES
    up, phase, holder,   \* LogonService
    mapping,             \* subscriptions_, by name
    state,               \* the keys that these answers put into cl_ord_id_.state (see Orders)
    bridge,              \* requests the bridge has not finished (external)
    astray               \* an answer that the last step did not give to who asked

service == <<up, phase, holder>>
vars == <<service, mapping, state, bridge, astray>>

Kinds == {"ord_status_req_id", "mass_status_req_id", "mass_cancel_cl_ord_id",
          "trade_request_id"}

\* A mapping without the requests that have no id.
Named(m) ==
    [server_to_client |-> [id \in ServerIds |-> IF id[2] = Empty THEN None ELSE m.server_to_client[id]],
     client_to_server |-> m.client_to_server]

\* What is on record, for RequestService.
record == [k \in Kinds |-> Requests(Named(mapping[k]))]

Service == INSTANCE RequestService WITH Ids <- ServerIds

Types == {"INVALID", "UNDEFINED", "UNKNOWN", "SNAPSHOT", "SNAPSHOT_UPDATES", "UNSUBSCRIBE"}

\* What the bridge holds; one that it refused with a BusinessMessageReject is kept
\* as "REFUSED".  Observations: whose request it is, and whether no other request
\* had the same id at the same time.
Request == [kind : Kinds, id : ServerIds, session : Sessions, req_id : ReqIds,
            type : {"SNAPSHOT", "SNAPSHOT_UPDATES", "UNSUBSCRIBE", "REFUSED"},
            acknowledged : BOOLEAN, unique : BOOLEAN]

TypeOK ==
    /\ up \in BOOLEAN
    /\ phase \in [Sessions -> {"new", "joining", "active", "leaving", "done"}]
    /\ holder \in [Users -> Sessions \cup {None}]
    /\ mapping \in [Kinds -> Mapping]
    /\ state \subseteq ServerIds
    /\ bridge \subseteq Request
    /\ astray \in [request : Request, to : Sessions \cup {None}] \cup {None}

Init ==
    /\ Service!Init
    /\ mapping = [k \in Kinds |-> EmptyMapping]
    /\ state = {}
    /\ bridge = {}
    /\ astray = None

-----------------------------------------------------------------------------
(* A client's request.                                                     *)

\* Fault: the party is left out.
create_request_id_alone(client_id, req_id) == <<CHOOSE u \in Users : TRUE, req_id>>

create_request_id(client_id, req_id) == <<client_id, req_id>>

\* The party of session s, which add_party_ids has put into its requests.
client_id(s) == CHOOSE u \in Users : holder[u] = s

\* A request without an id is on record in one direction only.
Record(m, s, r, id, keep_alive) ==
    IF r = Empty
      THEN [m EXCEPT !.server_to_client[id] =
              IF @ = None THEN [session |-> s, req_id |-> r, keep_alive |-> keep_alive] ELSE @]
      ELSE add_req_id(m, s, r, id, keep_alive)

\* A new request goes out, and is then recorded.
Subscribe(k, s, r, type) ==
    LET id   == create_request_id(client_id(s), r)
        same == {q \in bridge : q.kind = k /\ q.id = id}
    IN  /\ ~exists(mapping[k], s, r)
        /\ Cardinality(bridge) < MaxPending
        /\ bridge' = (bridge \ same) \cup {[q EXCEPT !.unique = FALSE] : q \in same} \cup
             {[kind |-> k, id |-> id, session |-> s, req_id |-> r, type |-> type,
               acknowledged |-> FALSE, unique |-> same = {}]}
        /\ mapping' = [mapping EXCEPT ![k] = Record(@, s, r, id, type = "SNAPSHOT_UPDATES")]

\* The request is repeated to the bridge under its id, and is off the record.
Unsubscribe(k, s, r) ==
    LET id == create_request_id(client_id(s), r)
    IN  /\ exists(mapping[k], s, r)
        /\ bridge' = {IF q.kind = k /\ q.id = id /\ q.type # "REFUSED"
                        THEN [q EXCEPT !.type = "UNSUBSCRIBE"] ELSE q : q \in bridge}
        /\ mapping' = [mapping EXCEPT ![k] = remove_req_id(@, id)]

\* An invalid request, and one under an id that is on record, are answered at once.
Refuse == UNCHANGED <<mapping, bridge>>

\* A request of a READY session.
From(s) ==
    /\ phase[s] = "active"
    /\ astray' = None
    /\ UNCHANGED <<service, state>>

\* Its own id is optional.
OrderStatusRequest(s, r) ==
    From(s) /\ (Subscribe("ord_status_req_id", s, r, "SNAPSHOT") \/ Refuse)

OrderMassStatusRequest(s, r) ==
    /\ r # Empty
    /\ From(s) /\ (Subscribe("mass_status_req_id", s, r, "SNAPSHOT") \/ Refuse)

OrderMassCancelRequest(s, r) ==
    /\ r # Empty
    /\ From(s) /\ (Subscribe("mass_cancel_cl_ord_id", s, r, "SNAPSHOT") \/ Refuse)

TradeCaptureReportRequest(s, r, type) ==
    LET t == IF type = "UNDEFINED" THEN "SNAPSHOT" ELSE type
        k == "trade_request_id"
    IN  /\ r # Empty
        /\ From(s)
        /\ \/ t \in {"SNAPSHOT", "SNAPSHOT_UPDATES"} /\ Subscribe(k, s, r, t)
           \/ t = "UNSUBSCRIBE" /\ Unsubscribe(k, s, r)
           \/ /\ \/ t \notin {"SNAPSHOT", "SNAPSHOT_UPDATES", "UNSUBSCRIBE"}
                 \/ exists(mapping[k], s, r) # (t = "UNSUBSCRIBE")
              /\ Refuse

-----------------------------------------------------------------------------
(* The bridge's answers.                                                   *)

Found(q) == mapping[q.kind].server_to_client[q.id]

\* An answer to q goes to the session on record, which passes it on if READY.
Passed(q) ==
    LET e  == Found(q)
        to == IF e # None /\ phase[e.session] = "active" THEN e.session ELSE None
    IN  IF to = q.session /\ e.req_id = q.req_id THEN None ELSE [request |-> q, to |-> to]

Forget(q) == [mapping EXCEPT ![q.kind] = remove_req_id(@, q.id)]

\* Fault: the first report of several takes the request off the record.
ForgetIfAny(q, last) == IF Found(q) # None THEN Forget(q) ELSE mapping

\* Fault: the last report leaves it there.
ForgetNever(q, last) == mapping

ForgetIfLast(q, last) == IF Found(q) # None /\ last THEN Forget(q) ELSE mapping

\* A report that names no order adds none.
ensure_cl_ord_id(id) == IF id[2] = Empty THEN state ELSE state \cup {id}

\* A trade capture request that is not a subscription.
Once(q) == Found(q) # None /\ ~Found(q).keep_alive

\* The answer to an order status request, about order o of the same user; also one
\* that says there is none.
OrderStatus(q, o) ==
    /\ q.kind = "ord_status_req_id"
    /\ astray' = Passed(q)
    /\ state' = ensure_cl_ord_id(<<q.id[1], o>>)
    /\ mapping' = ForgetIfLast(q, TRUE)
    /\ bridge' = bridge \ {q}
    /\ UNCHANGED service

\* One of the answers to a mass status request, which says if it is the last.
OrderMassStatus(q, o, last) ==
    /\ q.kind = "mass_status_req_id"
    /\ astray' = Passed(q)
    /\ state' = ensure_cl_ord_id(<<q.id[1], o>>)
    /\ mapping' = ForgetIfLast(q, last)
    /\ bridge' = IF last THEN bridge \ {q} ELSE bridge
    /\ UNCHANGED service

OrderMassCancelReport(q) ==
    /\ q.kind = "mass_cancel_cl_ord_id"
    /\ astray' = Passed(q)
    /\ mapping' = Forget(q)
    /\ bridge' = bridge \ {q}
    /\ UNCHANGED <<service, state>>

\* The acknowledgement ends the record of what is not a subscription.  The bridge
\* may be finished with it, or have reports to send.
TradeCaptureReportRequestAck(q, finished) ==
    /\ q.kind = "trade_request_id"
    /\ ~q.acknowledged
    /\ astray' = Passed(q)
    /\ mapping' = ForgetIfLast(q, Once(q))
    /\ bridge' = (bridge \ {q}) \cup
                 IF finished /\ q.type # "SNAPSHOT_UPDATES"
                   THEN {} ELSE {[q EXCEPT !.acknowledged = TRUE]}
    /\ UNCHANGED <<service, state>>

TradeCaptureReport(q, last) ==
    /\ q.kind = "trade_request_id"
    /\ astray' = Passed(q)
    /\ mapping' = ForgetIfLast(q, last /\ Once(q))
    /\ bridge' = IF last /\ q.type # "SNAPSHOT_UPDATES" THEN bridge \ {q} ELSE bridge
    /\ UNCHANGED <<service, state>>

\* The bridge refuses the request as such.  The mapping keeps it; of a mass cancel
\* request, nobody is told.
BusinessMessageReject(q) ==
    LET refused == [q EXCEPT !.type = "REFUSED"]
    IN  /\ astray' = IF q.kind = "mass_cancel_cl_ord_id"
                       THEN [request |-> refused, to |-> None] ELSE Passed(q)
        /\ bridge' = (bridge \ {q}) \cup {refused}
        /\ UNCHANGED <<service, mapping, state>>

-----------------------------------------------------------------------------
(* Sessions come and go.                                                   *)

\* Nothing the Controller keeps about these requests changes.
LogonStep ==
    /\ \/ Service!Raise
       \/ \E s \in Sessions :
            \/ \E u \in Users : Service!Join(s, u)
            \/ Service!Admit(s)
            \/ Service!Retract(s)
            \/ phase[s] = "new" /\ Service!End(s)
    /\ astray' = None
    /\ UNCHANGED <<mapping, state, bridge>>

\* The Controller is told that a logged on session died.  The bridge is not.
Disconnected(s) ==
    /\ phase[s] \in {"joining", "active", "leaving"}
    /\ Service!End(s)
    /\ mapping' = [k \in Kinds |-> clear_req_ids(mapping[k], {s})]
    /\ astray' = None
    /\ UNCHANGED <<state, bridge>>

\* The bridge is lost: every logged on session dies.
BridgeLost ==
    /\ up
    /\ Service!Drop
    /\ mapping' = [k \in Kinds |-> clear_req_ids(mapping[k], Service!Inside)]
    /\ bridge' = {}
    /\ astray' = None
    /\ UNCHANGED state

-----------------------------------------------------------------------------
ClientStep(s) ==
    \/ \E r \in ReqIds :
         \/ OrderStatusRequest(s, r)
         \/ OrderMassStatusRequest(s, r)
         \/ OrderMassCancelRequest(s, r)
         \/ \E type \in Types : TradeCaptureReportRequest(s, r, type)
    \/ Disconnected(s)

BridgeStep(q) ==
    \/ \E o \in ReqIds :
         \/ OrderStatus(q, o)
         \/ \E last \in BOOLEAN : OrderMassStatus(q, o, last)
    \/ OrderMassCancelReport(q)
    \/ \E finished \in BOOLEAN : TradeCaptureReportRequestAck(q, finished)
    \/ \E last \in BOOLEAN : TradeCaptureReport(q, last)
    \/ BusinessMessageReject(q)

Next ==
    \/ LogonStep
    \/ \E s \in Sessions : ClientStep(s)
    \/ \E q \in bridge : q.type # "REFUSED" /\ BridgeStep(q)
    \/ BridgeLost

Spec == Init /\ [][Next]_vars

-----------------------------------------------------------------------------
(* Properties.                                                             *)

\* What is on record of a request that has an id is on record both ways.
QueriesPaired == \A k \in Kinds : Paired(Named(mapping[k]))

\* A session that died leaves no record of a request that has an id: none that a
\* late answer could be sent on, and none in the way of the user's next session,
\* whose requests have the same ids.
TheDeadAreForgotten ==
    \A k \in Kinds, id \in ServerIds :
      LET e == mapping[k].server_to_client[id]
      IN  e # None /\ id[2] # Empty => phase[e.session] \in {"active", "leaving"}

\* An answer to one user's request never reaches another user.
AnswersStayWithTheUser ==
    astray # None /\ astray.to # None => holder[astray.request.id[1]] = astray.to

\* A client that asks under an id nobody has in use gets its answers, unless it
\* leaves or unsubscribes.  Not so an order status request without an id (it is
\* recorded in one direction only, controller.cpp:1223), the reports that follow the
\* acknowledgement of a snapshot of trades, and the BusinessMessageReject of a mass
\* cancel request.
AnswersArrive ==
    astray # None =>
      LET q == astray.request
      IN  \/ ~q.unique \/ q.req_id = Empty
          \/ phase[q.session] # "active" \/ q.type = "UNSUBSCRIBE"
          \/ q.kind = "trade_request_id" /\ q.type = "SNAPSHOT" /\ q.acknowledged
          \/ q.kind = "mass_cancel_cl_ord_id" /\ q.type = "REFUSED"

\* An id that a client may not use again is one that the bridge has not finished,
\* or has refused with a BusinessMessageReject.
RequestsEnd ==
    \A k \in Kinds, id \in ServerIds :
      mapping[k].server_to_client[id] # None /\ id[2] # Empty =>
        \E q \in bridge : q.kind = k /\ q.id = id

\* Whatever becomes of sessions and bridge: a request gets on record when an active session
\* makes one that it does not have there yet, under an id that is free.  There it stays
\* unaltered until it is taken off alone, or with all else of its session, and nothing of
\* any other's, when that is done.
ImplementsRequestService == Service!RequestSpec

=============================================================================
