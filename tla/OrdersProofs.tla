---------------------------- MODULE OrdersProofs ----------------------------
(***************************************************************************)
(* Proofs about Orders, for any users, sessions and order ids, and any      *)
(* bounds on requests and ids.                                              *)
(***************************************************************************)
EXTENDS Orders, ReqIdsProofs

USE DEF exists

-----------------------------------------------------------------------------
(* The inductive invariant.                                                *)

LoggedOn == {"joining", "active", "leaving"}
Admitted == {"active", "leaving"}

\* The registry of users: who is logged on has one user, which nobody else has.
OneHolder ==
    /\ \A u \in Users : holder[u] # None => phase[holder[u]] \in LoggedOn
    /\ \A s \in Sessions : phase[s] \in LoggedOn => \E u \in Users : holder[u] = s
    /\ \A u, v \in Users : holder[u] # None /\ holder[u] = holder[v] => u = v

\* A route goes to the session that has the user, or to one that is gone.
RoutesAreTheUsers ==
    \A u \in Users : route[u] # None => phase[route[u]] = "done" \/ holder[u] = route[u]

\* An id is made of a user and its request: it is on record for the session that has
\* the user now, under that request.
RecordsAreTheUsers ==
    \A id \in ServerIds :
      LET e == cl_ord_id.server_to_client[id]
      IN  e # None => e.session = holder[id[1]] /\ e.req_id = id[2]

\* What the bridge holds was asked by a session that had logged on; a unique id is
\* that of no other request and of no order.
RequestsAreSent ==
    \A q \in requests :
      /\ phase[q.session] \in Admitted \cup {"done"}
      /\ q.action = "NEW" => q.orig = None
      /\ q.unique => orders[q.id] = "none"
      /\ q.unique => \A p \in requests : p.id = q.id => p = q

IInv ==
    /\ TypeOK
    /\ OneHolder
    /\ RoutesAreTheUsers
    /\ OrdersPaired
    /\ TheDeadAreForgotten
    /\ RecordsAreTheUsers
    /\ RequestsAreSent
    /\ AnswersStayWithTheUser
    /\ AwaitedRequestsAreOnRecord
    /\ RequestsEnd
    /\ DoneOrdersAreForgotten

\* What the bridge holds is a request with an id and a session.
LEMMA RequestFacts ==
    ASSUME TypeOK, NEW q \in requests
    PROVE  /\ q \in Request /\ q.id \in ServerIds /\ q.session \in Sessions
           /\ q.orig \in ServerIds \cup {None} /\ q.unique \in BOOLEAN
BY DEF TypeOK, Request

\* An id has a user and a request.
LEMMA IdFacts ==
    ASSUME NEW id \in ServerIds
    PROVE  id[1] \in Users /\ id[2] \in ReqIds
BY ServerIdsAssumption

\* A session that is logged on has a party, and is the one that has it.
LEMMA PartyFacts ==
    ASSUME OneHolder, NEW s \in Sessions, phase[s] \in LoggedOn
    PROVE  client_id(s) \in Users /\ holder[client_id(s)] = s
<1>1. \E u \in Users : holder[u] = s
    BY DEF OneHolder
<1> QED
    BY <1>1 DEF client_id

\* No answer is passed on to another user.
LEMMA NotAstray ==
    ASSUME IInv, NEW id \in ServerIds
    PROVE  ToRequester(id) = None /\ Broadcast(id) = None
<1>1. ToRequester(id) = None
    BY DEF IInv, RecordsAreTheUsers, ToRequester, Astray
<1>2. Broadcast(id) = None
    BY IdFacts DEF IInv, RoutesAreTheUsers, Broadcast, Astray
<1> QED
    BY <1>1, <1>2

\* What one id is on record for.
LEMMA RecordFacts ==
    ASSUME IInv, NEW id \in ServerIds, cl_ord_id.server_to_client[id] # None
    PROVE  LET e == cl_ord_id.server_to_client[id]
           IN  /\ e.session \in Sessions /\ phase[e.session] \in Admitted
               /\ e.session = holder[id[1]] /\ e.req_id = id[2]
               /\ cl_ord_id.client_to_server[e.session][e.req_id] = id
<1>1. cl_ord_id \in Mapping
    BY DEF IInv, TypeOK
<1>2. cl_ord_id.server_to_client[id].session \in Sessions
    BY <1>1, MappingFacts
<1> QED
    BY <1>2 DEF IInv, TheDeadAreForgotten, RecordsAreTheUsers, OrdersPaired, Paired, Admitted

-----------------------------------------------------------------------------
(* One lemma per kind of step.                                             *)

\* What sending a request does, the id and whether it is unique being given.
Sent(s, action, r, orig, id, unique) ==
    /\ requests' =
         {IF q.id = id THEN [q EXCEPT !.unique = FALSE] ELSE q : q \in requests} \cup
         {[action |-> action, id |-> id, orig |-> orig, session |-> s, unique |-> unique]}
    /\ cl_ord_id' = add_req_id(cl_ord_id, s, r, id, TRUE)

\* A request that goes out under an id that is not on record.
LEMMA RecordStep ==
    ASSUME IInv, NEW s \in Sessions, NEW action \in {"NEW", "REPLACE", "CANCEL"},
           NEW r \in ReqIds, NEW orig \in ServerIds \cup {None},
           action = "NEW" => orig = None,
           phase[s] = "active", ~exists(cl_ord_id, s, r),
           NEW id, id = create_request_id(client_id(s), r),
           NEW unique \in BOOLEAN,
           unique => orders[id] = "none" /\ \A q \in requests : q.id # id,
           Sent(s, action, r, orig, id, unique),
           stray' = None, UNCHANGED <<service, route, state, orders, denied>>
    PROVE  IInv'
<1>0. PICK b \in BOOLEAN : b = TRUE
    OBVIOUS
<1> DEFINE n == add_req_id(cl_ord_id, s, r, id, b)
           e == [session |-> s, req_id |-> r, keep_alive |-> b]
           after(q) == IF q.id = id THEN [q EXCEPT !.unique = FALSE] ELSE q
           others == {after(q) : q \in requests}
           q0 == [action |-> action, id |-> id, orig |-> orig, session |-> s, unique |-> unique]
<1>1. /\ UNCHANGED <<up, phase, holder, route, state, orders, denied>> /\ stray' = None
      /\ cl_ord_id' = n /\ requests' = others \cup {q0}
    BY <1>0 DEF Sent, service
<1>2. /\ cl_ord_id \in Mapping /\ Paired(cl_ord_id)
      /\ phase[s] \in LoggedOn /\ phase[s] \in Admitted
    BY DEF IInv, TypeOK, OrdersPaired, LoggedOn, Admitted
<1>3. id = <<client_id(s), r>> /\ client_id(s) \in Users /\ holder[client_id(s)] = s
    BY <1>2, PartyFacts DEF IInv, create_request_id
<1>4. id \in ServerIds /\ id[1] = client_id(s) /\ id[2] = r /\ holder[id[1]] = s
    BY <1>3, ServerIdsAssumption
<1>5. cl_ord_id.server_to_client[id] = None
  <2> SUFFICES ASSUME cl_ord_id.server_to_client[id] # None PROVE FALSE
    OBVIOUS
  <2>1. cl_ord_id.client_to_server[s][r] = id
    BY <1>4, RecordFacts
  <2> QED
    BY <1>4, <2>1, NoneIsNoEntry
<1>6. e.session = s /\ e.req_id = r
    OBVIOUS
<1>7. Paired(n)
    BY <1>2, <1>4, <1>5, AddPaired
<1>8. /\ n \in Mapping /\ e # None
      /\ \A i \in ServerIds :
           n.server_to_client[i] = IF i = id THEN e ELSE cl_ord_id.server_to_client[i]
    BY <1>2, <1>4, <1>5, AddFacts
<1>9. q0 \in Request /\ q0.action = action /\ q0.id = id /\ q0.orig = orig
      /\ q0.session = s /\ q0.unique = unique
    BY <1>4 DEF Request
\* What the bridge held before, it holds still, but unique only if under another id.
<1>10. ASSUME NEW q \in requests
       PROVE  /\ after(q) \in Request /\ after(q).action = q.action /\ after(q).id = q.id
              /\ after(q).orig = q.orig /\ after(q).session = q.session
              /\ after(q).unique => after(q) = q /\ q.id # id
  <2>1. q \in Request
    BY RequestFacts DEF IInv
  <2>2. CASE q.id = id
    <3>1. after(q) = [q EXCEPT !.unique = FALSE]
      BY <2>2
    <3>2. after(q).unique = FALSE
      BY <2>1, <3>1 DEF Request
    <3> QED
      BY <2>1, <3>1, <3>2 DEF Request
  <2>3. CASE q.id # id
    <3>1. after(q) = q
      BY <2>3
    <3> HIDE DEF after
    <3> QED
      BY <2>1, <2>3, <3>1
  <2> QED
    BY <2>2, <2>3
<1>11. ASSUME NEW p \in others
       PROVE  \E q \in requests :
                /\ p \in Request /\ p.action = q.action /\ p.id = q.id
                /\ p.orig = q.orig /\ p.session = q.session
                /\ p.unique => p = q /\ q.id # id
  <2> HIDE DEF after
  <2>1. PICK q \in requests : p = after(q)
    OBVIOUS
  <2> QED
    BY <1>10, <2>1
<1>12. \A q \in requests : q.id \in ServerIds /\ \E p \in others : p.id = q.id
  <2> HIDE DEF after
  <2> QED
    BY <1>10, RequestFacts DEF IInv
<1> HIDE DEF n, e, after, others, q0
<1>13. TypeOK'
  <2>1. requests' \subseteq Request
    BY <1>1, <1>9, <1>11
  <2> QED
    BY <1>1, <1>8, <2>1 DEF IInv, TypeOK
<1>14. OneHolder' /\ RoutesAreTheUsers' /\ AnswersStayWithTheUser' /\ DoneOrdersAreForgotten'
    BY <1>1
       DEF IInv, OneHolder, RoutesAreTheUsers, AnswersStayWithTheUser, DoneOrdersAreForgotten
<1>15. OrdersPaired'
    BY <1>1, <1>7 DEF OrdersPaired
<1>16. TheDeadAreForgotten'
    BY <1>1, <1>6, <1>8 DEF IInv, TheDeadAreForgotten
<1>17. RecordsAreTheUsers'
    BY <1>1, <1>4, <1>6, <1>8 DEF IInv, RecordsAreTheUsers
<1>18. RequestsAreSent'
  <2> SUFFICES ASSUME NEW p \in requests'
               PROVE  /\ phase[p.session] \in Admitted \cup {"done"}
                      /\ p.action = "NEW" => p.orig = None
                      /\ p.unique => orders[p.id] = "none"
                      /\ p.unique => \A o \in requests' : o.id = p.id => o = p
    BY <1>1 DEF RequestsAreSent
  <2>1. CASE p = q0
    <3>1. unique => \A o \in others : o.id # id
      BY <1>11
    <3> QED
      BY <1>1, <1>2, <1>9, <2>1, <3>1
  <2>2. CASE p \in others
    <3>1. PICK q \in requests :
            /\ p.action = q.action /\ p.id = q.id /\ p.orig = q.orig /\ p.session = q.session
            /\ p.unique => p = q /\ q.id # id
      BY <1>11, <2>2
    <3>2. /\ phase[q.session] \in Admitted \cup {"done"} /\ (q.action = "NEW" => q.orig = None)
          /\ q.unique => orders[q.id] = "none" /\ \A o \in requests : o.id = q.id => o = q
      BY DEF IInv, RequestsAreSent
    <3>3. ASSUME p.unique, NEW o \in requests', o.id = p.id PROVE o = p
      <4>1. o \in others
        BY <1>1, <1>9, <3>1, <3>3
      <4>2. PICK x \in requests : o.id = x.id /\ x = q
        BY <1>11, <3>1, <3>2, <3>3, <4>1
      <4>3. PICK y \in requests : o = after(y)
        BY <4>1 DEF others
      <4>4. y.id = o.id
        BY <1>10, <4>3
      <4>5. y = q
        BY <3>1, <3>2, <3>3, <4>4
      <4> QED
        BY <3>1, <3>3, <4>3, <4>5 DEF after
    <3> QED
      BY <3>1, <3>2, <3>3
  <2> QED
    BY <1>1, <2>1, <2>2
<1>19. AwaitedRequestsAreOnRecord'
  <2> SUFFICES ASSUME NEW p \in requests', p.unique, p.action # "REFUSED",
                      phase[p.session] \in Admitted
               PROVE  n.server_to_client[p.id] # None
                      /\ n.server_to_client[p.id].session = p.session
    BY <1>1 DEF AwaitedRequestsAreOnRecord, Admitted
  <2>1. CASE p = q0
    BY <1>4, <1>6, <1>8, <1>9, <2>1
  <2>2. CASE p \in others
    <3>1. p \in requests /\ p.id # id /\ p.id \in ServerIds
      BY <1>11, <1>12, <2>2
    <3> QED
      BY <1>8, <3>1 DEF IInv, AwaitedRequestsAreOnRecord, Admitted
  <2> QED
    BY <1>1, <2>1, <2>2
<1>20. RequestsEnd'
  <2> SUFFICES ASSUME NEW i \in ServerIds, n.server_to_client[i] # None
               PROVE  \E p \in requests' : p.id = i
    BY <1>1 DEF RequestsEnd
  <2>1. CASE i = id
    BY <1>1, <1>9, <2>1
  <2>2. CASE i # id
    <3>1. PICK q \in requests : q.id = i
      BY <1>8, <2>2 DEF IInv, RequestsEnd
    <3> QED
      BY <1>1, <1>12, <3>1
  <2> QED
    BY <2>1, <2>2
<1> QED
    BY <1>13, <1>14, <1>15, <1>16, <1>17, <1>18, <1>19, <1>20 DEF IInv


\* The state after an answer about id that leaves what is observed of the bridge true.
LEMMA AnswerStep ==
    ASSUME IInv, NEW id \in ServerIds, NEW removed \in BOOLEAN,
           cl_ord_id' = IF removed THEN remove_req_id(cl_ord_id, id) ELSE cl_ord_id,
           requests' \subseteq requests,
           removed => \A p \in requests' : p.unique => p.id # id,
           \A p \in requests \ requests' : removed /\ p.id = id,
           orders' \in [ServerIds -> {"none", "open", "done"}],
           \A p \in requests' : p.unique => orders'[p.id] = "none",
           state' \subseteq ServerIds, denied' \subseteq state',
           \A i \in state' \ denied' : orders'[i] # "done",
           stray' = None, UNCHANGED <<service, route>>
    PROVE  IInv'
<1>1. UNCHANGED <<up, phase, holder, route>>
    BY DEF service
<1>2. cl_ord_id \in Mapping /\ Paired(cl_ord_id)
    BY DEF IInv, TypeOK, OrdersPaired
<1>3. /\ cl_ord_id' \in Mapping /\ Paired(cl_ord_id')
      /\ \A i \in ServerIds :
           cl_ord_id'.server_to_client[i] =
             IF removed /\ i = id THEN None ELSE cl_ord_id.server_to_client[i]
  <2>1. CASE removed
    BY <1>2, <2>1, RemoveFacts, RemovePaired
  <2>2. CASE ~removed
    BY <1>2, <2>2
  <2> QED
    BY <2>1, <2>2
<1>4. TypeOK'
    BY <1>1, <1>3 DEF IInv, TypeOK
<1>5. /\ OneHolder' /\ RoutesAreTheUsers' /\ OrdersPaired'
      /\ AnswersStayWithTheUser' /\ DoneOrdersAreForgotten'
    BY <1>1, <1>3
       DEF IInv, OneHolder, RoutesAreTheUsers, OrdersPaired, AnswersStayWithTheUser,
           DoneOrdersAreForgotten
<1>6. TheDeadAreForgotten' /\ RecordsAreTheUsers'
    BY <1>1, <1>3 DEF IInv, TheDeadAreForgotten, RecordsAreTheUsers
<1>7. RequestsAreSent'
    BY <1>1 DEF IInv, RequestsAreSent
<1>8. AwaitedRequestsAreOnRecord'
  <2> SUFFICES ASSUME NEW p \in requests', p.unique, p.action # "REFUSED",
                      phase[p.session] \in Admitted
               PROVE  cl_ord_id'.server_to_client[p.id] # None
                      /\ cl_ord_id'.server_to_client[p.id].session = p.session
    BY <1>1 DEF AwaitedRequestsAreOnRecord, Admitted
  <2>1. p.id \in ServerIds /\ p \in requests
    BY RequestFacts DEF IInv
  <2>2. cl_ord_id'.server_to_client[p.id] = cl_ord_id.server_to_client[p.id]
    BY <1>3, <2>1
  <2> QED
    BY <2>1, <2>2 DEF IInv, AwaitedRequestsAreOnRecord, Admitted
<1>9. RequestsEnd'
    BY <1>3 DEF IInv, RequestsEnd
<1> QED
    BY <1>4, <1>5, <1>6, <1>7, <1>8, <1>9 DEF IInv

\* No request that awaits its answer under an id of its own has that of q.
LEMMA OthersDiffer ==
    ASSUME IInv, NEW q \in requests, NEW p \in requests \ {q}, p.unique
    PROVE  p.id # q.id
BY DEF IInv, RequestsAreSent

LEMMA PendingStep ==
    ASSUME IInv, NEW q \in requests, ReportPending(q)
    PROVE  IInv'
<1>1. q.id \in ServerIds /\ orders[q.id] = "none"
    BY RequestFacts DEF IInv, ReportPending, Possible
<1>2. /\ stray' = None /\ state' = state \cup {q.id} /\ denied' = denied \cap state'
      /\ cl_ord_id' = cl_ord_id
      /\ UNCHANGED <<up, phase, holder, route, requests, orders>>
    BY <1>1, NotAstray
       DEF ReportPending, ExecutionReport, StateAfter, RecordAfter, ensure_cl_ord_id, service
<1>3. orders' \in [ServerIds -> {"none", "open", "done"}]
      /\ state' \subseteq ServerIds /\ denied' \subseteq state'
    BY <1>1, <1>2 DEF IInv, TypeOK
<1>4. \A i \in state' \ denied' : orders'[i] # "done"
    BY <1>1, <1>2 DEF IInv, DoneOrdersAreForgotten
<1>5. \A p \in requests' : p.unique => orders'[p.id] = "none"
    BY <1>2 DEF IInv, RequestsAreSent
<1> DEFINE removed == FALSE
<1>6. removed \in BOOLEAN /\ ~removed
    OBVIOUS
<1> HIDE DEF removed
<1> QED
    BY <1>1, <1>2, <1>3, <1>4, <1>5, <1>6, AnswerStep DEF service

LEMMA DoneStep ==
    ASSUME IInv, NEW q \in requests, NEW complete \in BOOLEAN, ReportDone(q, complete)
    PROVE  IInv'
<1>1. /\ q.id \in ServerIds /\ q.orig \in ServerIds \cup {None} /\ q.id # q.orig
      /\ orders[q.id] = "none"
      /\ q.orig = None \/ orders[q.orig] = "open"
    BY RequestFacts, NoneIsNoEntry DEF IInv, ReportDone, Possible, RequestsAreSent
<1>2. /\ stray' = None /\ requests' = requests \ {q}
      /\ cl_ord_id' = remove_req_id(cl_ord_id, q.id)
      /\ state' = (IF complete THEN state \ {q.id} ELSE state) \ {q.orig}
      /\ denied' = denied \cap state'
      /\ orders' = [i \in ServerIds |->
           IF i = q.id THEN IF complete THEN "done" ELSE "open"
                       ELSE IF i = q.orig THEN "done" ELSE orders[i]]
      /\ UNCHANGED <<service, route>>
    BY <1>1, NotAstray
       DEF ReportDone, ExecutionReport, StateAfter, RecordAfter, remove_cl_ord_id
<1>3. orders' \in [ServerIds -> {"none", "open", "done"}]
      /\ state' \subseteq ServerIds /\ denied' \subseteq state'
    BY <1>1, <1>2 DEF IInv, TypeOK
<1>4. \A i \in state' \ denied' : orders'[i] # "done"
    BY <1>2, <1>3 DEF IInv, TypeOK, DoneOrdersAreForgotten
<1>5. ASSUME NEW p \in requests', p.unique
      PROVE  p.id # q.id /\ orders'[p.id] = "none"
  <2>1. p.id # q.id /\ p.id \in ServerIds
    BY <1>2, <1>5, OthersDiffer, RequestFacts DEF IInv
  <2>2. orders[p.id] = "none"
    BY <1>2, <1>5 DEF IInv, RequestsAreSent
  <2>3. p.id # q.orig
    BY <1>1, <2>1, <2>2, NoneIsNoEntry
  <2> QED
    BY <1>2, <2>1, <2>2, <2>3
<1> DEFINE removed == TRUE
<1>6. removed \in BOOLEAN /\ removed
    OBVIOUS
<1> HIDE DEF removed
<1> QED
    BY <1>1, <1>2, <1>3, <1>4, <1>5, <1>6, AnswerStep

LEMMA RejectedStep ==
    ASSUME IInv, NEW q \in requests, ReportRejected(q)
    PROVE  IInv'
<1>1. q.id \in ServerIds
    BY RequestFacts DEF IInv
<1>2. /\ stray' = None /\ requests' = requests \ {q}
      /\ cl_ord_id' = remove_req_id(cl_ord_id, q.id)
      /\ UNCHANGED <<service, route>> /\ state' = state /\ denied' = denied /\ orders' = orders
    BY <1>1, NotAstray
       DEF ReportRejected, ExecutionReport, OrderCancelReject, StateAfter, RecordAfter,
           IInv, TypeOK
<1>3. orders' \in [ServerIds -> {"none", "open", "done"}]
      /\ state' \subseteq ServerIds /\ denied' \subseteq state'
    BY <1>2 DEF IInv, TypeOK
<1>4. \A i \in state' \ denied' : orders'[i] # "done"
    BY <1>2 DEF IInv, DoneOrdersAreForgotten
<1>5. \A p \in requests' : p.unique => p.id # q.id /\ orders'[p.id] = "none"
    BY <1>2, OthersDiffer DEF IInv, RequestsAreSent
<1> DEFINE removed == TRUE
<1>6. removed \in BOOLEAN /\ removed
    OBVIOUS
<1> HIDE DEF removed
<1> QED
    BY <1>1, <1>2, <1>3, <1>4, <1>5, <1>6, AnswerStep

LEMMA TradeStep ==
    ASSUME IInv, NEW id \in ServerIds, NEW complete \in BOOLEAN, ReportTrade(id, complete)
    PROVE  IInv'
<1>1. /\ stray' = None /\ requests' = requests /\ orders[id] = "open"
      /\ cl_ord_id' = remove_req_id(cl_ord_id, id)
      /\ state' = (IF complete THEN state \ {id} ELSE state) \ {None}
      /\ denied' = denied \cap state'
      /\ orders' = [orders EXCEPT ![id] = IF complete THEN "done" ELSE "open"]
      /\ UNCHANGED <<service, route>>
    BY NotAstray
       DEF ReportTrade, ExecutionReport, StateAfter, RecordAfter, remove_cl_ord_id
<1>2. /\ orders \in [ServerIds -> {"none", "open", "done"}] /\ state \subseteq ServerIds
      /\ orders' \in [ServerIds -> {"none", "open", "done"}]
    BY <1>1 DEF IInv, TypeOK
<1>3. /\ state' \subseteq ServerIds /\ denied' \subseteq state'
      /\ \A i \in state' \ denied' : orders'[i] # "done"
    BY <1>1, <1>2 DEF IInv, DoneOrdersAreForgotten
<1>4. \A p \in requests' : p.unique => p.id # id /\ orders'[p.id] = "none"
    BY <1>1, <1>2, RequestFacts DEF IInv, RequestsAreSent
<1> DEFINE removed == TRUE
<1>5. removed \in BOOLEAN /\ removed
    OBVIOUS
<1>6. \A p \in requests \ requests' : FALSE
    BY <1>1
<1> HIDE DEF removed
<1> QED
    BY <1>1, <1>2, <1>3, <1>4, <1>5, <1>6, AnswerStep


\* The bridge refuses a request; its record stays.
LEMMA RejectStep ==
    ASSUME IInv, NEW q \in requests, BusinessMessageReject(q)
    PROVE  IInv'
<1> DEFINE refused == [q EXCEPT !.action = "REFUSED"]
<1>1. /\ q \in Request /\ q.id \in ServerIds
      /\ refused \in Request /\ refused.action = "REFUSED" /\ refused.id = q.id
      /\ refused.session = q.session /\ refused.unique = q.unique
    BY RequestFacts DEF IInv, Request
<1>2. /\ stray' = None /\ requests' = (requests \ {q}) \cup {refused}
      /\ UNCHANGED <<up, phase, holder, route, cl_ord_id, state, orders, denied>>
    BY <1>1, NotAstray DEF BusinessMessageReject, service
<1> HIDE DEF refused
<1>3. /\ TypeOK' /\ OneHolder' /\ RoutesAreTheUsers' /\ OrdersPaired'
      /\ TheDeadAreForgotten' /\ RecordsAreTheUsers'
    BY <1>1, <1>2
       DEF IInv, TypeOK, OneHolder, RoutesAreTheUsers, OrdersPaired, TheDeadAreForgotten,
           RecordsAreTheUsers
<1>4. AnswersStayWithTheUser' /\ DoneOrdersAreForgotten'
    BY <1>2 DEF IInv, AnswersStayWithTheUser, DoneOrdersAreForgotten
<1>5. RequestsAreSent'
  <2> SUFFICES ASSUME NEW p \in requests'
               PROVE  /\ phase[p.session] \in Admitted \cup {"done"}
                      /\ p.action = "NEW" => p.orig = None
                      /\ p.unique => orders[p.id] = "none"
                      /\ p.unique => \A o \in requests' : o.id = p.id => o = p
    BY <1>2 DEF RequestsAreSent
  <2>1. CASE p = refused
    <3>1. q.unique => \A o \in requests \ {q} : o.id # q.id
      BY DEF IInv, RequestsAreSent
    <3> QED
      BY <1>1, <1>2, <2>1, <3>1 DEF IInv, RequestsAreSent
  <2>2. CASE p \in requests \ {q}
    <3>1. p.unique => p.id # q.id
      BY <2>2, OthersDiffer
    <3> QED
      BY <1>1, <1>2, <2>2, <3>1 DEF IInv, RequestsAreSent
  <2> QED
    BY <1>2, <2>1, <2>2
<1>6. AwaitedRequestsAreOnRecord'
    BY <1>1, <1>2 DEF IInv, AwaitedRequestsAreOnRecord
<1>7. RequestsEnd'
    BY <1>1, <1>2 DEF IInv, RequestsEnd
<1> QED
    BY <1>3, <1>4, <1>5, <1>6, <1>7 DEF IInv

\* The bridge reports the status of an order or of a request.
LEMMA StatusStep ==
    ASSUME IInv, NEW id \in ServerIds, NEW rejected \in BOOLEAN, ReportStatus(id, rejected)
    PROVE  IInv'
<1>1. /\ stray' = None /\ state' = state \cup {id} /\ cl_ord_id' = cl_ord_id
      /\ denied' = IF rejected THEN denied \cup {id} ELSE denied
      /\ rejected \/ orders[id] # "done"
      /\ UNCHANGED <<up, phase, holder, route, requests, orders>>
    BY DEF ReportStatus, StatusExecutionReport, ensure_cl_ord_id, service
<1>2. orders' \in [ServerIds -> {"none", "open", "done"}]
      /\ state' \subseteq ServerIds /\ denied' \subseteq state'
    BY <1>1 DEF IInv, TypeOK
<1>3. \A i \in state' \ denied' : orders'[i] # "done"
    BY <1>1 DEF IInv, DoneOrdersAreForgotten
<1>4. \A p \in requests' : p.unique => orders'[p.id] = "none"
    BY <1>1 DEF IInv, RequestsAreSent
<1> DEFINE removed == FALSE
<1>5. removed \in BOOLEAN /\ ~removed
    OBVIOUS
<1> HIDE DEF removed
<1> QED
    BY <1>1, <1>2, <1>3, <1>4, <1>5, AnswerStep DEF service

\* A route that is bound anew goes to the session that has the user, or to one that
\* is gone.
RoutesFollow ==
    /\ route' \in [Users -> Sessions \cup {None}]
    /\ \A u \in Users : route'[u] # None =>
         route'[u] = route[u] \/ phase'[route'[u]] = "done" \/ holder'[u] = route'[u]

\* Sessions move, as those of D that are done; what is on record for S goes, those of
\* D that had logged on.  The bridge may lose the requests it holds, all of them, when
\* everybody is gone.
LEMMA SessionsStep ==
    ASSUME IInv, NEW D \in SUBSET Sessions, NEW S \in SUBSET D,
           cl_ord_id' = clear_req_ids(cl_ord_id, S) \/ (S = {} /\ cl_ord_id' = cl_ord_id),
           up' \in BOOLEAN, holder' \in [Users -> Sessions \cup {None}],
           phase' \in [Sessions -> {"new", "joining", "active", "leaving", "done"}],
           OneHolder', RoutesFollow,
           \A u \in Users : holder[u] # None /\ holder[u] \notin D => holder'[u] = holder[u],
           \A s \in Sessions : s \notin D =>
             /\ phase[s] \in Admitted => phase'[s] \in Admitted
             /\ phase[s] = "done" => phase'[s] = "done",
           \A s \in D : phase'[s] = "done",
           \A s \in D \ S : phase[s] \notin Admitted,
           \/ requests' = requests
           \/ requests' = {} /\ \A s \in Sessions : phase[s] \in Admitted => s \in S,
           UNCHANGED <<state, orders, denied>>, stray' = None
    PROVE  IInv'
<1>1. cl_ord_id \in Mapping /\ Paired(cl_ord_id) /\ S \in SUBSET Sessions
    BY DEF IInv, TypeOK, OrdersPaired
<1>2. /\ cl_ord_id' \in Mapping /\ Paired(cl_ord_id')
      /\ \A i \in ServerIds :
           cl_ord_id'.server_to_client[i] =
             IF cl_ord_id.server_to_client[i] # None /\ cl_ord_id.server_to_client[i].session \in S
               THEN None ELSE cl_ord_id.server_to_client[i]
  <2>1. CASE cl_ord_id' = clear_req_ids(cl_ord_id, S)
    BY <1>1, <2>1, ClearFacts, ClearPaired
  <2>2. CASE S = {} /\ cl_ord_id' = cl_ord_id
    BY <1>1, <2>2
  <2> QED
    BY <2>1, <2>2
\* What stays on record is of a session that goes on, and has its user still.
<1>3. ASSUME NEW i \in ServerIds, cl_ord_id'.server_to_client[i] # None
      PROVE  LET e == cl_ord_id.server_to_client[i]
             IN  /\ cl_ord_id'.server_to_client[i] = e /\ e # None
                 /\ phase'[e.session] \in Admitted
                 /\ holder'[i[1]] = e.session /\ e.req_id = i[2] /\ e.session \notin S
  <2> DEFINE e == cl_ord_id.server_to_client[i]
  <2>1. cl_ord_id'.server_to_client[i] = e /\ e # None /\ e.session \notin S
    BY <1>2, <1>3
  <2>2. /\ e.session \in Sessions /\ phase[e.session] \in Admitted
        /\ e.session = holder[i[1]] /\ e.req_id = i[2]
    BY <2>1, RecordFacts
  <2>3. e.session \notin D /\ e.session # None /\ i[1] \in Users
    BY <2>1, <2>2, IdFacts, NoneIsNoSession
  <2> HIDE DEF e
  <2>4. phase'[e.session] \in Admitted /\ holder'[i[1]] = e.session
    BY <2>2, <2>3
  <2> QED
    BY <2>1, <2>2, <2>4 DEF e
<1>4. TypeOK' /\ OrdersPaired'
    BY <1>1, <1>2 DEF IInv, TypeOK, OrdersPaired, RoutesFollow
<1>5. TheDeadAreForgotten' /\ RecordsAreTheUsers'
    BY <1>3 DEF TheDeadAreForgotten, RecordsAreTheUsers, Admitted
<1>6. AnswersStayWithTheUser' /\ DoneOrdersAreForgotten'
    BY DEF IInv, AnswersStayWithTheUser, DoneOrdersAreForgotten
<1>7. \A q \in requests : /\ phase'[q.session] \in Admitted \cup {"done"}
                          /\ phase'[q.session] \in Admitted =>
                               phase[q.session] \in Admitted /\ q.session \notin D
  <2> SUFFICES ASSUME NEW q \in requests
               PROVE  /\ phase'[q.session] \in Admitted \cup {"done"}
                      /\ phase'[q.session] \in Admitted =>
                           phase[q.session] \in Admitted /\ q.session \notin D
    OBVIOUS
  <2>1. q.session \in Sessions /\ phase[q.session] \in Admitted \cup {"done"}
    BY RequestFacts DEF IInv, RequestsAreSent
  <2> QED
    BY <2>1 DEF Admitted
<1>8. RequestsAreSent'
    BY <1>7 DEF IInv, RequestsAreSent
<1>9. AwaitedRequestsAreOnRecord'
  <2> SUFFICES ASSUME NEW p \in requests, p.unique, p.action # "REFUSED",
                      phase'[p.session] \in Admitted
               PROVE  cl_ord_id'.server_to_client[p.id] # None
                      /\ cl_ord_id'.server_to_client[p.id].session = p.session
    BY DEF AwaitedRequestsAreOnRecord, Admitted
  <2>1. p.id \in ServerIds /\ phase[p.session] \in Admitted /\ p.session \notin S
    BY <1>7, RequestFacts DEF IInv
  <2>2. cl_ord_id.server_to_client[p.id] # None
        /\ cl_ord_id.server_to_client[p.id].session = p.session
    BY <2>1 DEF IInv, AwaitedRequestsAreOnRecord, Admitted
  <2> QED
    BY <1>2, <2>1, <2>2
<1>10. RequestsEnd'
  <2> SUFFICES ASSUME NEW i \in ServerIds, cl_ord_id'.server_to_client[i] # None
               PROVE  \E p \in requests' : p.id = i
    BY DEF RequestsEnd
  <2> DEFINE e == cl_ord_id.server_to_client[i]
  <2>1. e # None /\ e.session \notin S
    BY <1>3
  <2>2. e.session \in Sessions /\ phase[e.session] \in Admitted
    BY <2>1, RecordFacts
  <2>3. \E p \in requests : p.id = i
    BY <2>1 DEF IInv, RequestsEnd
  <2> QED
    BY <2>1, <2>2, <2>3
<1>11. RoutesAreTheUsers'
  <2> SUFFICES ASSUME NEW u \in Users, route'[u] # None,
                      route'[u] = route[u], phase'[route[u]] # "done"
               PROVE  holder'[u] = route[u]
    BY DEF RoutesAreTheUsers, RoutesFollow
  <2>1. route[u] \in Sessions /\ route[u] # None
    BY DEF IInv, TypeOK
  <2>2. phase[route[u]] # "done" /\ route[u] \notin D
    BY <2>1
  <2>3. holder[u] = route[u]
    BY <2>1, <2>2 DEF IInv, RoutesAreTheUsers
  <2> QED
    BY <2>1, <2>2, <2>3
<1> QED
    BY <1>4, <1>5, <1>6, <1>8, <1>9, <1>10, <1>11 DEF IInv

\* When sessions are done, their users are free, and the registry stays one.
LEMMA FinishFacts ==
    ASSUME TypeOK, OneHolder, NEW S \in SUBSET Sessions, Service!Finish(S)
    PROVE  /\ phase' \in [Sessions -> {"new", "joining", "active", "leaving", "done"}]
           /\ holder' \in [Users -> Sessions \cup {None}]
           /\ \A s \in Sessions : phase'[s] = IF s \in S THEN "done" ELSE phase[s]
           /\ \A u \in Users : holder[u] # None /\ holder[u] \notin S => holder'[u] = holder[u]
           /\ OneHolder'
<1>1. holder' = [u \in Users |-> IF holder[u] \in S THEN None ELSE holder[u]]
    BY DEF Service!Finish
<1>2. phase' = [s \in Sessions |-> IF s \in S THEN "done" ELSE phase[s]]
    BY DEF Service!Finish
<1>3. /\ phase' \in [Sessions -> {"new", "joining", "active", "leaving", "done"}]
      /\ holder' \in [Users -> Sessions \cup {None}]
      /\ \A s \in Sessions : phase'[s] = IF s \in S THEN "done" ELSE phase[s]
      /\ \A u \in Users : holder'[u] = IF holder[u] \in S THEN None ELSE holder[u]
    BY <1>1, <1>2 DEF TypeOK
<1>4. \A u \in Users : holder'[u] # None => holder'[u] = holder[u] /\ holder[u] \notin S
    BY <1>3
<1>5. \A u \in Users : holder'[u] # None => phase'[holder'[u]] \in LoggedOn
  <2> SUFFICES ASSUME NEW u \in Users, holder'[u] # None PROVE phase'[holder[u]] \in LoggedOn
    BY <1>4
  <2>1. holder[u] \in Sessions /\ holder[u] \notin S /\ holder[u] # None
    BY <1>4 DEF TypeOK
  <2> QED
    BY <1>3, <2>1 DEF OneHolder
<1>6. \A s \in Sessions : phase'[s] \in LoggedOn => \E u \in Users : holder'[u] = s
  <2> SUFFICES ASSUME NEW s \in Sessions, phase'[s] \in LoggedOn
               PROVE  \E u \in Users : holder'[u] = s
    OBVIOUS
  <2>1. s \notin S /\ phase[s] \in LoggedOn
    BY <1>3 DEF LoggedOn
  <2>2. PICK u \in Users : holder[u] = s
    BY <2>1 DEF OneHolder
  <2> QED
    BY <1>3, <2>1, <2>2
<1>7. \A u, v \in Users : holder'[u] # None /\ holder'[u] = holder'[v] => u = v
    BY <1>4 DEF OneHolder
<1> QED
    BY <1>3, <1>5, <1>6, <1>7 DEF OneHolder

\* A user that nobody has is taken by a session that has none.
LEMMA JoinFacts ==
    ASSUME TypeOK, OneHolder, NEW s \in Sessions, NEW u \in Users, Service!Join(s, u)
    PROVE  /\ phase' \in [Sessions -> {"new", "joining", "active", "leaving", "done"}]
           /\ holder' \in [Users -> Sessions \cup {None}]
           /\ \A t \in Sessions : phase'[t] = IF t = s THEN "joining" ELSE phase[t]
           /\ \A v \in Users : holder[v] # None => holder'[v] = holder[v]
           /\ OneHolder'
<1>1. /\ phase' = [phase EXCEPT ![s] = "joining"] /\ holder' = [holder EXCEPT ![u] = s]
      /\ holder[u] = None /\ phase[s] = "new"
    BY DEF Service!Join
<1>2. /\ phase' \in [Sessions -> {"new", "joining", "active", "leaving", "done"}]
      /\ holder' \in [Users -> Sessions \cup {None}]
      /\ \A t \in Sessions : phase'[t] = IF t = s THEN "joining" ELSE phase[t]
      /\ \A v \in Users : holder'[v] = IF v = u THEN s ELSE holder[v]
    BY <1>1 DEF TypeOK
<1>3. \A v \in Users : holder[v] # s
    BY <1>1, NoneIsNoSession DEF OneHolder, LoggedOn
<1>4. \A v \in Users : holder'[v] # None => phase'[holder'[v]] \in LoggedOn
  <2> SUFFICES ASSUME NEW v \in Users, holder'[v] # None PROVE phase'[holder'[v]] \in LoggedOn
    OBVIOUS
  <2>1. CASE v = u
    BY <1>2, <2>1 DEF LoggedOn
  <2>2. CASE v # u
    <3>1. holder'[v] = holder[v] /\ holder[v] \in Sessions /\ holder[v] # s /\ holder[v] # None
      BY <1>2, <1>3, <2>2 DEF TypeOK
    <3> QED
      BY <1>2, <3>1 DEF OneHolder
  <2> QED
    BY <2>1, <2>2
<1>5. \A t \in Sessions : phase'[t] \in LoggedOn => \E v \in Users : holder'[v] = t
  <2> SUFFICES ASSUME NEW t \in Sessions, phase'[t] \in LoggedOn
               PROVE  \E v \in Users : holder'[v] = t
    OBVIOUS
  <2>1. CASE t = s
    BY <1>2, <2>1
  <2>2. CASE t # s
    <3>1. PICK v \in Users : holder[v] = t
      BY <1>2, <2>2 DEF OneHolder
    <3> QED
      BY <1>1, <1>2, <3>1, NoneIsNoSession
  <2> QED
    BY <2>1, <2>2
<1>6. \A v, w \in Users : holder'[v] # None /\ holder'[v] = holder'[w] => v = w
    BY <1>2, <1>3 DEF OneHolder
<1> QED
    BY <1>1, <1>2, <1>4, <1>5, <1>6 DEF OneHolder

\* A session that is logged on goes on to another phase of that.
LEMMA MoveFacts ==
    ASSUME TypeOK, OneHolder, NEW s \in Sessions, phase[s] \in LoggedOn,
           NEW p \in Admitted, phase' = [phase EXCEPT ![s] = p], holder' = holder
    PROVE  /\ phase' \in [Sessions -> {"new", "joining", "active", "leaving", "done"}]
           /\ \A t \in Sessions : phase'[t] = IF t = s THEN p ELSE phase[t]
           /\ OneHolder'
<1>1. p \in LoggedOn
    BY DEF LoggedOn, Admitted
<1>2. /\ phase' \in [Sessions -> {"new", "joining", "active", "leaving", "done"}]
      /\ \A t \in Sessions : phase'[t] = IF t = s THEN p ELSE phase[t]
    BY <1>1 DEF TypeOK, LoggedOn
<1>3. \A t \in Sessions : phase'[t] \in LoggedOn <=> phase[t] \in LoggedOn
    BY <1>1, <1>2
<1> QED
    BY <1>2, <1>3 DEF OneHolder, TypeOK


\* Logons, logouts, and the end of sessions that were not logged on.
LEMMA LogonStepStep == ASSUME IInv, LogonStep PROVE IInv'
<1>1. /\ TypeOK /\ OneHolder /\ requests' = requests /\ stray' = None /\ cl_ord_id' = cl_ord_id
      /\ UNCHANGED <<state, orders, denied>>
    BY DEF LogonStep, IInv
\* Where no route is bound, they follow anyway.
<1>0. UNCHANGED route => RoutesFollow
    BY <1>1 DEF RoutesFollow, TypeOK
<1>2. ASSUME up' \in BOOLEAN, holder' \in [Users -> Sessions \cup {None}],
             phase' \in [Sessions -> {"new", "joining", "active", "leaving", "done"}],
             OneHolder', RoutesFollow,
             NEW D \in SUBSET Sessions,
             \A s \in D : phase[s] = "new" /\ phase'[s] = "done",
             \A u \in Users : holder[u] # None /\ holder[u] \notin D => holder'[u] = holder[u],
             \A s \in Sessions : s \notin D =>
               /\ phase[s] \in Admitted => phase'[s] \in Admitted
               /\ phase[s] = "done" => phase'[s] = "done"
      PROVE  IInv'
  <2>1. {} \in SUBSET D /\ \A s \in D \ {} : phase[s] \notin Admitted
    BY <1>2 DEF Admitted
  <2> QED
    BY <1>1, <1>2, <2>1, SessionsStep
<1>3. ASSUME up' \in BOOLEAN, holder' \in [Users -> Sessions \cup {None}],
             phase' \in [Sessions -> {"new", "joining", "active", "leaving", "done"}],
             OneHolder', RoutesFollow,
             \A u \in Users : holder[u] # None => holder'[u] = holder[u],
             \A s \in Sessions :
               /\ phase[s] \in Admitted => phase'[s] \in Admitted
               /\ phase[s] = "done" => phase'[s] = "done"
      PROVE  IInv'
  <2>1. {} \in SUBSET Sessions
    OBVIOUS
  <2> QED
    BY <1>2, <1>3, <2>1
<1>4. CASE Service!Raise /\ UNCHANGED route
    BY <1>0, <1>1, <1>3, <1>4 DEF Service!Raise, TypeOK, OneHolder
<1>5. ASSUME NEW s \in Sessions, NEW u \in Users, Service!Join(s, u), UNCHANGED route PROVE IInv'
  <2>1. up' \in BOOLEAN /\ phase[s] = "new"
    BY <1>1, <1>5 DEF Service!Join, TypeOK
  <2> QED
    BY <1>0, <1>1, <1>3, <1>5, <2>1, JoinFacts DEF Admitted
<1>6. ASSUME NEW s \in Sessions, NEW p \in Admitted, phase[s] \in {"joining", "active"},
             phase' = [phase EXCEPT ![s] = p], UNCHANGED <<up, holder>>, RoutesFollow
      PROVE  IInv'
  <2>1. phase[s] \in LoggedOn /\ phase[s] # "done" /\ up' \in BOOLEAN
    BY <1>1, <1>6 DEF LoggedOn, TypeOK
  <2>2. /\ phase' \in [Sessions -> {"new", "joining", "active", "leaving", "done"}]
        /\ \A t \in Sessions : phase'[t] = IF t = s THEN p ELSE phase[t]
        /\ OneHolder'
    BY <1>1, <1>6, <2>1, MoveFacts
  <2> QED
    BY <1>1, <1>3, <1>6, <2>1, <2>2 DEF TypeOK
<1>7. ASSUME NEW s \in Sessions, Service!Admit(s),
             route' = [route EXCEPT ![client_id(s)] = s]
      PROVE  IInv'
  <2>1. client_id(s) \in Users /\ holder[client_id(s)] = s
    BY <1>1, <1>7, PartyFacts DEF Service!Admit, LoggedOn
  <2>2. RoutesFollow
    BY <1>1, <1>7, <2>1 DEF RoutesFollow, Service!Admit, TypeOK
  <2> QED
    BY <1>6, <1>7, <2>2 DEF Service!Admit, Admitted
<1>8. ASSUME NEW s \in Sessions, Service!Retract(s), UNCHANGED route PROVE IInv'
    BY <1>0, <1>6, <1>8 DEF Service!Retract, Admitted
<1>9. ASSUME NEW s \in Sessions, phase[s] = "new", Service!End(s), UNCHANGED route PROVE IInv'
  <2>1. {s} \in SUBSET Sessions /\ Service!Finish({s}) /\ up' \in BOOLEAN
    BY <1>1, <1>9 DEF Service!End, TypeOK
  <2>2. /\ phase' \in [Sessions -> {"new", "joining", "active", "leaving", "done"}]
        /\ holder' \in [Users -> Sessions \cup {None}]
        /\ \A t \in Sessions : phase'[t] = IF t \in {s} THEN "done" ELSE phase[t]
        /\ \A u \in Users : holder[u] # None /\ holder[u] \notin {s} => holder'[u] = holder[u]
        /\ OneHolder'
    BY <1>1, <2>1, FinishFacts
  <2> QED
    BY <1>0, <1>2, <1>9, <2>1, <2>2
<1> QED
    BY <1>4, <1>5, <1>7, <1>8, <1>9 DEF LogonStep

\* A client that had logged on is gone.
LEMMA DisconnectedStep == ASSUME IInv, NEW s \in Sessions, Disconnected(s) PROVE IInv'
<1>1. /\ Service!Finish({s}) /\ up' = up /\ stray' = None /\ requests' = requests
      /\ cl_ord_id' = clear_req_ids(cl_ord_id, {s})
      /\ UNCHANGED <<state, orders, denied>>
    BY DEF Disconnected, Service!End
<1>2. TypeOK /\ OneHolder /\ {s} \in SUBSET Sessions /\ {s} \in SUBSET {s} /\ up' \in BOOLEAN
    BY <1>1 DEF IInv, TypeOK
<1>3. /\ phase' \in [Sessions -> {"new", "joining", "active", "leaving", "done"}]
      /\ holder' \in [Users -> Sessions \cup {None}]
      /\ \A t \in Sessions : phase'[t] = IF t \in {s} THEN "done" ELSE phase[t]
      /\ \A u \in Users : holder[u] # None /\ holder[u] \notin {s} => holder'[u] = holder[u]
      /\ OneHolder'
    BY <1>1, <1>2, FinishFacts
<1>4. RoutesFollow
  <2>1. CASE route' = ReleaseRoutes({s})
    BY <1>2, <2>1 DEF ReleaseRoutes, RoutesFollow, TypeOK
  <2>2. CASE route' = [route EXCEPT ![client_id(s)] = s]
    BY <1>2, <1>3, <2>2 DEF RoutesFollow, TypeOK
  <2> QED
    BY <2>1, <2>2 DEF Disconnected
<1> QED
    BY <1>1, <1>2, <1>3, <1>4, SessionsStep

\* The bridge is lost, and with it the requests that it held.
LEMMA BridgeLostStep == ASSUME IInv, BridgeLost PROVE IInv'
<1>1. PICK N \in SUBSET {s \in Sessions : phase[s] = "new"} : Service!Finish(Service!Inside \cup N)
    BY DEF BridgeLost, Service!Drop
<1> DEFINE S == Service!Inside
           D == S \cup N
<1>2. /\ up' = FALSE /\ stray' = None /\ requests' = {}
      /\ cl_ord_id' = clear_req_ids(cl_ord_id, S)
      /\ UNCHANGED <<state, orders, denied>>
    BY DEF BridgeLost, Service!Drop
<1>3. /\ D \in SUBSET Sessions /\ S \in SUBSET D /\ Service!Finish(D)
      /\ \A s \in D \ S : phase[s] = "new"
      /\ \A s \in Sessions : phase[s] \in Admitted => s \in S
    BY <1>1 DEF Service!Inside, Admitted
<1> HIDE DEF S, D
<1>4. /\ phase' \in [Sessions -> {"new", "joining", "active", "leaving", "done"}]
      /\ holder' \in [Users -> Sessions \cup {None}]
      /\ \A t \in Sessions : phase'[t] = IF t \in D THEN "done" ELSE phase[t]
      /\ \A u \in Users : holder[u] # None /\ holder[u] \notin D => holder'[u] = holder[u]
      /\ OneHolder'
    BY <1>3, FinishFacts DEF IInv
<1>5. \A s \in D : phase'[s] = "done"
    BY <1>3, <1>4
<1>6. \A s \in D \ S : phase[s] \notin Admitted
    BY <1>3 DEF Admitted
<1>7. RoutesFollow
    BY DEF BridgeLost, ReleaseRoutes, RoutesFollow, IInv, TypeOK
<1> QED
    BY <1>2, <1>3, <1>4, <1>5, <1>6, <1>7, SessionsStep

\* A client's request: it goes out, or it is refused and changes nothing.
LEMMA SendStep ==
    ASSUME IInv, NEW s \in Sessions, NEW action \in {"NEW", "REPLACE", "CANCEL"},
           NEW r \in ReqIds, NEW orig \in ServerIds \cup {None}, action = "NEW" => orig = None,
           Send(s, action, r, orig)
    PROVE  IInv'
<1> DEFINE id == create_request_id(client_id(s), r)
<1>1. PICK unique \in BOOLEAN :
        unique = (orders[id] = "none" /\ \A q \in requests : q.id # id)
    OBVIOUS
<1>2. phase[s] = "active" /\ stray' = None /\ UNCHANGED <<service, route, state, orders, denied>>
    BY DEF Send
<1>3. CASE ~exists(cl_ord_id, s, r) /\ Sent(s, action, r, orig, id, unique)
  <2>1. unique => orders[id] = "none" /\ \A q \in requests : q.id # id
    BY <1>1
  <2> HIDE DEF id
  <2>2. id = create_request_id(client_id(s), r)
    BY DEF id
  <2> QED
    BY <1>2, <1>3, <2>1, <2>2, RecordStep
<1>4. CASE UNCHANGED <<cl_ord_id, requests>>
    BY <1>2, <1>4
       DEF service, IInv, TypeOK, OneHolder, RoutesAreTheUsers, OrdersPaired,
           TheDeadAreForgotten, RecordsAreTheUsers, RequestsAreSent, AnswersStayWithTheUser,
           AwaitedRequestsAreOnRecord, RequestsEnd, DoneOrdersAreForgotten
<1> QED
    BY <1>1, <1>3, <1>4 DEF Send, Sent

\* A client's request is one to Send, about an order of the same user.
LEMMA ClientStepStep == ASSUME IInv, NEW s \in Sessions, ClientStep(s) PROVE IInv'
<1>1. ASSUME NEW r \in ReqIds, NewOrderSingle(s, r) PROVE IInv'
  <2>1. None \in ServerIds \cup {None} /\ "NEW" \in {"NEW", "REPLACE", "CANCEL"}
    OBVIOUS
  <2> QED
    BY <1>1, <2>1, SendStep DEF NewOrderSingle
<1>2. ASSUME NEW r \in ReqIds, NEW o \in ReqIds, NEW action \in {"REPLACE", "CANCEL"},
             Send(s, action, r, create_request_id(client_id(s), o))
      PROVE  IInv'
  <2>1. phase[s] \in LoggedOn
    BY <1>2 DEF Send, LoggedOn
  <2>2. client_id(s) \in Users
    BY <2>1, PartyFacts DEF IInv
  <2>3. create_request_id(client_id(s), o) \in ServerIds
    BY <2>2, ServerIdsAssumption DEF create_request_id
  <2> QED
    BY <1>2, <2>3, SendStep
<1>3. ASSUME NEW r \in ReqIds, NEW o \in ReqIds,
             OrderCancelReplaceRequest(s, r, o) \/ OrderCancelRequest(s, r, o)
      PROVE  IInv'
    BY <1>2, <1>3 DEF OrderCancelReplaceRequest, OrderCancelRequest
<1> QED
    BY <1>1, <1>3, DisconnectedStep DEF ClientStep

-----------------------------------------------------------------------------
(* The invariant holds.                                                    *)

LEMMA InitIInv == Init => IInv
<1> SUFFICES ASSUME Init PROVE IInv
    OBVIOUS
<1>1. /\ phase = [s \in Sessions |-> "new"] /\ holder = [u \in Users |-> None] /\ up = FALSE
      /\ cl_ord_id = EmptyMapping /\ state = {} /\ requests = {} /\ stray = None
      /\ orders = [id \in ServerIds |-> "none"] /\ denied = {}
      /\ route = [u \in Users |-> None]
    BY DEF Init, Service!Init
<1>2. cl_ord_id \in Mapping /\ Paired(cl_ord_id)
    BY <1>1, EmptyFacts
<1>3. \A i \in ServerIds : cl_ord_id.server_to_client[i] = None
    BY <1>1 DEF EmptyMapping
<1>4. TypeOK
    BY <1>1, <1>2 DEF TypeOK
<1>5. OneHolder
    BY <1>1 DEF OneHolder, LoggedOn
<1> QED
    BY <1>1, <1>2, <1>3, <1>4, <1>5
       DEF IInv, RoutesAreTheUsers, OrdersPaired, TheDeadAreForgotten, RecordsAreTheUsers,
           RequestsAreSent,
           AnswersStayWithTheUser, AwaitedRequestsAreOnRecord, RequestsEnd,
           DoneOrdersAreForgotten

\* Every step keeps the invariant: one case per kind of step.
LEMMA NextIInv == IInv /\ [Next]_vars => IInv'
<1> SUFFICES ASSUME IInv, [Next]_vars PROVE IInv'
    OBVIOUS
<1>1. CASE UNCHANGED vars
    BY <1>1
       DEF vars, service, IInv, TypeOK, OneHolder, RoutesAreTheUsers, OrdersPaired,
           TheDeadAreForgotten, RecordsAreTheUsers, RequestsAreSent, AnswersStayWithTheUser,
           AwaitedRequestsAreOnRecord, RequestsEnd, DoneOrdersAreForgotten
<1>2. CASE LogonStep
    BY <1>2, LogonStepStep
<1>3. ASSUME NEW s \in Sessions, ClientStep(s) PROVE IInv'
    BY <1>3, ClientStepStep
<1>4. ASSUME NEW q \in requests, BridgeStep(q) PROVE IInv'
    BY <1>4, PendingStep, DoneStep, RejectedStep, RejectStep DEF BridgeStep
<1>5. ASSUME NEW id \in ServerIds, NEW complete \in BOOLEAN, ReportTrade(id, complete)
      PROVE  IInv'
    BY <1>5, TradeStep
<1>6. ASSUME NEW id \in ServerIds, NEW rejected \in BOOLEAN, ReportStatus(id, rejected)
      PROVE  IInv'
    BY <1>6, StatusStep
<1>7. CASE BridgeLost
    BY <1>7, BridgeLostStep
<1> QED
    BY <1>1, <1>2, <1>3, <1>4, <1>5, <1>6, <1>7 DEF Next

\* The invariant, for any users, sessions, order ids and numbers of requests.
THEOREM Invariant == Spec => []IInv
    BY InitIInv, NextIInv, PTL DEF Spec

\* All state of the order handlers stays in its domain.
THEOREM TypeCorrect == Spec => []TypeOK
<1>1. IInv => TypeOK
    BY DEF IInv
<1> QED
    BY <1>1, Invariant, PTL

\* Both directions of cl_ord_id agree, although all sessions of a user share its ids.
THEOREM MappingIsPaired == Spec => []OrdersPaired
<1>1. IInv => OrdersPaired
    BY DEF IInv
<1> QED
    BY <1>1, Invariant, PTL

\* After a session died, nothing is on record for it, whatever was in flight.
THEOREM NothingIsKeptOfTheDead == Spec => []TheDeadAreForgotten
<1>1. IInv => TheDeadAreForgotten
    BY DEF IInv
<1> QED
    BY <1>1, Invariant, PTL

\* No report or reject about a user's order is passed on to another user.
THEOREM AnswersAreTheUsers == Spec => []AnswersStayWithTheUser
<1>1. IInv => AnswersStayWithTheUser
    BY DEF IInv
<1> QED
    BY <1>1, Invariant, PTL

\* A request that awaits its answer stays on record for the session that sent it.
THEOREM AwaitedIsOnRecord == Spec => []AwaitedRequestsAreOnRecord
<1>1. IInv => AwaitedRequestsAreOnRecord
    BY DEF IInv
<1> QED
    BY <1>1, Invariant, PTL

\* A request that the bridge has answered is off the record: its id is free again.
THEOREM RequestsAreForgotten == Spec => []RequestsEnd
<1>1. IInv => RequestsEnd
    BY DEF IInv
<1> QED
    BY <1>1, Invariant, PTL

\* cl_ord_id_.state keeps no order that is known to be complete or replaced, unless a
\* status report has denied it.
THEOREM DoneOrdersAreNotKept == Spec => []DoneOrdersAreForgotten
<1>1. IInv => DoneOrdersAreForgotten
    BY DEF IInv
<1> QED
    BY <1>1, Invariant, PTL

-----------------------------------------------------------------------------
(* The requests on record are those that RequestService allows.  The shape of *)
(* the argument: a step changes at most one entry of the record, or takes off *)
(* all entries of the sessions that it ends.                                  *)

\* What a step may do, as RequestService has it.
Refined == Service!RequestNext \/ UNCHANGED Service!requestVars

\* The mapping by the name of its kind.
NamedOrders == [k \in Kinds |-> cl_ord_id]

LEMMA RecordIs ==
    /\ record = Records(Kinds, NamedOrders) /\ record' = Records(Kinds, NamedOrders')
    /\ "cl_ord_id" \in Kinds
    /\ \A k \in Kinds : k = "cl_ord_id" /\ NamedOrders[k] = cl_ord_id /\ NamedOrders'[k] = cl_ord_id'
BY DEF record, Records, NamedOrders, Kinds

\* A step that concerns neither sessions nor what the ids stand for.
LEMMA SameStep ==
    ASSUME UNCHANGED service, Requests(cl_ord_id') = Requests(cl_ord_id)
    PROVE  Refined
BY DEF record, Refined, Service!requestVars, Service!vars, service

\* A new request of an active session goes on record.
LEMMA GoesOnRecord ==
    ASSUME IInv, UNCHANGED service, NEW id \in ServerIds, NEW e \in Entry,
           phase[e.session] = "active", ~exists(cl_ord_id, e.session, e.req_id),
           cl_ord_id.server_to_client[id] = None,
           \A i \in ServerIds :
             cl_ord_id'.server_to_client[i] = IF i = id THEN e ELSE cl_ord_id.server_to_client[i]
    PROVE  Refined
<1>1. /\ cl_ord_id \in Mapping /\ Paired(cl_ord_id)
      /\ e.session \in Sessions /\ e.req_id \in ReqIds
    BY DEF IInv, TypeOK, OrdersPaired, Entry
<1>2. \A k \in Kinds, i \in ServerIds :
        NamedOrders'[k].server_to_client[i] =
          IF k = "cl_ord_id" /\ i = id THEN e ELSE NamedOrders[k].server_to_client[i]
    BY RecordIs
<1>3. Added(Records(Kinds, NamedOrders'), Records(Kinds, NamedOrders), "cl_ord_id", id, e)
    BY <1>1, <1>2, RecordIs, RecordsWith
<1>4. Added(record', record, "cl_ord_id", id, e)
    BY <1>3, RecordIs
<1>5. Service!Record("cl_ord_id", id, e.session, e.req_id) /\ record'["cl_ord_id"] # record["cl_ord_id"]
    BY <1>4 DEF Added, Entered, Service!Record, Service!Enter
<1>6. Service!RequestStep("cl_ord_id")
    BY <1>1, <1>5 DEF Service!RequestStep
<1> QED
    BY <1>6, RecordIs DEF Refined, Service!RequestNext, Service!vars, service

\* An answer may take the request under id off the record.
LEMMA ForgetStep ==
    ASSUME IInv, UNCHANGED service, NEW id \in ServerIds, cl_ord_id' = remove_req_id(cl_ord_id, id)
    PROVE  Refined
<1>1. cl_ord_id \in Mapping
    BY DEF IInv, TypeOK
<1>2. CASE cl_ord_id.server_to_client[id] = None
  <2>1. cl_ord_id' = cl_ord_id
    BY <1>1, <1>2, RemoveFacts
  <2> QED
    BY <2>1, SameStep
<1>3. CASE cl_ord_id.server_to_client[id] # None
  <2>1. \A i \in ServerIds :
          cl_ord_id'.server_to_client[i] = IF i = id THEN None ELSE cl_ord_id.server_to_client[i]
    BY <1>1, RemoveFacts
  <2>2. \A k \in Kinds, i \in ServerIds :
          NamedOrders'[k].server_to_client[i] =
            IF k = "cl_ord_id" /\ i = id THEN None ELSE NamedOrders[k].server_to_client[i]
    BY <2>1, RecordIs
  <2>3. Removed(Records(Kinds, NamedOrders'), Records(Kinds, NamedOrders), "cl_ord_id", id)
    BY <1>1, <1>3, <2>2, RecordIs, RecordsLess
  <2>4. Removed(record', record, "cl_ord_id", id)
    BY <2>3, RecordIs
  <2>5. Service!Forget("cl_ord_id", id) /\ record'["cl_ord_id"] # record["cl_ord_id"]
    BY <2>4 DEF Removed, Entered, Service!Forget, Service!Enter
  <2>6. Service!RequestStep("cl_ord_id")
    BY <2>5 DEF Service!RequestStep
  <2> QED
    BY <2>6, RecordIs DEF Refined, Service!RequestNext, Service!vars, service
<1> QED
    BY <1>2, <1>3

\* Sessions come and go: of those that had logged on, exactly the sessions S are done
\* by it, and exactly what is on record for them goes.
LEMMA ComeAndGoStep ==
    ASSUME IInv, NEW S \in SUBSET Sessions, Service!Next, ~UNCHANGED Service!vars,
           \A s \in Sessions : phase[s] \in Admitted => (phase'[s] = "done" <=> s \in S),
           \A i \in ServerIds :
             cl_ord_id'.server_to_client[i] =
               IF /\ cl_ord_id.server_to_client[i] # None
                  /\ cl_ord_id.server_to_client[i].session \in S
                 THEN None ELSE cl_ord_id.server_to_client[i]
    PROVE  Refined
<1>1. cl_ord_id \in Mapping
    BY DEF IInv, TypeOK
<1>2. ASSUME NEW i \in ServerIds
      PROVE  cl_ord_id'.server_to_client[i] =
               IF /\ cl_ord_id.server_to_client[i] # None
                  /\ phase'[cl_ord_id.server_to_client[i].session] = "done"
                 THEN None ELSE cl_ord_id.server_to_client[i]
    BY <1>1, MappingFacts DEF IInv, TheDeadAreForgotten, Admitted
<1>3. Records(Kinds, NamedOrders') = Without(Kinds, Records(Kinds, NamedOrders), phase')
  <2>1. \A k \in Kinds : NamedOrders[k] \in Mapping
    BY <1>1, RecordIs
  <2>2. \A k \in Kinds, i \in ServerIds :
          NamedOrders'[k].server_to_client[i] =
            IF /\ NamedOrders[k].server_to_client[i] # None
               /\ phase'[NamedOrders[k].server_to_client[i].session] = "done"
              THEN None ELSE NamedOrders[k].server_to_client[i]
    BY <1>2, RecordIs
  <2> QED
    BY <2>1, <2>2, RecordsWithout
<1>4. record' = Without(Kinds, record, phase')
    BY <1>3, RecordIs
<1>5. Service!ComeAndGo
    BY <1>4 DEF Service!ComeAndGo, Without
<1> QED
    BY <1>5 DEF Refined, Service!RequestNext

\* A client's request: it goes out, or it is refused.
LEMMA SendRefines ==
    ASSUME IInv, NEW s \in Sessions, NEW action, NEW r \in ReqIds, NEW orig,
           Send(s, action, r, orig)
    PROVE  Refined
<1>0. PICK b \in BOOLEAN : b = TRUE
    OBVIOUS
<1> DEFINE id == create_request_id(client_id(s), r)
           e == [session |-> s, req_id |-> r, keep_alive |-> b]
<1>1. /\ phase[s] = "active" /\ UNCHANGED service
      /\ cl_ord_id \in Mapping /\ Paired(cl_ord_id)
    BY DEF Send, IInv, TypeOK, OrdersPaired
<1>2. CASE ~exists(cl_ord_id, s, r) /\ cl_ord_id' = add_req_id(cl_ord_id, s, r, id, TRUE)
  <2>1. client_id(s) \in Users /\ holder[client_id(s)] = s
    BY <1>1, PartyFacts DEF IInv, LoggedOn
  <2>2. id \in ServerIds /\ id[1] = client_id(s) /\ id[2] = r
    BY <2>1, ServerIdsAssumption DEF create_request_id
\* What is on record under the id would be this very request.
  <2>3. cl_ord_id.server_to_client[id] = None
    <3>1. ASSUME cl_ord_id.server_to_client[id] # None
          PROVE  cl_ord_id.client_to_server[s][r] = id
      BY <2>1, <2>2, <3>1, RecordFacts
    <3>2. id # None
      BY <2>2, NoneIsNoEntry
    <3> QED
      BY <1>2, <3>1, <3>2
  <2>4. e \in Entry /\ e.session = s /\ e.req_id = r
    BY DEF Entry
  <2> HIDE DEF id
  <2>5. cl_ord_id' = add_req_id(cl_ord_id, s, r, id, b)
    BY <1>0, <1>2
  <2> DEFINE n == add_req_id(cl_ord_id, s, r, id, b)
  <2>6. \A i \in ServerIds :
          n.server_to_client[i] = IF i = id THEN e ELSE cl_ord_id.server_to_client[i]
    BY <1>1, <1>2, <2>2, <2>3, AddFacts
  <2> HIDE DEF e, n
  <2>7. \A i \in ServerIds :
          cl_ord_id'.server_to_client[i] = IF i = id THEN e ELSE cl_ord_id.server_to_client[i]
    BY <2>5, <2>6 DEF n
  <2> QED
    BY <1>1, <1>2, <2>2, <2>3, <2>4, <2>7, GoesOnRecord
<1>3. CASE UNCHANGED cl_ord_id
    BY <1>1, <1>3, SameStep
<1> QED
    BY <1>2, <1>3 DEF Send

\* A report, which may take its request off the record.
LEMMA ReportRefines ==
    ASSUME IInv, NEW id \in ServerIds, NEW orig, NEW exec_type, NEW complete,
           ExecutionReport(id, orig, exec_type, complete) \/ OrderCancelReject(id)
    PROVE  Refined
<1>1. UNCHANGED service
    BY DEF ExecutionReport, OrderCancelReject
<1>2. cl_ord_id' = remove_req_id(cl_ord_id, id) \/ cl_ord_id' = cl_ord_id
    BY DEF ExecutionReport, OrderCancelReject, RecordAfter
<1> QED
    BY <1>1, <1>2, ForgetStep, SameStep

\* Logons, logouts, and the end of sessions that were not logged on.
LEMMA LogonStepRefines == ASSUME IInv, LogonStep PROVE Refined
<1>1. UNCHANGED cl_ord_id /\ TypeOK
    BY DEF LogonStep, IInv
<1>2. CASE UNCHANGED Service!vars
  <2>1. UNCHANGED service
    BY <1>2 DEF Service!vars, service
  <2> QED
    BY <1>1, <2>1, SameStep
<1>3. CASE ~UNCHANGED Service!vars
  <2>1. Service!Next
    BY DEF LogonStep, Service!Next
  <2>2. \A s \in Sessions : phase[s] \in Admitted => phase'[s] # "done"
    <3>1. CASE Service!Raise
      BY <3>1 DEF Service!Raise, Admitted
    <3>2. ASSUME NEW t \in Sessions, NEW u \in Users, Service!Join(t, u)
          PROVE  \A s \in Sessions : phase[s] \in Admitted => phase'[s] # "done"
      BY <1>1, <3>2 DEF Service!Join, Admitted, TypeOK
    <3>3. ASSUME NEW t \in Sessions, Service!Admit(t) \/ Service!Retract(t)
          PROVE  \A s \in Sessions : phase[s] \in Admitted => phase'[s] # "done"
      BY <1>1, <3>3 DEF Service!Admit, Service!Retract, Admitted, TypeOK
    <3>4. ASSUME NEW t \in Sessions, phase[t] = "new", Service!End(t)
          PROVE  \A s \in Sessions : phase[s] \in Admitted => phase'[s] # "done"
      BY <3>4 DEF Service!End, Service!Finish, Admitted
    <3> QED
      BY <3>1, <3>2, <3>3, <3>4 DEF LogonStep
  <2>3. \A s \in Sessions : phase[s] \in Admitted => (phase'[s] = "done" <=> s \in {})
    BY <2>2
  <2>4. \A i \in ServerIds :
          cl_ord_id'.server_to_client[i] =
            IF /\ cl_ord_id.server_to_client[i] # None
               /\ cl_ord_id.server_to_client[i].session \in {}
              THEN None ELSE cl_ord_id.server_to_client[i]
    BY <1>1
  <2>5. {} \in SUBSET Sessions
    OBVIOUS
  <2> QED
    BY <1>3, <2>1, <2>3, <2>4, <2>5, ComeAndGoStep
<1> QED
    BY <1>2, <1>3

\* A client that had logged on is gone.
LEMMA DisconnectedRefines ==
    ASSUME IInv, NEW s \in Sessions, Disconnected(s)
    PROVE  Refined
<1>1. /\ cl_ord_id \in Mapping /\ Paired(cl_ord_id) /\ Service!End(s) /\ phase[s] # "done"
      /\ cl_ord_id' = clear_req_ids(cl_ord_id, {s})
    BY DEF Disconnected, IInv, TypeOK, OrdersPaired
<1>2. \A t \in Sessions : phase'[t] = IF t \in {s} THEN "done" ELSE phase[t]
    BY <1>1 DEF Service!End, Service!Finish
<1>3. Service!Next /\ ~UNCHANGED Service!vars
    BY <1>1, <1>2 DEF Service!Next, Service!vars
<1>4. \A i \in ServerIds :
        cl_ord_id'.server_to_client[i] =
          IF cl_ord_id.server_to_client[i] # None /\ cl_ord_id.server_to_client[i].session \in {s}
            THEN None ELSE cl_ord_id.server_to_client[i]
    BY <1>1, ClearFacts
<1>5. \A t \in Sessions : phase[t] \in Admitted => (phase'[t] = "done" <=> t \in {s})
    BY <1>2 DEF Admitted
<1> QED
    BY <1>3, <1>4, <1>5, ComeAndGoStep

\* The bridge is lost, and everybody with it.
LEMMA BridgeLostRefines == ASSUME IInv, BridgeLost PROVE Refined
<1> DEFINE S == Service!Inside
<1>1. /\ cl_ord_id \in Mapping /\ Paired(cl_ord_id) /\ up /\ Service!Drop
      /\ cl_ord_id' = clear_req_ids(cl_ord_id, S)
    BY DEF BridgeLost, IInv, TypeOK, OrdersPaired
<1>2. S = {s \in Sessions : phase[s] \in {"joining", "active", "leaving"}}
    BY DEF Service!Inside
<1>3. PICK N \in SUBSET {s \in Sessions : phase[s] = "new"} : Service!Finish(S \cup N)
    BY <1>1 DEF Service!Drop
<1> HIDE DEF S
<1>4. S \in SUBSET Sessions
    BY <1>2
<1>5. \A t \in Sessions : phase'[t] = IF t \in S \cup N THEN "done" ELSE phase[t]
    BY <1>3 DEF Service!Finish
<1>6. Service!Next /\ ~UNCHANGED Service!vars
    BY <1>1 DEF Service!Next, Service!Drop, Service!vars
<1>7. \A i \in ServerIds :
        cl_ord_id'.server_to_client[i] =
          IF cl_ord_id.server_to_client[i] # None /\ cl_ord_id.server_to_client[i].session \in S
            THEN None ELSE cl_ord_id.server_to_client[i]
    BY <1>1, <1>4, ClearFacts
<1>8. \A t \in Sessions : phase[t] \in Admitted => (phase'[t] = "done" <=> t \in S)
    BY <1>2, <1>5 DEF Admitted
<1> QED
    BY <1>4, <1>6, <1>7, <1>8, ComeAndGoStep

\* At first nothing is on record.
LEMMA InitRefines == Init => Service!RequestInit
<1> SUFFICES ASSUME Init PROVE Service!RequestInit
    OBVIOUS
<1>1. Service!Init /\ cl_ord_id = EmptyMapping
    BY DEF Init
<1>2. Requests(cl_ord_id) = [id \in ServerIds |-> None]
    BY <1>1 DEF Requests, EmptyMapping
<1>3. record = [k \in Kinds |-> [id \in ServerIds |-> None]]
    BY <1>2 DEF record
<1> QED
    BY <1>1, <1>3 DEF Service!RequestInit

\* Every step is one that RequestService allows, or none for it.
LEMMA NextRefines == IInv /\ [Next]_vars => [Service!RequestNext]_Service!requestVars
<1> SUFFICES ASSUME IInv, [Next]_vars PROVE Refined
    BY DEF Refined
<1>1. CASE UNCHANGED vars
    BY <1>1, SameStep DEF vars
<1>2. CASE LogonStep
    BY <1>2, LogonStepRefines
<1>3. ASSUME NEW s \in Sessions, ClientStep(s) PROVE Refined
    BY <1>3, DisconnectedRefines, SendRefines
       DEF ClientStep, NewOrderSingle, OrderCancelReplaceRequest, OrderCancelRequest
<1>4. ASSUME NEW q \in requests, BridgeStep(q) PROVE Refined
  <2>1. q.id \in ServerIds
    BY RequestFacts DEF IInv
  <2>2. CASE ReportPending(q)
    BY <2>1, <2>2, ReportRefines DEF ReportPending
  <2>3. ASSUME NEW complete \in BOOLEAN, ReportDone(q, complete) PROVE Refined
    BY <2>1, <2>3, ReportRefines DEF ReportDone
  <2>4. CASE ReportRejected(q)
    BY <2>1, <2>4, ReportRefines DEF ReportRejected
  <2>5. CASE BusinessMessageReject(q)
    BY <2>5, SameStep DEF BusinessMessageReject
  <2> QED
    BY <1>4, <2>2, <2>3, <2>4, <2>5 DEF BridgeStep
<1>5. ASSUME NEW id \in ServerIds, NEW complete \in BOOLEAN, ReportTrade(id, complete)
      PROVE  Refined
    BY <1>5, ReportRefines DEF ReportTrade
<1>6. ASSUME NEW id \in ServerIds, NEW rejected \in BOOLEAN, ReportStatus(id, rejected)
      PROVE  Refined
    BY <1>6, SameStep DEF ReportStatus, StatusExecutionReport
<1>7. CASE BridgeLost
    BY <1>7, BridgeLostRefines
<1> QED
    BY <1>1, <1>2, <1>3, <1>4, <1>5, <1>6, <1>7 DEF Next

\* Order entry implements RequestService: a step puts one new request of an active session
\* on record, takes one off, or takes off all requests of the sessions that it ends and
\* nobody else's, although the ids are those of the user's last session.
THEOREM RequestsAreKept == Spec => ImplementsRequestService
    BY Invariant, InitRefines, NextRefines, PTL DEF Spec, ImplementsRequestService, Service!RequestSpec

=============================================================================
