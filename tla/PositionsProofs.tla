--------------------------- MODULE PositionsProofs ---------------------------
(***************************************************************************)
(* Proofs about Positions, for any users, sessions and request ids, and any *)
(* bounds on requests and reports.                                         *)
(***************************************************************************)
EXTENDS Positions, ReqIdsProofs

USE DEF exists

-----------------------------------------------------------------------------
(* The inductive invariant.                                                *)

Admitted == {"active", "leaving"}

\* What is on record has an id that was handed out; so has what the bridge holds,
\* which was asked by a session that had logged on; a request that is alone is so.
IdsHandedOut ==
    /\ \A id \in ServerIds : pos_req_id.server_to_client[id] # None => id <= next_request_id
    /\ \A q \in bridge :
         /\ phase[q.session] \in Admitted \cup {"done"} /\ q.id <= next_request_id
         /\ q.alone => bridge = {q}
    /\ \A p, q \in bridge : p.id = q.id => p = q

\* A request of a client that is there is on record until it is acknowledged; and,
\* if it is alone, until its last announced report.
OnRecord ==
    \A q \in bridge :
      LET e == pos_req_id.server_to_client[q.id]
      IN  /\ e # None => e.session = q.session
          /\ ~q.acknowledged => q.announced = 0
          /\ ~q.acknowledged /\ phase[q.session] \in Admitted => e # None
          /\ q.alone /\ q.announced > 0 /\ phase[q.session] \in Admitted => e # None

IInv ==
    /\ TypeOK
    /\ PositionsPaired
    /\ TheDeadAreForgotten
    /\ IdsHandedOut
    /\ OnRecord
    /\ CounterExactAlone
    /\ AllReportsArriveAlone

\* What the bridge holds is a request with an id and a session.
LEMMA BridgeFacts ==
    ASSUME TypeOK, NEW q \in bridge
    PROVE  /\ q \in Request /\ q.id \in ServerIds /\ q.session \in Sessions
           /\ q.announced \in 0 .. MaxReports /\ q.alone \in BOOLEAN
           /\ q.acknowledged \in BOOLEAN
BY DEF TypeOK, Request

\* The counters are numbers.
LEMMA NumberFacts ==
    ASSUME TypeOK
    PROVE  /\ next_request_id \in Nat /\ ServerIds \subseteq Nat /\ MaxReports \in Nat
           /\ total_num_pos_reports \in Nat
           /\ \A q \in bridge : q.announced \in Nat
BY ServerIdsAssumption, MaxReportsAssumption, BridgeFacts DEF TypeOK

\* OnRecord, about one request.
LEMMA OnRecordFacts ==
    ASSUME IInv, NEW q \in bridge
    PROVE  /\ Found(q) = pos_req_id.server_to_client[q.id]
           /\ Found(q) # None => Found(q).session = q.session
           /\ ~q.acknowledged /\ phase[q.session] \in Admitted => Found(q) # None
           /\ q.alone /\ q.announced > 0 /\ phase[q.session] \in Admitted => Found(q) # None
BY DEF IInv, OnRecord, Found

-----------------------------------------------------------------------------
(* One lemma per kind of step.                                             *)

\* A request that goes out under a fresh id.
LEMMA SubscribeStep ==
    ASSUME IInv, NEW s \in Sessions, NEW r \in ReqIds,
           NEW type \in {"SNAPSHOT", "SNAPSHOT_UPDATES"}, phase[s] = "active",
           ~exists(pos_req_id, s, r), Subscribe(s, r, type),
           lost' = None, UNCHANGED <<service, total_num_pos_reports>>
    PROVE  IInv'
<1>0. PICK a \in BOOLEAN : a = (bridge = {})
    OBVIOUS
<1> DEFINE id == next_request_id + 1
           others == {[q EXCEPT !.alone = FALSE] : q \in bridge}
           q0 == [id |-> id, type |-> type, acknowledged |-> FALSE, announced |-> 0,
                  session |-> s, alone |-> a]
<1>1. /\ id \in ServerIds /\ next_request_id' = id
      /\ bridge' = others \cup {q0}
      /\ UNCHANGED <<up, phase, holder, total_num_pos_reports, fatal>> /\ lost' = None
    BY <1>0 DEF Subscribe, service
<1>2. /\ TypeOK /\ next_request_id \in Nat /\ ServerIds \subseteq Nat /\ MaxReports \in Nat
    BY NumberFacts DEF IInv
<1>3. pos_req_id \in Mapping /\ Paired(pos_req_id) /\ ~fatal
    BY DEF IInv, TypeOK, PositionsPaired
<1>4. pos_req_id.server_to_client[id] = None
    BY <1>1, <1>2 DEF IInv, IdsHandedOut
<1>5. PICK b \in BOOLEAN : b = (type = "SNAPSHOT_UPDATES")
    OBVIOUS
<1> DEFINE n == add_req_id(pos_req_id, s, r, id, b)
           e == [session |-> s, req_id |-> r, keep_alive |-> b]
<1>6. pos_req_id' = n
    BY <1>5 DEF Subscribe
<1>7. e.session = s
    OBVIOUS
<1> HIDE DEF id
<1>8. Paired(n)
    BY <1>1, <1>3, <1>4, AddPaired
<1>9. /\ n \in Mapping /\ e # None
      /\ \A i \in ServerIds :
           n.server_to_client[i] = IF i = id THEN e ELSE pos_req_id.server_to_client[i]
    BY <1>1, <1>3, <1>4, AddFacts
<1> HIDE DEF n, e
<1>10. /\ q0 \in Request /\ q0.id = id /\ q0.session = s /\ ~q0.acknowledged
       /\ q0.announced = 0 /\ (q0.alone <=> bridge = {})
  <2>1. q0.id = id /\ q0.session = s /\ q0.acknowledged = FALSE /\ q0.announced = 0 /\ q0.alone = a
    OBVIOUS
  <2>2. 0 \in 0 .. MaxReports
    BY <1>2
  <2>3. q0 \in Request
    BY <1>1, <2>2 DEF Request
  <2> QED
    BY <1>0, <2>1, <2>3
<1>11. ASSUME NEW q \in bridge
       PROVE  LET p == [q EXCEPT !.alone = FALSE]
              IN  /\ p \in Request /\ p.id = q.id /\ p.session = q.session /\ ~p.alone
                  /\ p.acknowledged = q.acknowledged /\ p.announced = q.announced
    BY <1>2, BridgeFacts DEF Request
<1>12. \A q \in bridge : q.id \in ServerIds /\ q.id <= next_request_id /\ q.id # id
    BY <1>2, BridgeFacts DEF IInv, IdsHandedOut, id
<1> HIDE DEF q0
\* What the bridge held before, it holds still, but not alone.
<1>13. ASSUME NEW p \in others
       PROVE  \E q \in bridge :
                /\ p \in Request /\ p.id = q.id /\ p.session = q.session /\ ~p.alone
                /\ p.acknowledged = q.acknowledged /\ p.announced = q.announced
  <2>1. PICK q \in bridge : p = [q EXCEPT !.alone = FALSE]
    OBVIOUS
  <2> QED
    BY <1>11, <2>1
<1>14. \A p, q \in others : p.id = q.id => p = q
  <2>1. ASSUME NEW p \in others, NEW q \in others, p.id = q.id PROVE p = q
    <3>1. PICK x \in bridge : p = [x EXCEPT !.alone = FALSE]
      OBVIOUS
    <3>2. PICK y \in bridge : q = [y EXCEPT !.alone = FALSE]
      OBVIOUS
    <3>3. x.id = y.id
      BY <1>11, <2>1, <3>1, <3>2
    <3>4. x = y
      BY <3>3 DEF IInv, IdsHandedOut
    <3> QED
      BY <3>1, <3>2, <3>4
  <2> HIDE DEF others
  <2> QED
    BY <2>1
<1>15. bridge = {} => others = {}
    OBVIOUS
<1> HIDE DEF others
<1>16. TypeOK'
  <2>1. bridge' \subseteq Request
    BY <1>1, <1>10, <1>13
  <2>2. next_request_id' \in 0 .. MaxRequests
    BY <1>1, ServerIdsAssumption
  <2> QED
    BY <1>1, <1>2, <1>6, <1>9, <2>1, <2>2 DEF TypeOK
<1>17. PositionsPaired'
    BY <1>1, <1>3, <1>6, <1>8 DEF PositionsPaired
<1>18. TheDeadAreForgotten'
    BY <1>1, <1>6, <1>7, <1>9 DEF IInv, TheDeadAreForgotten
<1>19. IdsHandedOut'
  <2>1. id = next_request_id + 1
    BY DEF id
  <2>2. \A i \in ServerIds : pos_req_id'.server_to_client[i] # None => i <= id
    <3> SUFFICES ASSUME NEW i \in ServerIds, n.server_to_client[i] # None PROVE i <= id
      BY <1>6
    <3>1. i = id \/ i <= next_request_id
      BY <1>9 DEF IInv, IdsHandedOut
    <3> QED
      BY <1>2, <2>1, <3>1
  <2>3. ASSUME NEW p \in bridge'
        PROVE  phase[p.session] \in Admitted \cup {"done"} /\ p.id <= id /\ (p.alone => bridge' = {p})
    <3>1. CASE p = q0
      BY <1>1, <1>2, <1>10, <1>15, <2>1, <3>1 DEF Admitted
    <3>2. CASE p \in others
      <4>1. PICK q \in bridge : p.id = q.id /\ p.session = q.session /\ ~p.alone
        BY <1>13, <3>2
      <4>2. q.id \in Nat /\ q.id <= next_request_id
        BY <1>2, <1>12
      <4>3. p.id <= id
        BY <1>2, <2>1, <4>1, <4>2
      <4> QED
        BY <4>1, <4>3 DEF IInv, IdsHandedOut
    <3> QED
      BY <1>1, <3>1, <3>2
  <2>4. \A p, q \in bridge' : p.id = q.id => p = q
    BY <1>1, <1>10, <1>12, <1>13, <1>14
  <2> QED
    BY <1>1, <2>2, <2>3, <2>4 DEF IdsHandedOut
<1>20. OnRecord'
  <2> SUFFICES ASSUME NEW p \in bridge'
               PROVE  LET f == n.server_to_client[p.id]
                      IN  /\ f # None => f.session = p.session
                          /\ ~p.acknowledged => p.announced = 0
                          /\ ~p.acknowledged /\ phase[p.session] \in Admitted => f # None
                          /\ p.alone /\ p.announced > 0 /\ phase[p.session] \in Admitted => f # None
    BY <1>1, <1>6 DEF OnRecord
  <2>1. CASE p = q0
    BY <1>1, <1>7, <1>9, <1>10, <2>1
  <2>2. CASE p \in others
    <3>1. PICK q \in bridge :
            /\ p.id = q.id /\ p.session = q.session /\ ~p.alone
            /\ p.acknowledged = q.acknowledged /\ p.announced = q.announced
      BY <1>13, <2>2
    <3>2. n.server_to_client[p.id] = pos_req_id.server_to_client[q.id]
      BY <1>9, <1>12, <3>1
    <3> QED
      BY <3>1, <3>2 DEF IInv, OnRecord
  <2> QED
    BY <1>1, <2>1, <2>2
<1>21. CounterExactAlone'
    BY <1>1, <1>10, <1>13 DEF CounterExactAlone
<1>22. AllReportsArriveAlone'
    BY <1>1 DEF AllReportsArriveAlone
<1> QED
    BY <1>16, <1>17, <1>18, <1>19, <1>20, <1>21, <1>22 DEF IInv

\* An UNSUBSCRIBE of what is on record marks it as no longer alive, on both sides.
LEMMA UnsubscribeStep ==
    ASSUME IInv, NEW s \in Sessions, NEW r \in ReqIds, exists(pos_req_id, s, r),
           Unsubscribe(s, r), lost' = None, UNCHANGED <<service, total_num_pos_reports>>
    PROVE  IInv'
<1> DEFINE id == pos_req_id.client_to_server[s][r]
           e == pos_req_id.server_to_client[id]
           f == [e EXCEPT !.keep_alive = FALSE]
           after(q) == IF q.id = id THEN [q EXCEPT !.type = "UNSUBSCRIBE"] ELSE q
<1>1. pos_req_id \in Mapping /\ Paired(pos_req_id) /\ ~fatal
    BY DEF IInv, TypeOK, PositionsPaired
<1>2. id \in ServerIds /\ e \in Entry /\ e # None
    BY <1>1, MappingFacts DEF Paired
<1>3. /\ pos_req_id' = [pos_req_id EXCEPT !.server_to_client[id].keep_alive = FALSE]
      /\ bridge' = {after(q) : q \in bridge}
      /\ UNCHANGED <<up, phase, holder, total_num_pos_reports, next_request_id, fatal>>
      /\ lost' = None
    BY <1>2 DEF Unsubscribe, service
<1>4. f \in Entry /\ f # None /\ f.session = e.session /\ f.req_id = e.req_id
    BY <1>2, NoneIsNoEntry DEF Entry
<1>5. pos_req_id' = [server_to_client |-> [pos_req_id.server_to_client EXCEPT ![id] = f],
                     client_to_server |-> pos_req_id.client_to_server]
    BY <1>1, <1>3 DEF Mapping
<1>6. /\ pos_req_id' \in Mapping
      /\ pos_req_id'.client_to_server = pos_req_id.client_to_server
      /\ \A i \in ServerIds :
           pos_req_id'.server_to_client[i] =
             IF i = id THEN f ELSE pos_req_id.server_to_client[i]
  <2> HIDE DEF id, f
  <2> QED
    BY <1>1, <1>2, <1>4, <1>5 DEF Mapping
<1>7. \A i \in ServerIds :
        /\ pos_req_id'.server_to_client[i] # None <=> pos_req_id.server_to_client[i] # None
        /\ pos_req_id.server_to_client[i] # None =>
             /\ pos_req_id'.server_to_client[i].session = pos_req_id.server_to_client[i].session
             /\ pos_req_id'.server_to_client[i].req_id = pos_req_id.server_to_client[i].req_id
  <2> HIDE DEF f
  <2> QED
    BY <1>2, <1>4, <1>6
<1>8. ASSUME NEW q \in bridge
      PROVE  /\ after(q) \in Request /\ after(q).id = q.id /\ after(q).session = q.session
             /\ after(q).alone = q.alone /\ after(q).announced = q.announced
             /\ after(q).acknowledged = q.acknowledged
    BY BridgeFacts DEF IInv, Request
<1> HIDE DEF id, e, f, after
<1>9. TypeOK'
  <2>1. bridge' \subseteq Request
    BY <1>3, <1>8
  <2> QED
    BY <1>3, <1>6, <2>1 DEF IInv, TypeOK
<1>10. PositionsPaired'
  <2>1. \A i \in ServerIds : pos_req_id'.server_to_client[i] # None =>
          pos_req_id'.client_to_server[pos_req_id'.server_to_client[i].session]
            [pos_req_id'.server_to_client[i].req_id] = i
    BY <1>1, <1>6, <1>7 DEF Paired
  <2>2. ASSUME NEW t \in Sessions, NEW q \in ReqIds, exists(pos_req_id', t, q)
        PROVE  LET g == pos_req_id'.server_to_client[pos_req_id'.client_to_server[t][q]]
               IN  g # None /\ g.session = t /\ g.req_id = q
    <3>1. exists(pos_req_id, t, q) /\ pos_req_id.client_to_server[t][q] \in ServerIds
      BY <1>1, <1>6, <2>2, MappingFacts
    <3> QED
      BY <1>1, <1>6, <1>7, <3>1 DEF Paired
  <2> QED
    BY <1>1, <1>3, <2>1, <2>2 DEF PositionsPaired, Paired
<1>11. TheDeadAreForgotten'
    BY <1>3, <1>7 DEF IInv, TheDeadAreForgotten
<1>12. IdsHandedOut'
  <2>1. \A p \in bridge' : phase[p.session] \in Admitted \cup {"done"} /\ p.id <= next_request_id
    BY <1>3, <1>8 DEF IInv, IdsHandedOut
  <2>2. \A p, q \in bridge' : p.id = q.id => p = q
    BY <1>3, <1>8 DEF IInv, IdsHandedOut
  <2>3. ASSUME NEW p \in bridge', p.alone PROVE bridge' = {p}
    <3>1. PICK q \in bridge : p = after(q)
      BY <1>3
    <3>2. bridge = {q}
      BY <1>8, <2>3, <3>1 DEF IInv, IdsHandedOut
    <3> QED
      BY <1>3, <3>1, <3>2
  <2> QED
    BY <1>3, <1>7, <2>1, <2>2, <2>3 DEF IInv, IdsHandedOut
<1>13. OnRecord'
  <2> SUFFICES ASSUME NEW p \in bridge'
               PROVE  LET g == pos_req_id'.server_to_client[p.id]
                      IN  /\ g # None => g.session = p.session
                          /\ ~p.acknowledged => p.announced = 0
                          /\ ~p.acknowledged /\ phase[p.session] \in Admitted => g # None
                          /\ p.alone /\ p.announced > 0 /\ phase[p.session] \in Admitted => g # None
    BY <1>3 DEF OnRecord
  <2>1. PICK q \in bridge :
          /\ p.id = q.id /\ p.session = q.session /\ p.alone = q.alone
          /\ p.announced = q.announced /\ p.acknowledged = q.acknowledged
    BY <1>3, <1>8
  <2>2. q.id \in ServerIds
    BY BridgeFacts DEF IInv
  <2>3. LET g == pos_req_id.server_to_client[q.id]
        IN  /\ g # None => g.session = q.session
            /\ ~q.acknowledged => q.announced = 0
            /\ ~q.acknowledged /\ phase[q.session] \in Admitted => g # None
            /\ q.alone /\ q.announced > 0 /\ phase[q.session] \in Admitted => g # None
    BY DEF IInv, OnRecord
  <2>4. LET g == pos_req_id'.server_to_client[q.id]
        IN  /\ g # None => g.session = q.session
            /\ g # None <=> pos_req_id.server_to_client[q.id] # None
    BY <1>7, <2>2, <2>3
  <2> QED
    BY <2>1, <2>3, <2>4
<1>14. CounterExactAlone'
  <2> SUFFICES ASSUME NEW q \in bridge, after(q).alone, after(q).acknowledged,
                      pos_req_id'.server_to_client[after(q).id] # None
               PROVE  total_num_pos_reports = after(q).announced
    BY <1>3 DEF CounterExactAlone, Found
  <2>1. q.id \in ServerIds
    BY BridgeFacts DEF IInv
  <2> QED
    BY <1>7, <1>8, <2>1 DEF IInv, CounterExactAlone, Found
<1>15. AllReportsArriveAlone'
    BY <1>3 DEF AllReportsArriveAlone
<1> QED
    BY <1>9, <1>10, <1>11, <1>12, <1>13, <1>14, <1>15 DEF IInv

\* Any answer: q is finished or held as after, its record removed or kept.
LEMMA AnswerStep ==
    ASSUME IInv, NEW q \in bridge, NEW after \in Request,
           after.id = q.id, after.session = q.session, after.alone = q.alone,
           after.acknowledged, NEW finished \in BOOLEAN, NEW removed \in BOOLEAN,
           Keep(q, after, finished),
           pos_req_id' = IF removed THEN remove_req_id(pos_req_id, q.id) ELSE pos_req_id,
           total_num_pos_reports' \in 0 .. MaxReports, lost' \in Request \cup {None},
           UNCHANGED <<service, next_request_id, fatal>>,
           ~finished /\ after.alone /\ after.announced > 0 /\ phase[q.session] \in Admitted =>
             ~removed /\ Found(q) # None,
           ~finished /\ after.alone /\ ~removed /\ Found(q) # None =>
             total_num_pos_reports' = after.announced,
           lost' # None /\ lost'.alone => phase[lost'.session] \notin Admitted
    PROVE  IInv'
<1>1. /\ UNCHANGED <<up, phase, holder, next_request_id, fatal>>
      /\ bridge' = (bridge \ {q}) \cup IF finished THEN {} ELSE {after}
    BY DEF Keep, service
<1>2. /\ pos_req_id \in Mapping /\ Paired(pos_req_id) /\ ~fatal
      /\ q.id \in ServerIds
    BY BridgeFacts DEF IInv, TypeOK, PositionsPaired
<1>3. /\ pos_req_id' \in Mapping /\ Paired(pos_req_id')
      /\ \A i \in ServerIds :
           pos_req_id'.server_to_client[i] =
             IF removed /\ i = q.id THEN None ELSE pos_req_id.server_to_client[i]
  <2>1. CASE removed
    BY <1>2, <2>1, RemoveFacts, RemovePaired
  <2>2. CASE ~removed
    BY <1>2, <2>2
  <2> QED
    BY <2>1, <2>2
<1>4. TypeOK'
  <2>1. bridge' \subseteq Request
    BY <1>1 DEF IInv, TypeOK
  <2> QED
    BY <1>1, <1>3, <2>1 DEF IInv, TypeOK
<1>5. PositionsPaired'
    BY <1>1, <1>2, <1>3 DEF PositionsPaired
<1>6. TheDeadAreForgotten'
    BY <1>1, <1>3 DEF IInv, TheDeadAreForgotten
<1>7. \A p \in bridge' : (p \in bridge /\ p.id # q.id) \/ (p = after /\ ~finished)
    BY <1>1 DEF IInv, IdsHandedOut
<1>8. IdsHandedOut'
  <2>1. \A i \in ServerIds : pos_req_id'.server_to_client[i] # None => i <= next_request_id
    BY <1>3 DEF IInv, IdsHandedOut
  <2>2. \A p \in bridge' : phase[p.session] \in Admitted \cup {"done"} /\ p.id <= next_request_id
    BY <1>7 DEF IInv, IdsHandedOut
  <2>3. \A p, r \in bridge' : p.id = r.id => p = r
    BY <1>7 DEF IInv, IdsHandedOut
  <2>4. ASSUME NEW p \in bridge', p.alone PROVE bridge' = {p}
    <3>1. CASE p \in bridge /\ p.id # q.id
      BY <2>4, <3>1 DEF IInv, IdsHandedOut
    <3>2. CASE p = after /\ ~finished
      <4>1. bridge = {q}
        BY <2>4, <3>2 DEF IInv, IdsHandedOut
      <4> QED
        BY <1>1, <3>2, <4>1
    <3> QED
      BY <1>7, <3>1, <3>2
  <2> QED
    BY <1>1, <2>1, <2>2, <2>3, <2>4 DEF IdsHandedOut
<1>9. OnRecord'
  <2> SUFFICES ASSUME NEW p \in bridge'
               PROVE  LET g == pos_req_id'.server_to_client[p.id]
                      IN  /\ g # None => g.session = p.session
                          /\ ~p.acknowledged => p.announced = 0
                          /\ ~p.acknowledged /\ phase[p.session] \in Admitted => g # None
                          /\ p.alone /\ p.announced > 0 /\ phase[p.session] \in Admitted => g # None
    BY <1>1 DEF OnRecord
  <2>1. CASE p \in bridge /\ p.id # q.id
    <3>1. pos_req_id'.server_to_client[p.id] = pos_req_id.server_to_client[p.id]
      BY <1>3, <2>1, BridgeFacts DEF IInv
    <3> QED
      BY <2>1, <3>1 DEF IInv, OnRecord
  <2>2. CASE p = after /\ ~finished
    <3>1. pos_req_id'.server_to_client[p.id] = IF removed THEN None ELSE Found(q)
      BY <1>2, <1>3, <2>2 DEF Found
    <3>2. Found(q) # None => Found(q).session = q.session
      BY DEF Found, IInv, OnRecord
    <3> QED
      BY <2>2, <3>1, <3>2
  <2> QED
    BY <1>7, <2>1, <2>2
<1>10. CounterExactAlone'
  <2> SUFFICES ASSUME NEW p \in bridge', p.alone, p.acknowledged,
                      pos_req_id'.server_to_client[p.id] # None
               PROVE  total_num_pos_reports' = p.announced
    BY DEF CounterExactAlone, Found
  <2>1. CASE p \in bridge /\ p.id # q.id
    BY <2>1 DEF IInv, IdsHandedOut
  <2>2. CASE p = after /\ ~finished
    BY <1>2, <1>3, <2>2 DEF Found
  <2> QED
    BY <1>7, <2>1, <2>2
<1>11. AllReportsArriveAlone'
    BY <1>1 DEF AllReportsArriveAlone, Admitted
<1> QED
    BY <1>4, <1>5, <1>6, <1>8, <1>9, <1>10, <1>11 DEF IInv

\* The acknowledgement.
LEMMA AckStep ==
    ASSUME IInv, NEW q \in bridge, NEW failure \in BOOLEAN, NEW n \in 0 .. MaxReports,
           RequestForPositionsAck(q, failure, n)
    PROVE  IInv'
<1> DEFINE after == [q EXCEPT !.acknowledged = TRUE, !.announced = n]
           finished == failure \/ (n = 0 /\ q.type # "SNAPSHOT_UPDATES")
           removed == Found(q) # None /\ (failure \/ n = 0)
<1>1. /\ q \in Request /\ after \in Request /\ after.id = q.id /\ after.session = q.session
      /\ after.alone = q.alone /\ after.acknowledged /\ after.announced = n
    BY BridgeFacts DEF IInv, Request
<1>2. /\ ~q.acknowledged \/ n = 0
      /\ pos_req_id' = IF removed THEN remove_req_id(pos_req_id, q.id) ELSE pos_req_id
      /\ total_num_pos_reports' =
           IF Found(q) = None THEN total_num_pos_reports ELSE IF failure THEN 0 ELSE n
      /\ Keep(q, after, finished) /\ lost' = None
      /\ UNCHANGED <<service, next_request_id, fatal>>
    BY DEF RequestForPositionsAck, Forget
<1>3. total_num_pos_reports' \in 0 .. MaxReports
    BY <1>2, NumberFacts DEF IInv, TypeOK
<1>4. ~q.acknowledged /\ phase[q.session] \in Admitted => Found(q) # None
    BY OnRecordFacts, BridgeFacts DEF IInv
<1>5. finished \in BOOLEAN /\ removed \in BOOLEAN
    OBVIOUS
<1>6. ~finished => ~failure
    OBVIOUS
<1>7. after.announced > 0 => n # 0 /\ ~q.acknowledged
    BY <1>1, <1>2
<1>8. ~failure /\ n # 0 => ~removed
    OBVIOUS
<1> HIDE DEF after, finished, removed
<1>9. ~finished /\ after.alone /\ after.announced > 0 /\ phase[q.session] \in Admitted =>
        ~removed /\ Found(q) # None
    BY <1>4, <1>6, <1>7, <1>8
<1>10. ~finished /\ after.alone /\ ~removed /\ Found(q) # None =>
         total_num_pos_reports' = after.announced
    BY <1>1, <1>2, <1>6
<1> QED
    BY <1>1, <1>2, <1>3, <1>5, <1>9, <1>10, AnswerStep

\* A report.
LEMMA ReportStep ==
    ASSUME IInv, NEW q \in bridge, NEW failure \in BOOLEAN, PositionReport(q, failure)
    PROVE  IInv'
<1> DEFINE announced == q.announced > 0
           left == IF announced THEN q.announced - 1 ELSE 0
           after == [q EXCEPT !.announced = left]
           finished == failure \/ (left = 0 /\ q.type # "SNAPSHOT_UPDATES")
           removed == Found(q) # None /\ ReportRemoves(q, failure)
<1>1. /\ q \in Request /\ q.acknowledged /\ q.announced \in Nat /\ MaxReports \in Nat
      /\ q.announced \in 0 .. MaxReports
      /\ total_num_pos_reports \in 0 .. MaxReports
    BY BridgeFacts, NumberFacts DEF PositionReport, IInv, TypeOK
<1>2. left \in 0 .. MaxReports /\ left \in Nat
    BY <1>1
<1>3. /\ pos_req_id' = IF removed THEN remove_req_id(pos_req_id, q.id) ELSE pos_req_id
      /\ total_num_pos_reports' = CountReport
      /\ Keep(q, after, finished)
      /\ lost' = IF announced /\ (Found(q) = None \/ Found(q).session # q.session)
                   THEN q ELSE None
      /\ UNCHANGED <<service, next_request_id, fatal>>
    BY DEF PositionReport, Forget
<1>4. /\ CountReport \in 0 .. MaxReports
      /\ total_num_pos_reports = q.announced => CountReport = left
    BY <1>1 DEF CountReport
<1>5. Found(q) # None => Found(q).session = q.session
    BY OnRecordFacts
<1>6. q.alone /\ announced /\ phase[q.session] \in Admitted => Found(q) # None
    BY OnRecordFacts
<1>7. q.alone /\ Found(q) # None => total_num_pos_reports = q.announced
    BY <1>1 DEF IInv, CounterExactAlone
<1>8. removed => failure \/ CountReport = 0
    BY DEF ReportRemoves
<1>9. finished \in BOOLEAN /\ removed \in BOOLEAN /\ (~finished => ~failure)
    BY DEF ReportRemoves
<1>10. left > 0 => announced /\ left # 0
    BY <1>1
<1> HIDE DEF left, announced
<1>11. /\ after \in Request /\ after.id = q.id /\ after.session = q.session
       /\ after.alone = q.alone /\ after.acknowledged /\ after.announced = left
    BY <1>1, <1>2 DEF Request
<1> HIDE DEF after, finished, removed
<1>12. ~finished /\ after.alone /\ after.announced > 0 /\ phase[q.session] \in Admitted =>
         ~removed /\ Found(q) # None
    BY <1>4, <1>6, <1>7, <1>8, <1>9, <1>10, <1>11
<1>13. ~finished /\ after.alone /\ ~removed /\ Found(q) # None =>
         total_num_pos_reports' = after.announced
    BY <1>3, <1>4, <1>7, <1>11
<1>14. lost' \in Request \cup {None}
    BY <1>1, <1>3
<1>15. lost' # None /\ lost'.alone => phase[lost'.session] \notin Admitted
    BY <1>3, <1>5, <1>6
<1> QED
    BY <1>3, <1>4, <1>9, <1>11, <1>12, <1>13, <1>14, <1>15, AnswerStep

\* The bridge refuses a request; its record stays.
LEMMA RejectStep ==
    ASSUME IInv, NEW q \in bridge, BusinessMessageReject(q)
    PROVE  IInv'
<1>1. /\ UNCHANGED <<up, phase, holder, pos_req_id, total_num_pos_reports, next_request_id, fatal>>
      /\ lost' = None /\ bridge' = bridge \ {q}
    BY DEF BusinessMessageReject, service
<1>2. \A p \in bridge' : p \in bridge /\ (p.alone => bridge' = {p})
    BY <1>1 DEF IInv, IdsHandedOut
<1>3. TypeOK' /\ PositionsPaired' /\ TheDeadAreForgotten'
    BY <1>1, <1>2 DEF IInv, TypeOK, PositionsPaired, TheDeadAreForgotten
<1>4. IdsHandedOut'
    BY <1>1, <1>2 DEF IInv, IdsHandedOut
<1>5. OnRecord' /\ CounterExactAlone' /\ AllReportsArriveAlone'
    BY <1>1, <1>2 DEF IInv, OnRecord, CounterExactAlone, AllReportsArriveAlone, Found
<1> QED
    BY <1>3, <1>4, <1>5 DEF IInv

\* Sessions move, as those of D that are done; what is on record for S goes, those of
\* D that had logged on.  The bridge may lose what it holds, all of it.
LEMMA SessionsStep ==
    ASSUME IInv, NEW D \in SUBSET Sessions, NEW S \in SUBSET D,
           pos_req_id' = clear_req_ids(pos_req_id, S) \/ (S = {} /\ pos_req_id' = pos_req_id),
           up' \in BOOLEAN, holder' \in [Users -> Sessions \cup {None}],
           phase' \in [Sessions -> {"new", "joining", "active", "leaving", "done"}],
           \A s \in Sessions : s \notin D =>
             /\ phase[s] \in Admitted => phase'[s] \in Admitted
             /\ phase[s] = "done" => phase'[s] = "done",
           \A s \in D : phase'[s] = "done",
           \A s \in D \ S : phase[s] \notin Admitted,
           bridge' = bridge \/ bridge' = {},
           UNCHANGED <<total_num_pos_reports, next_request_id, fatal>>, lost' = None
    PROVE  IInv'
<1>1. pos_req_id \in Mapping /\ Paired(pos_req_id) /\ ~fatal /\ S \in SUBSET Sessions
    BY DEF IInv, TypeOK, PositionsPaired
<1>2. /\ pos_req_id' \in Mapping /\ Paired(pos_req_id')
      /\ \A i \in ServerIds :
           pos_req_id'.server_to_client[i] =
             IF pos_req_id.server_to_client[i] # None /\ pos_req_id.server_to_client[i].session \in S
               THEN None ELSE pos_req_id.server_to_client[i]
  <2>1. CASE pos_req_id' = clear_req_ids(pos_req_id, S)
    BY <1>1, <2>1, ClearFacts, ClearPaired
  <2>2. CASE S = {} /\ pos_req_id' = pos_req_id
    BY <1>1, <2>2
  <2> QED
    BY <2>1, <2>2
<1>3. TypeOK' /\ PositionsPaired'
    BY <1>1, <1>2 DEF IInv, TypeOK, PositionsPaired
<1>4. TheDeadAreForgotten'
  <2> SUFFICES ASSUME NEW i \in ServerIds, pos_req_id'.server_to_client[i] # None
               PROVE  phase'[pos_req_id'.server_to_client[i].session] \in Admitted
    BY DEF TheDeadAreForgotten, Admitted
  <2> DEFINE e == pos_req_id.server_to_client[i]
  <2>1. pos_req_id'.server_to_client[i] = e /\ e # None /\ e.session \notin S
    BY <1>2
  <2>2. e.session \in Sessions /\ phase[e.session] \in Admitted
    BY <1>1, <2>1, MappingFacts DEF IInv, TheDeadAreForgotten, Admitted
  <2>3. e.session \notin D
    BY <2>1, <2>2
  <2> QED
    BY <2>1, <2>2, <2>3
\* For a request of the bridge: its session goes on or is done, and so its record.
<1>5. ASSUME NEW q \in bridge
      PROVE  /\ phase'[q.session] \in Admitted \cup {"done"}
             /\ pos_req_id'.server_to_client[q.id] # None =>
                  pos_req_id'.server_to_client[q.id] = pos_req_id.server_to_client[q.id]
             /\ phase'[q.session] \in Admitted =>
                  /\ phase[q.session] \in Admitted
                  /\ pos_req_id'.server_to_client[q.id] = pos_req_id.server_to_client[q.id]
  <2> DEFINE e == pos_req_id.server_to_client[q.id]
  <2>1. /\ q.id \in ServerIds /\ q.session \in Sessions
        /\ phase[q.session] \in Admitted \cup {"done"}
    BY BridgeFacts DEF IInv, IdsHandedOut
  <2>2. pos_req_id'.server_to_client[q.id] = IF e # None /\ e.session \in S THEN None ELSE e
    BY <1>2, <2>1
  <2>3. e # None => e.session = q.session
    BY OnRecordFacts
  <2> HIDE DEF e
  <2>4. phase'[q.session] \in Admitted => q.session \notin D
    BY DEF Admitted
  <2>5. q.session \in D => phase'[q.session] = "done"
    OBVIOUS
  <2>6. q.session \notin D => /\ phase[q.session] \in Admitted => phase'[q.session] \in Admitted
                              /\ phase[q.session] = "done" => phase'[q.session] = "done"
    BY <2>1
  <2> QED
    BY <2>1, <2>2, <2>3, <2>4, <2>5, <2>6 DEF e, Admitted
<1>6. IdsHandedOut'
  <2>1. \A i \in ServerIds : pos_req_id'.server_to_client[i] # None => i <= next_request_id
    BY <1>2 DEF IInv, IdsHandedOut
  <2> QED
    BY <1>5, <2>1 DEF IInv, IdsHandedOut
<1>7. OnRecord'
  <2> SUFFICES ASSUME NEW q \in bridge
               PROVE  LET g == pos_req_id'.server_to_client[q.id]
                      IN  /\ g # None => g.session = q.session
                          /\ ~q.acknowledged => q.announced = 0
                          /\ ~q.acknowledged /\ phase'[q.session] \in Admitted => g # None
                          /\ q.alone /\ q.announced > 0 /\ phase'[q.session] \in Admitted => g # None
    BY DEF OnRecord
  <2> QED
    BY <1>5 DEF IInv, OnRecord
<1>8. CounterExactAlone'
  <2> SUFFICES ASSUME NEW q \in bridge, q.alone, q.acknowledged,
                      pos_req_id'.server_to_client[q.id] # None
               PROVE  total_num_pos_reports = q.announced
    BY DEF CounterExactAlone, Found
  <2> QED
    BY <1>5 DEF IInv, CounterExactAlone, Found
<1>9. AllReportsArriveAlone'
    BY DEF AllReportsArriveAlone
<1> QED
    BY <1>3, <1>4, <1>6, <1>7, <1>8, <1>9 DEF IInv

\* When sessions are done, the registry stays one.
LEMMA FinishFacts ==
    ASSUME TypeOK, NEW S \in SUBSET Sessions, Service!Finish(S)
    PROVE  /\ phase' \in [Sessions -> {"new", "joining", "active", "leaving", "done"}]
           /\ holder' \in [Users -> Sessions \cup {None}]
           /\ \A s \in Sessions : phase'[s] = IF s \in S THEN "done" ELSE phase[s]
<1>1. holder' = [u \in Users |-> IF holder[u] \in S THEN None ELSE holder[u]]
    BY DEF Service!Finish
<1>2. phase' = [s \in Sessions |-> IF s \in S THEN "done" ELSE phase[s]]
    BY DEF Service!Finish
<1> QED
    BY <1>1, <1>2 DEF TypeOK

\* Logons, logouts, and the end of sessions that were not logged on.
LEMMA LogonStepStep == ASSUME IInv, LogonStep PROVE IInv'
<1>1. /\ TypeOK /\ bridge' = bridge /\ lost' = None /\ pos_req_id' = pos_req_id
      /\ UNCHANGED <<total_num_pos_reports, next_request_id, fatal>>
    BY DEF LogonStep, IInv
<1>2. ASSUME up' \in BOOLEAN, holder' \in [Users -> Sessions \cup {None}],
             phase' \in [Sessions -> {"new", "joining", "active", "leaving", "done"}],
             \A s \in Sessions :
               /\ phase[s] \in Admitted => phase'[s] \in Admitted
               /\ phase[s] = "done" => phase'[s] = "done"
      PROVE  IInv'
  <2>1. {} \in SUBSET Sessions /\ {} \in SUBSET {}
    OBVIOUS
  <2> QED
    BY <1>1, <1>2, <2>1, SessionsStep
<1>3. CASE Service!Raise
    BY <1>1, <1>2, <1>3 DEF Service!Raise, TypeOK
<1>4. ASSUME NEW s \in Sessions, NEW u \in Users, Service!Join(s, u) PROVE IInv'
    BY <1>1, <1>2, <1>4 DEF Service!Join, TypeOK, Admitted
<1>5. ASSUME NEW s \in Sessions, Service!Admit(s) \/ Service!Retract(s) PROVE IInv'
    BY <1>1, <1>2, <1>5 DEF Service!Admit, Service!Retract, TypeOK, Admitted
<1>6. ASSUME NEW s \in Sessions, phase[s] = "new", Service!End(s) PROVE IInv'
  <2>1. /\ phase' \in [Sessions -> {"new", "joining", "active", "leaving", "done"}]
        /\ holder' \in [Users -> Sessions \cup {None}]
        /\ \A t \in Sessions : phase'[t] = IF t = s THEN "done" ELSE phase[t]
        /\ up' \in BOOLEAN
    BY <1>1, <1>6, FinishFacts DEF Service!End, TypeOK
  <2> QED
    BY <1>2, <1>6, <2>1 DEF Admitted
<1> QED
    BY <1>3, <1>4, <1>5, <1>6 DEF LogonStep

\* A client that had logged on is gone.
LEMMA DisconnectedStep == ASSUME IInv, NEW s \in Sessions, Disconnected(s) PROVE IInv'
<1>1. /\ Service!Finish({s}) /\ up' = up /\ lost' = None /\ bridge' = bridge
      /\ pos_req_id' = clear_req_ids(pos_req_id, {s})
      /\ UNCHANGED <<total_num_pos_reports, next_request_id, fatal>>
    BY DEF Disconnected, Service!End
<1>2. /\ phase' \in [Sessions -> {"new", "joining", "active", "leaving", "done"}]
      /\ holder' \in [Users -> Sessions \cup {None}]
      /\ \A t \in Sessions : phase'[t] = IF t \in {s} THEN "done" ELSE phase[t]
      /\ up' \in BOOLEAN
    BY <1>1, FinishFacts DEF IInv, TypeOK
<1>3. {s} \in SUBSET Sessions /\ {s} \in SUBSET {s}
    OBVIOUS
<1> QED
    BY <1>1, <1>2, <1>3, SessionsStep

\* The bridge is lost, and with it all that it held.
LEMMA BridgeLostStep == ASSUME IInv, BridgeLost PROVE IInv'
<1>1. PICK N \in SUBSET {s \in Sessions : phase[s] = "new"} : Service!Finish(Service!Inside \cup N)
    BY DEF BridgeLost, Service!Drop
<1> DEFINE S == Service!Inside
           D == S \cup N
<1>2. /\ up' = FALSE /\ lost' = None /\ bridge' = {}
      /\ pos_req_id' = clear_req_ids(pos_req_id, S)
      /\ UNCHANGED <<total_num_pos_reports, next_request_id, fatal>>
    BY DEF BridgeLost, Service!Drop
<1>3. /\ D \in SUBSET Sessions /\ S \in SUBSET D /\ Service!Finish(D)
      /\ \A s \in D \ S : phase[s] = "new"
    BY <1>1 DEF Service!Inside
<1> HIDE DEF S, D
<1>4. /\ phase' \in [Sessions -> {"new", "joining", "active", "leaving", "done"}]
      /\ holder' \in [Users -> Sessions \cup {None}]
      /\ \A t \in Sessions : phase'[t] = IF t \in D THEN "done" ELSE phase[t]
    BY <1>3, FinishFacts DEF IInv
<1>5. \A s \in D : phase'[s] = "done"
    BY <1>3, <1>4
<1>6. \A s \in D \ S : phase[s] \notin Admitted
    BY <1>3 DEF Admitted
<1> QED
    BY <1>2, <1>3, <1>4, <1>5, <1>6, SessionsStep

-----------------------------------------------------------------------------
(* The invariant holds.                                                    *)

LEMMA InitIInv == Init => IInv
<1> SUFFICES ASSUME Init PROVE IInv
    OBVIOUS
<1>1. /\ phase = [s \in Sessions |-> "new"] /\ holder = [u \in Users |-> None] /\ up = FALSE
      /\ pos_req_id = EmptyMapping /\ next_request_id = 0 /\ total_num_pos_reports = 0
      /\ bridge = {} /\ lost = None /\ fatal = FALSE
    BY DEF Init, Service!Init
<1>2. pos_req_id \in Mapping /\ Paired(pos_req_id)
    BY <1>1, EmptyFacts
<1>3. \A i \in ServerIds : pos_req_id.server_to_client[i] = None
    BY <1>1 DEF EmptyMapping
<1>4. 0 \in 0 .. MaxRequests /\ 0 \in 0 .. MaxReports
    BY ServerIdsAssumption, MaxReportsAssumption
<1>5. TypeOK
    BY <1>1, <1>2, <1>4 DEF TypeOK
<1> QED
    BY <1>1, <1>2, <1>3, <1>5 DEF IInv, PositionsPaired, TheDeadAreForgotten, IdsHandedOut,
                                  OnRecord, CounterExactAlone, AllReportsArriveAlone

\* A client's request: new, an UNSUBSCRIBE, or refused.
LEMMA RequestStep ==
    ASSUME IInv, NEW s \in Sessions, NEW r \in ReqIds, NEW type \in Types,
           RequestForPositions(s, r, type)
    PROVE  IInv'
<1> DEFINE t == get_subscription_request_type(type)
<1>1. phase[s] = "active" /\ lost' = None /\ UNCHANGED <<service, total_num_pos_reports>>
    BY DEF RequestForPositions
<1>2. CASE t \in {"SNAPSHOT", "SNAPSHOT_UPDATES"} /\ Accepted(s, r, t) /\ Subscribe(s, r, t)
  <2> HIDE DEF t
  <2>1. ~exists(pos_req_id, s, r)
    BY <1>2 DEF Accepted
  <2> QED
    BY <1>1, <1>2, <2>1, SubscribeStep
<1>3. CASE t = "UNSUBSCRIBE" /\ Accepted(s, r, t) /\ Unsubscribe(s, r)
  <2> HIDE DEF t
  <2>1. exists(pos_req_id, s, r)
    BY <1>3 DEF Accepted
  <2> QED
    BY <1>1, <1>3, <2>1, UnsubscribeStep
<1>4. CASE UNCHANGED <<pos_req_id, next_request_id, bridge, fatal>>
    BY <1>1, <1>4 DEF service, IInv, TypeOK, PositionsPaired, TheDeadAreForgotten, IdsHandedOut,
                      OnRecord, CounterExactAlone, AllReportsArriveAlone, Found
<1> QED
    BY <1>2, <1>3, <1>4 DEF RequestForPositions

\* Every step keeps the invariant: one case per kind of step.
LEMMA NextIInv == IInv /\ [Next]_vars => IInv'
<1> SUFFICES ASSUME IInv, [Next]_vars PROVE IInv'
    OBVIOUS
<1>1. CASE UNCHANGED vars
    BY <1>1 DEF vars, service, IInv, TypeOK, PositionsPaired, TheDeadAreForgotten, IdsHandedOut,
                OnRecord, CounterExactAlone, AllReportsArriveAlone, Found
<1>2. CASE LogonStep
    BY <1>2, LogonStepStep
<1>3. ASSUME NEW s \in Sessions, ClientStep(s) PROVE IInv'
    BY <1>3, DisconnectedStep, RequestStep DEF ClientStep
<1>4. ASSUME NEW q \in bridge, BridgeStep(q) PROVE IInv'
    BY <1>4, AckStep, ReportStep, RejectStep DEF BridgeStep
<1>5. CASE BridgeLost
    BY <1>5, BridgeLostStep
<1> QED
    BY <1>1, <1>2, <1>3, <1>4, <1>5 DEF Next

\* The invariant, for any users, sessions, request ids and numbers of reports.
THEOREM Invariant == Spec => []IInv
    BY InitIInv, NextIInv, PTL DEF Spec

\* All state of the position handlers stays in its domain.
THEOREM TypeCorrect == Spec => []TypeOK
<1>1. IInv => TypeOK
    BY DEF IInv
<1> QED
    BY <1>1, Invariant, PTL

\* An UNSUBSCRIBE never runs into its log::fatal (controller.cpp).
THEOREM UnsubscribesAreSafe == Spec => []PositionsPaired
<1>1. IInv => PositionsPaired
    BY DEF IInv
<1> QED
    BY <1>1, Invariant, PTL

\* After a session died, nothing is on record for it, whatever was in flight.
THEOREM NothingIsKeptOfTheDead == Spec => []TheDeadAreForgotten
<1>1. IInv => TheDeadAreForgotten
    BY DEF IInv
<1> QED
    BY <1>1, Invariant, PTL

\* The shared counter is right for a request that has the bridge to itself.
THEOREM CounterIsExactAlone == Spec => []CounterExactAlone
<1>1. IInv => CounterExactAlone
    BY DEF IInv
<1> QED
    BY <1>1, Invariant, PTL

\* Such a request gets all the reports that were announced to it.
THEOREM ReportsArriveAlone == Spec => []AllReportsArriveAlone
<1>1. IInv => AllReportsArriveAlone
    BY DEF IInv
<1> QED
    BY <1>1, Invariant, PTL

-----------------------------------------------------------------------------
(* The requests on record are those that RequestService allows.  The shape of *)
(* the argument: a step changes at most one entry of the record, or takes off *)
(* all entries of the sessions that it ends.                                  *)

\* What a step may do, as RequestService has it.
Refined == Service!RequestNext \/ UNCHANGED Service!requestVars

\* The mapping by the name of its kind.
NamedPositions == [k \in Kinds |-> pos_req_id]

LEMMA RecordIs ==
    /\ record = Records(Kinds, NamedPositions) /\ record' = Records(Kinds, NamedPositions')
    /\ "pos_req_id" \in Kinds
    /\ \A k \in Kinds : k = "pos_req_id" /\ NamedPositions[k] = pos_req_id /\ NamedPositions'[k] = pos_req_id'
BY DEF record, Records, NamedPositions, Kinds

\* A step that concerns neither sessions nor what the ids stand for.
LEMMA SameStep ==
    ASSUME UNCHANGED service, Requests(pos_req_id') = Requests(pos_req_id)
    PROVE  Refined
BY DEF record, Refined, Service!requestVars, Service!vars, service

\* A new request of an active session goes on record.
LEMMA GoesOnRecord ==
    ASSUME IInv, UNCHANGED service, NEW id \in ServerIds, NEW e \in Entry,
           phase[e.session] = "active", ~exists(pos_req_id, e.session, e.req_id),
           pos_req_id.server_to_client[id] = None,
           \A i \in ServerIds :
             pos_req_id'.server_to_client[i] = IF i = id THEN e ELSE pos_req_id.server_to_client[i]
    PROVE  Refined
<1>1. /\ pos_req_id \in Mapping /\ Paired(pos_req_id)
      /\ e.session \in Sessions /\ e.req_id \in ReqIds
    BY DEF IInv, TypeOK, PositionsPaired, Entry
<1>2. \A k \in Kinds, i \in ServerIds :
        NamedPositions'[k].server_to_client[i] =
          IF k = "pos_req_id" /\ i = id THEN e ELSE NamedPositions[k].server_to_client[i]
    BY RecordIs
<1>3. Added(Records(Kinds, NamedPositions'), Records(Kinds, NamedPositions), "pos_req_id", id, e)
    BY <1>1, <1>2, RecordIs, RecordsWith
<1>4. Added(record', record, "pos_req_id", id, e)
    BY <1>3, RecordIs
<1>5. Service!Record("pos_req_id", id, e.session, e.req_id) /\ record'["pos_req_id"] # record["pos_req_id"]
    BY <1>4 DEF Added, Entered, Service!Record, Service!Enter
<1>6. Service!RequestStep("pos_req_id")
    BY <1>1, <1>5 DEF Service!RequestStep
<1> QED
    BY <1>6, RecordIs DEF Refined, Service!RequestNext, Service!vars, service

\* An answer may take the request under id off the record.
LEMMA ForgetStep ==
    ASSUME IInv, UNCHANGED service, NEW id \in ServerIds, pos_req_id' = remove_req_id(pos_req_id, id)
    PROVE  Refined
<1>1. pos_req_id \in Mapping
    BY DEF IInv, TypeOK
<1>2. CASE pos_req_id.server_to_client[id] = None
  <2>1. pos_req_id' = pos_req_id
    BY <1>1, <1>2, RemoveFacts
  <2> QED
    BY <2>1, SameStep
<1>3. CASE pos_req_id.server_to_client[id] # None
  <2>1. \A i \in ServerIds :
          pos_req_id'.server_to_client[i] = IF i = id THEN None ELSE pos_req_id.server_to_client[i]
    BY <1>1, RemoveFacts
  <2>2. \A k \in Kinds, i \in ServerIds :
          NamedPositions'[k].server_to_client[i] =
            IF k = "pos_req_id" /\ i = id THEN None ELSE NamedPositions[k].server_to_client[i]
    BY <2>1, RecordIs
  <2>3. Removed(Records(Kinds, NamedPositions'), Records(Kinds, NamedPositions), "pos_req_id", id)
    BY <1>1, <1>3, <2>2, RecordIs, RecordsLess
  <2>4. Removed(record', record, "pos_req_id", id)
    BY <2>3, RecordIs
  <2>5. Service!Forget("pos_req_id", id) /\ record'["pos_req_id"] # record["pos_req_id"]
    BY <2>4 DEF Removed, Entered, Service!Forget, Service!Enter
  <2>6. Service!RequestStep("pos_req_id")
    BY <2>5 DEF Service!RequestStep
  <2> QED
    BY <2>6, RecordIs DEF Refined, Service!RequestNext, Service!vars, service
<1> QED
    BY <1>2, <1>3

\* Sessions come and go: of those that had logged on, exactly the sessions S are done
\* by it, and exactly what is on record for them goes.
LEMMA ComeAndGoStep ==
    ASSUME IInv, NEW S \in SUBSET Sessions, Service!Next, ~UNCHANGED Service!vars,
           \A s \in Sessions : phase[s] \in Admitted => (phase'[s] = "done" <=> s \in S),
           \A i \in ServerIds :
             pos_req_id'.server_to_client[i] =
               IF /\ pos_req_id.server_to_client[i] # None
                  /\ pos_req_id.server_to_client[i].session \in S
                 THEN None ELSE pos_req_id.server_to_client[i]
    PROVE  Refined
<1>1. pos_req_id \in Mapping
    BY DEF IInv, TypeOK
<1>2. ASSUME NEW i \in ServerIds
      PROVE  pos_req_id'.server_to_client[i] =
               IF /\ pos_req_id.server_to_client[i] # None
                  /\ phase'[pos_req_id.server_to_client[i].session] = "done"
                 THEN None ELSE pos_req_id.server_to_client[i]
    BY <1>1, MappingFacts DEF IInv, TheDeadAreForgotten, Admitted
<1>3. Records(Kinds, NamedPositions') = Without(Kinds, Records(Kinds, NamedPositions), phase')
  <2>1. \A k \in Kinds : NamedPositions[k] \in Mapping
    BY <1>1, RecordIs
  <2>2. \A k \in Kinds, i \in ServerIds :
          NamedPositions'[k].server_to_client[i] =
            IF /\ NamedPositions[k].server_to_client[i] # None
               /\ phase'[NamedPositions[k].server_to_client[i].session] = "done"
              THEN None ELSE NamedPositions[k].server_to_client[i]
    BY <1>2, RecordIs
  <2> QED
    BY <2>1, <2>2, RecordsWithout
<1>4. record' = Without(Kinds, record, phase')
    BY <1>3, RecordIs
<1>5. Service!ComeAndGo
    BY <1>4 DEF Service!ComeAndGo, Without
<1> QED
    BY <1>5 DEF Refined, Service!RequestNext

\* A client's request: new, an UNSUBSCRIBE, or refused.
LEMMA RequestRefines ==
    ASSUME IInv, NEW s \in Sessions, NEW r \in ReqIds, NEW type \in Types,
           RequestForPositions(s, r, type)
    PROVE  Refined
<1> DEFINE t == get_subscription_request_type(type)
<1>1. /\ phase[s] = "active" /\ UNCHANGED service
      /\ TypeOK /\ pos_req_id \in Mapping /\ Paired(pos_req_id)
    BY DEF RequestForPositions, IInv, TypeOK, PositionsPaired
<1>2. CASE Accepted(s, r, t) /\ t \in {"SNAPSHOT", "SNAPSHOT_UPDATES"} /\ Subscribe(s, r, t)
  <2> DEFINE id == next_request_id + 1
  <2>1. PICK b \in BOOLEAN : b = (t = "SNAPSHOT_UPDATES")
    OBVIOUS
  <2>2. /\ ~exists(pos_req_id, s, r) /\ id \in ServerIds
        /\ pos_req_id' = add_req_id(pos_req_id, s, r, id, b)
    BY <1>2, <2>1 DEF Accepted, Subscribe
  <2>3. pos_req_id.server_to_client[id] = None
    BY <1>1, <2>2, NumberFacts DEF IInv, IdsHandedOut
  <2> DEFINE e == [session |-> s, req_id |-> r, keep_alive |-> b]
  <2>4. e \in Entry /\ e.session = s /\ e.req_id = r
    BY DEF Entry
  <2> HIDE DEF id
  <2>5. \A i \in ServerIds :
          pos_req_id'.server_to_client[i] =
            IF i = id THEN e ELSE pos_req_id.server_to_client[i]
    BY <1>1, <2>2, <2>3, AddFacts
  <2> HIDE DEF e
  <2> QED
    BY <1>1, <2>2, <2>3, <2>4, <2>5, GoesOnRecord
\* What an UNSUBSCRIBE marks still stands for the same request.
<1>3. CASE Accepted(s, r, t) /\ t = "UNSUBSCRIBE" /\ Unsubscribe(s, r)
  <2> DEFINE id == pos_req_id.client_to_server[s][r]
             e == pos_req_id.server_to_client[id]
             f == [e EXCEPT !.keep_alive = FALSE]
  <2>1. exists(pos_req_id, s, r)
    BY <1>3 DEF Accepted
  <2>2. id \in ServerIds /\ e \in Entry /\ e # None
    BY <1>1, <2>1, MappingFacts DEF Paired
  <2>3. pos_req_id' = [pos_req_id EXCEPT !.server_to_client[id].keep_alive = FALSE]
    BY <1>3, <2>2 DEF Unsubscribe
  <2>4. f # None /\ f.session = e.session /\ f.req_id = e.req_id
    BY <2>2, NoneIsNoEntry DEF Entry
  <2>5. pos_req_id' = [server_to_client |-> [pos_req_id.server_to_client EXCEPT ![id] = f],
                       client_to_server |-> pos_req_id.client_to_server]
    BY <1>1, <2>3 DEF Mapping
  <2> HIDE DEF id, f
  <2>6. \A i \in ServerIds :
          pos_req_id'.server_to_client[i] =
            IF i = id THEN f ELSE pos_req_id.server_to_client[i]
    BY <1>1, <2>2, <2>5 DEF Mapping
  <2>7. Requests(pos_req_id') = Requests(pos_req_id)
    BY <2>2, <2>4, <2>6 DEF Requests
  <2> QED
    BY <1>1, <2>7, SameStep
<1>4. CASE UNCHANGED pos_req_id
    BY <1>1, <1>4, SameStep
<1> QED
    BY <1>2, <1>3, <1>4 DEF RequestForPositions

\* An answer, which may take its request off the record.
LEMMA AnswerRefines ==
    ASSUME IInv, NEW q \in bridge, UNCHANGED service, NEW remove, Forget(q, remove)
    PROVE  Refined
<1>1. q.id \in ServerIds
    BY BridgeFacts DEF IInv
<1>2. pos_req_id' = remove_req_id(pos_req_id, q.id) \/ pos_req_id' = pos_req_id
    BY DEF Forget
<1> QED
    BY <1>1, <1>2, ForgetStep, SameStep

\* Logons, logouts, and the end of sessions that were not logged on.
LEMMA LogonStepRefines == ASSUME IInv, LogonStep PROVE Refined
<1>1. UNCHANGED pos_req_id /\ TypeOK
    BY DEF LogonStep, IInv
<1>2. CASE UNCHANGED Service!vars
  <2>1. UNCHANGED service
    BY <1>2 DEF Service!vars, service
  <2> QED
    BY <1>1, <2>1, SameStep
<1>3. CASE ~UNCHANGED Service!vars
  <2>1. Service!Next
    BY DEF LogonStep, Service!Next
  <2>2. \A s \in Sessions : phase[s] \in Admitted => phase'[s] # "done"
    <3>1. CASE Service!Raise
      BY <3>1 DEF Service!Raise, Admitted
    <3>2. ASSUME NEW t \in Sessions, NEW u \in Users, Service!Join(t, u)
          PROVE  \A s \in Sessions : phase[s] \in Admitted => phase'[s] # "done"
      BY <1>1, <3>2 DEF Service!Join, Admitted, TypeOK
    <3>3. ASSUME NEW t \in Sessions, Service!Admit(t) \/ Service!Retract(t)
          PROVE  \A s \in Sessions : phase[s] \in Admitted => phase'[s] # "done"
      BY <1>1, <3>3 DEF Service!Admit, Service!Retract, Admitted, TypeOK
    <3>4. ASSUME NEW t \in Sessions, phase[t] = "new", Service!End(t)
          PROVE  \A s \in Sessions : phase[s] \in Admitted => phase'[s] # "done"
      BY <3>4 DEF Service!End, Service!Finish, Admitted
    <3> QED
      BY <3>1, <3>2, <3>3, <3>4 DEF LogonStep
  <2>3. \A s \in Sessions : phase[s] \in Admitted => (phase'[s] = "done" <=> s \in {})
    BY <2>2
  <2>4. \A i \in ServerIds :
          pos_req_id'.server_to_client[i] =
            IF /\ pos_req_id.server_to_client[i] # None
               /\ pos_req_id.server_to_client[i].session \in {}
              THEN None ELSE pos_req_id.server_to_client[i]
    BY <1>1
  <2>5. {} \in SUBSET Sessions
    OBVIOUS
  <2> QED
    BY <1>3, <2>1, <2>3, <2>4, <2>5, ComeAndGoStep
<1> QED
    BY <1>2, <1>3

\* A client that had logged on is gone.
LEMMA DisconnectedRefines ==
    ASSUME IInv, NEW s \in Sessions, Disconnected(s)
    PROVE  Refined
<1>1. /\ pos_req_id \in Mapping /\ Paired(pos_req_id) /\ Service!End(s) /\ phase[s] # "done"
      /\ pos_req_id' = clear_req_ids(pos_req_id, {s})
    BY DEF Disconnected, IInv, TypeOK, PositionsPaired
<1>2. \A t \in Sessions : phase'[t] = IF t \in {s} THEN "done" ELSE phase[t]
    BY <1>1 DEF Service!End, Service!Finish
<1>3. Service!Next /\ ~UNCHANGED Service!vars
    BY <1>1, <1>2 DEF Service!Next, Service!vars
<1>4. \A i \in ServerIds :
        pos_req_id'.server_to_client[i] =
          IF pos_req_id.server_to_client[i] # None /\ pos_req_id.server_to_client[i].session \in {s}
            THEN None ELSE pos_req_id.server_to_client[i]
    BY <1>1, ClearFacts
<1>5. \A t \in Sessions : phase[t] \in Admitted => (phase'[t] = "done" <=> t \in {s})
    BY <1>2 DEF Admitted
<1> QED
    BY <1>3, <1>4, <1>5, ComeAndGoStep

\* The bridge is lost, and everybody with it.
LEMMA BridgeLostRefines == ASSUME IInv, BridgeLost PROVE Refined
<1> DEFINE S == Service!Inside
<1>1. /\ pos_req_id \in Mapping /\ Paired(pos_req_id) /\ up /\ Service!Drop
      /\ pos_req_id' = clear_req_ids(pos_req_id, S)
    BY DEF BridgeLost, IInv, TypeOK, PositionsPaired
<1>2. S = {s \in Sessions : phase[s] \in {"joining", "active", "leaving"}}
    BY DEF Service!Inside
<1>3. PICK N \in SUBSET {s \in Sessions : phase[s] = "new"} : Service!Finish(S \cup N)
    BY <1>1 DEF Service!Drop
<1> HIDE DEF S
<1>4. S \in SUBSET Sessions
    BY <1>2
<1>5. \A t \in Sessions : phase'[t] = IF t \in S \cup N THEN "done" ELSE phase[t]
    BY <1>3 DEF Service!Finish
<1>6. Service!Next /\ ~UNCHANGED Service!vars
    BY <1>1 DEF Service!Next, Service!Drop, Service!vars
<1>7. \A i \in ServerIds :
        pos_req_id'.server_to_client[i] =
          IF pos_req_id.server_to_client[i] # None /\ pos_req_id.server_to_client[i].session \in S
            THEN None ELSE pos_req_id.server_to_client[i]
    BY <1>1, <1>4, ClearFacts
<1>8. \A t \in Sessions : phase[t] \in Admitted => (phase'[t] = "done" <=> t \in S)
    BY <1>2, <1>5 DEF Admitted
<1> QED
    BY <1>4, <1>6, <1>7, <1>8, ComeAndGoStep

\* At first nothing is on record.
LEMMA InitRefines == Init => Service!RequestInit
<1> SUFFICES ASSUME Init PROVE Service!RequestInit
    OBVIOUS
<1>1. Service!Init /\ pos_req_id = EmptyMapping
    BY DEF Init
<1>2. Requests(pos_req_id) = [id \in ServerIds |-> None]
    BY <1>1 DEF Requests, EmptyMapping
<1>3. record = [k \in Kinds |-> [id \in ServerIds |-> None]]
    BY <1>2 DEF record
<1> QED
    BY <1>1, <1>3 DEF Service!RequestInit

\* Every step is one that RequestService allows, or none for it.
LEMMA NextRefines == IInv /\ [Next]_vars => [Service!RequestNext]_Service!requestVars
<1> SUFFICES ASSUME IInv, [Next]_vars PROVE Refined
    BY DEF Refined
<1>1. CASE UNCHANGED vars
    BY <1>1, SameStep DEF vars
<1>2. CASE LogonStep
    BY <1>2, LogonStepRefines
<1>3. ASSUME NEW s \in Sessions, ClientStep(s) PROVE Refined
    BY <1>3, DisconnectedRefines, RequestRefines DEF ClientStep
<1>4. ASSUME NEW q \in bridge, BridgeStep(q) PROVE Refined
  <2>1. ASSUME NEW failure \in BOOLEAN, NEW n \in 0 .. MaxReports,
               RequestForPositionsAck(q, failure, n)
        PROVE  Refined
    BY <2>1, AnswerRefines DEF RequestForPositionsAck
  <2>2. ASSUME NEW failure \in BOOLEAN, PositionReport(q, failure) PROVE Refined
    BY <2>2, AnswerRefines DEF PositionReport
  <2>3. CASE BusinessMessageReject(q)
    BY <2>3, SameStep DEF BusinessMessageReject
  <2> QED
    BY <1>4, <2>1, <2>2, <2>3 DEF BridgeStep
<1>5. CASE BridgeLost
    BY <1>5, BridgeLostRefines
<1> QED
    BY <1>1, <1>2, <1>3, <1>4, <1>5 DEF Next

\* The handlers implement RequestService: a step puts one new request of an active session
\* on record, takes one off, or takes off all requests of the sessions that it ends and
\* nobody else's.
THEOREM RequestsAreKept == Spec => ImplementsRequestService
    BY Invariant, InitRefines, NextRefines, PTL DEF Spec, ImplementsRequestService, Service!RequestSpec

=============================================================================
