------------------------- MODULE SubscriptionsProofs -------------------------
(***************************************************************************)
(* Proofs about Subscriptions, for any users, sessions and request ids, and *)
(* any bound on the number of requests.                                    *)
(***************************************************************************)
EXTENDS Subscriptions, ReqIdsProofs

USE DEF exists

-----------------------------------------------------------------------------
(* The inductive invariant.                                                *)

Admitted == {"active", "leaving"}

\* What the bridge holds was asked by a session that had logged on, under an id
\* that was handed out once.
AskedOnce ==
    /\ \A q \in bridge : phase[q.session] \in Admitted \cup {"done"} /\ q.id <= next_request_id
    /\ \A p, q \in bridge : p.id = q.id => p = q

\* What is on record for a request of the bridge is what its client asked for; and
\* it is on record until it is finished, or the client dead.
OnRecord ==
    \A q \in bridge :
      LET e == mapping[KindOf(q.msg)].server_to_client[q.id]
      IN  /\ e # None =>
               /\ e.session = q.session /\ e.req_id = q.req_id /\ q.type # "UNSUBSCRIBE"
               /\ q.type # "REJECTED" => e.keep_alive = (q.type = "SNAPSHOT_UPDATES")
          /\ q.type \in {"SNAPSHOT", "SNAPSHOT_UPDATES"} /\ phase[q.session] # "done" =>
               e # None

IInv ==
    /\ TypeOK
    /\ MappingsPaired
    /\ TheDeadAreForgotten
    /\ AskedOnce
    /\ OnRecord
    /\ SnapshotsEnd
    /\ NoOrphanStream
    /\ AnswersArrive

-----------------------------------------------------------------------------
(* Kinds, phases, and what the steps do to the mappings.                   *)

\* Market data has a mapping of its own.
LEMMA KindFacts ==
    ASSUME NEW msg \in Messages
    PROVE  /\ KindOf(msg) \in Kinds
           /\ KindOf(msg) = "md_req_id" <=> msg = "MarketData"
BY DEF Messages, KindOf, Kinds

\* An entry is not None.
LEMMA RecordFacts ==
    ASSUME TypeOK, NEW k \in Kinds, NEW id \in ServerIds,
           mapping[k].server_to_client[id] # None
    PROVE  /\ mapping[k].server_to_client[id] \in Entry
           /\ mapping[k].server_to_client[id].session \in Sessions
           /\ mapping[k].server_to_client[id].req_id \in ReqIds
           /\ mapping[k].server_to_client[id].keep_alive \in BOOLEAN
<1>1. mapping[k] \in Mapping
    BY DEF TypeOK
<1>2. mapping[k].server_to_client[id] \in Entry
    BY <1>1, MappingFacts
<1> QED
    BY <1>2 DEF Entry

\* What the bridge holds has a mapping, a session and an id.
LEMMA BridgeFacts ==
    ASSUME TypeOK, NEW q \in bridge
    PROVE  /\ q \in Request
           /\ q.msg \in Messages /\ KindOf(q.msg) \in Kinds
           /\ KindOf(q.msg) = "md_req_id" <=> q.msg = "MarketData"
           /\ q.id \in ServerIds /\ q.session \in Sessions /\ q.req_id \in ReqIds
           /\ q.type \in {"SNAPSHOT", "SNAPSHOT_UPDATES", "UNSUBSCRIBE", "REJECTED"}
<1>1. q \in Request /\ q.msg \in Messages
    BY DEF TypeOK, Request
<1> QED
    BY <1>1, KindFacts DEF Request

\* An id that is not handed out yet is on no record.
LEMMA FreshIsFree ==
    ASSUME IInv, NEW k \in Kinds, create_request_id \in ServerIds
    PROVE  mapping[k].server_to_client[create_request_id] = None
<1> DEFINE id == create_request_id
<1>1. ASSUME mapping[k].server_to_client[id] # None
      PROVE  \E q \in bridge : q.id = id
    BY <1>1 DEF IInv, SnapshotsEnd
<1>2. \A q \in bridge : q.id <= next_request_id
    BY DEF IInv, AskedOnce
<1>3. next_request_id \in Nat /\ id = next_request_id + 1
    BY ServerIdsAssumption DEF IInv, TypeOK, create_request_id
<1> HIDE DEF id
<1>4. ~\E q \in bridge : q.id = id
    BY <1>2, <1>3
<1> QED
    BY <1>1, <1>4 DEF id

\* A request that is passed on has a fresh id, and is on record if it is new.
LEMMA DispatchMapping ==
    ASSUME IInv, NEW msg \in Messages, NEW s \in Sessions, NEW r \in ReqIds, NEW type,
           Dispatch(msg, s, r, type)
    PROVE  LET k0 == KindOf(msg)
               id == next_request_id'
           IN  /\ id \in ServerIds /\ id = next_request_id + 1
               /\ mapping' \in [Kinds -> Mapping]
               /\ MappingsPaired'
               /\ exists(mapping[k0], s, r) => mapping' = mapping
               /\ ~exists(mapping[k0], s, r) =>
                    \E e \in Entry :
                      /\ e.session = s /\ e.req_id = r /\ e.keep_alive = (type = "SNAPSHOT_UPDATES")
                      /\ e # None
                      /\ \A k \in Kinds, i \in ServerIds :
                           mapping'[k].server_to_client[i] =
                             IF k = k0 /\ i = id THEN e ELSE mapping[k].server_to_client[i]
<1> DEFINE k0 == KindOf(msg)
           id == create_request_id
<1>1. id \in ServerIds /\ next_request_id' = id /\ id = next_request_id + 1
    BY DEF Dispatch, create_request_id
<1>2. k0 \in Kinds /\ mapping \in [Kinds -> Mapping] /\ TypeOK /\ MappingsPaired
    BY KindFacts DEF IInv, TypeOK
<1>3. mapping[k0].server_to_client[id] = None
    BY <1>1, <1>2, FreshIsFree
<1>4. CASE exists(mapping[k0], s, r)
  <2>1. mapping' = [mapping EXCEPT ![k0] = remove_req_id(@, id)]
    BY <1>4 DEF Dispatch
  <2>2. mapping[k0] \in Mapping
    BY <1>2
  <2> HIDE DEF k0, id
  <2>3. remove_req_id(mapping[k0], id) = mapping[k0]
    BY <1>1, <1>3, <2>2, RemoveFacts
  <2>4. mapping' = mapping
    BY <1>2, <2>1, <2>3
  <2>5. MappingsPaired'
    BY <1>2, <2>4 DEF MappingsPaired
  <2> QED
    BY <1>1, <1>2, <1>4, <2>4, <2>5 DEF k0, id
<1>5. CASE ~exists(mapping[k0], s, r)
  <2>1. PICK b \in BOOLEAN : b = (type = "SNAPSHOT_UPDATES")
    OBVIOUS
  <2> DEFINE m == mapping[k0]
             n == add_req_id(m, s, r, id, b)
             e == [session |-> s, req_id |-> r, keep_alive |-> b]
  <2>2. mapping' = [mapping EXCEPT ![k0] = n]
    BY <1>5, <2>1 DEF Dispatch
  <2>3. e.session = s /\ e.req_id = r /\ e.keep_alive = (type = "SNAPSHOT_UPDATES")
    BY <2>1
  <2>4. m \in Mapping /\ Paired(m) /\ m.server_to_client[id] = None /\ ~exists(m, s, r)
    BY <1>2, <1>3, <1>5 DEF MappingsPaired
  <2>5. \A k \in Kinds : Paired(mapping[k])
    BY <1>2 DEF MappingsPaired
  <2> HIDE DEF k0, id, m
  <2>6. Paired(n)
    BY <1>1, <2>4, AddPaired
  <2>7. /\ n \in Mapping /\ e \in Entry /\ e # None
        /\ \A i \in ServerIds :
             n.server_to_client[i] = IF i = id THEN e ELSE m.server_to_client[i]
    BY <1>1, <2>4, AddFacts
  <2> HIDE DEF n, e
  <2>8. \A k \in Kinds : mapping'[k] = IF k = k0 THEN n ELSE mapping[k]
    BY <1>2, <2>2
  <2>9. mapping' \in [Kinds -> Mapping]
    BY <1>2, <2>2, <2>7
  <2>10. MappingsPaired'
    BY <2>5, <2>6, <2>8 DEF MappingsPaired
  <2>11. \A k \in Kinds, i \in ServerIds :
           mapping'[k].server_to_client[i] =
             IF k = k0 /\ i = id THEN e ELSE mapping[k].server_to_client[i]
    BY <2>7, <2>8 DEF m
  <2> QED
    BY <1>1, <1>5, <2>3, <2>7, <2>9, <2>10, <2>11 DEF k0, id
<1> QED
    BY <1>4, <1>5

\* An answer takes its request off the record, or nothing.
LEMMA ForgetMapping ==
    ASSUME IInv, NEW q \in bridge, NEW failure \in BOOLEAN, mapping' = ForgetIfDone(q, failure)
    PROVE  /\ mapping' \in [Kinds -> Mapping]
           /\ MappingsPaired'
           /\ \A k \in Kinds, i \in ServerIds :
                mapping'[k].server_to_client[i] =
                  IF /\ k = KindOf(q.msg) /\ i = q.id /\ mapping[k].server_to_client[i] # None
                     /\ failure \/ ~mapping[k].server_to_client[i].keep_alive
                    THEN None ELSE mapping[k].server_to_client[i]
<1> DEFINE k0 == KindOf(q.msg)
           n  == remove_req_id(mapping[k0], q.id)
<1>1. k0 \in Kinds /\ q.id \in ServerIds
    BY BridgeFacts DEF IInv
<1>2. mapping \in [Kinds -> Mapping] /\ \A k \in Kinds : Paired(mapping[k])
    BY DEF IInv, TypeOK, MappingsPaired
<1>3. mapping' = IF Found(q) # None /\ (failure \/ ~Found(q).keep_alive)
                   THEN [mapping EXCEPT ![k0] = n] ELSE mapping
    BY DEF ForgetIfDone
<1>4. Found(q) = mapping[k0].server_to_client[q.id]
    BY DEF Found
<1>5. /\ n \in Mapping /\ Paired(n)
      /\ \A i \in ServerIds :
           n.server_to_client[i] = IF i = q.id THEN None ELSE mapping[k0].server_to_client[i]
    BY <1>1, <1>2, RemoveFacts, RemovePaired
<1> HIDE DEF k0, n
<1>6. CASE Found(q) # None /\ (failure \/ ~Found(q).keep_alive)
  <2>1. \A k \in Kinds : mapping'[k] = IF k = k0 THEN n ELSE mapping[k]
    BY <1>2, <1>3, <1>6
  <2>2. mapping' \in [Kinds -> Mapping]
    BY <1>2, <1>3, <1>5, <1>6
  <2>3. MappingsPaired'
    BY <1>2, <1>5, <2>1 DEF MappingsPaired
  <2>4. \A k \in Kinds, i \in ServerIds :
          mapping'[k].server_to_client[i] =
            IF k = k0 /\ i = q.id THEN None ELSE mapping[k].server_to_client[i]
    BY <1>5, <2>1
  <2> QED
    BY <1>4, <1>6, <2>2, <2>3, <2>4 DEF k0
<1>7. CASE ~(Found(q) # None /\ (failure \/ ~Found(q).keep_alive))
  <2>1. mapping' = mapping
    BY <1>3, <1>7
  <2>2. MappingsPaired'
    BY <1>2, <2>1 DEF MappingsPaired
  <2> QED
    BY <1>2, <1>4, <1>7, <2>1, <2>2 DEF k0
<1> QED
    BY <1>6, <1>7

\* What is on record for dead sessions goes, and nothing else.
LEMMA ClearMapping ==
    ASSUME IInv, NEW S \in SUBSET Sessions,
           mapping' = [k \in Kinds |-> clear_req_ids(mapping[k], S)]
    PROVE  /\ mapping' \in [Kinds -> Mapping]
           /\ MappingsPaired'
           /\ \A k \in Kinds, i \in ServerIds :
                mapping'[k].server_to_client[i] =
                  IF /\ mapping[k].server_to_client[i] # None
                     /\ mapping[k].server_to_client[i].session \in S
                    THEN None ELSE mapping[k].server_to_client[i]
<1>1. \A k \in Kinds : mapping[k] \in Mapping /\ Paired(mapping[k])
    BY DEF IInv, TypeOK, MappingsPaired
<1>2. \A k \in Kinds : mapping'[k] = clear_req_ids(mapping[k], S)
    OBVIOUS
<1>3. \A k \in Kinds :
        /\ clear_req_ids(mapping[k], S) \in Mapping
        /\ Paired(clear_req_ids(mapping[k], S))
        /\ \A i \in ServerIds :
             clear_req_ids(mapping[k], S).server_to_client[i] =
               IF /\ mapping[k].server_to_client[i] # None
                  /\ mapping[k].server_to_client[i].session \in S
                 THEN None ELSE mapping[k].server_to_client[i]
    BY <1>1, ClearFacts, ClearPaired
<1>4. mapping' \in [Kinds -> Mapping]
    BY <1>3
<1>5. MappingsPaired'
    BY <1>2, <1>3 DEF MappingsPaired
<1>6. \A k \in Kinds, i \in ServerIds :
        mapping'[k].server_to_client[i] =
          IF /\ mapping[k].server_to_client[i] # None
             /\ mapping[k].server_to_client[i].session \in S
            THEN None ELSE mapping[k].server_to_client[i]
    BY <1>2, <1>3
<1> QED
    BY <1>4, <1>5, <1>6

-----------------------------------------------------------------------------
(* One lemma per kind of step.                                             *)

\* A request is passed on.
LEMMA DispatchStep ==
    ASSUME IInv, NEW msg \in Messages, NEW s \in Sessions, NEW r \in ReqIds, NEW type,
           phase[s] = "active", Accepted(msg, s, r, type), Dispatch(msg, s, r, type),
           answer' = None, UNCHANGED service
    PROVE  IInv'
<1> DEFINE k0 == KindOf(msg)
           id == next_request_id'
           q0 == [msg |-> msg, id |-> id, session |-> s, req_id |-> r, type |-> type]
<1>1. /\ id \in ServerIds /\ id = next_request_id + 1
      /\ mapping' \in [Kinds -> Mapping]
      /\ MappingsPaired'
      /\ exists(mapping[k0], s, r) => mapping' = mapping
      /\ ~exists(mapping[k0], s, r) =>
           \E e \in Entry :
             /\ e.session = s /\ e.req_id = r /\ e.keep_alive = (type = "SNAPSHOT_UPDATES")
             /\ e # None
             /\ \A k \in Kinds, i \in ServerIds :
                  mapping'[k].server_to_client[i] =
                    IF k = k0 /\ i = id THEN e ELSE mapping[k].server_to_client[i]
    BY DispatchMapping
<1>2. bridge' = bridge \cup {q0}
    BY DEF Dispatch
<1>3. \/ type \in {"SNAPSHOT", "SNAPSHOT_UPDATES"} /\ ~exists(mapping[k0], s, r)
      \/ type = "UNSUBSCRIBE" /\ exists(mapping[k0], s, r)
    BY DEF Accepted
<1>4. /\ k0 \in Kinds /\ (k0 = "md_req_id" <=> msg = "MarketData")
      /\ mapping[k0].server_to_client[id] = None
      /\ phase' = phase
  <2>1. id = create_request_id
    BY DEF Dispatch
  <2> QED
    BY <1>1, <2>1, KindFacts, FreshIsFree DEF service
<1>5. q0 \in Request /\ q0.id = id /\ q0.session = s /\ q0.req_id = r /\ q0.type = type
      /\ q0.msg = msg
    BY <1>1, <1>3 DEF Request
<1>6. next_request_id \in Nat /\ ServerIds \subseteq Nat
    BY ServerIdsAssumption DEF IInv, TypeOK
<1>7. \A q \in bridge : q.id \in ServerIds /\ q.id <= next_request_id /\ q.id # id
    BY <1>1, <1>6, BridgeFacts DEF IInv, AskedOnce
<1> HIDE DEF id, k0, q0
<1>8. \E e \in Entry \cup {None} :
        /\ \A k \in Kinds, i \in ServerIds :
             mapping'[k].server_to_client[i] =
               IF k = k0 /\ i = id THEN e ELSE mapping[k].server_to_client[i]
        /\ e # None =>
             /\ e.session = s /\ e.req_id = r /\ type \in {"SNAPSHOT", "SNAPSHOT_UPDATES"}
             /\ e.keep_alive = (type = "SNAPSHOT_UPDATES")
        /\ type \in {"SNAPSHOT", "SNAPSHOT_UPDATES"} => e # None
  <2>1. CASE exists(mapping[k0], s, r)
    BY <1>1, <1>3, <1>4, <2>1
  <2>2. CASE ~exists(mapping[k0], s, r)
    BY <1>1, <1>3, <2>2
  <2> QED
    BY <2>1, <2>2
<1>9. PICK e \in Entry \cup {None} :
        /\ \A k \in Kinds, i \in ServerIds :
             mapping'[k].server_to_client[i] =
               IF k = k0 /\ i = id THEN e ELSE mapping[k].server_to_client[i]
        /\ e # None =>
             /\ e.session = s /\ e.req_id = r /\ type \in {"SNAPSHOT", "SNAPSHOT_UPDATES"}
             /\ e.keep_alive = (type = "SNAPSHOT_UPDATES")
        /\ type \in {"SNAPSHOT", "SNAPSHOT_UPDATES"} => e # None
    BY <1>8
<1>10. TypeOK'
  <2>1. next_request_id' \in 0 .. MaxRequests
    BY <1>1, ServerIdsAssumption DEF id
  <2>2. bridge' \subseteq Request
    BY <1>2, <1>5 DEF IInv, TypeOK
  <2> QED
    BY <1>1, <2>1, <2>2 DEF IInv, TypeOK, service
<1>11. TheDeadAreForgotten'
    BY <1>4, <1>9 DEF IInv, TheDeadAreForgotten
<1>12. AskedOnce'
  <2>1. \A q \in bridge' : phase[q.session] \in Admitted \cup {"done"}
    BY <1>2, <1>5 DEF IInv, AskedOnce, Admitted
  <2>2. \A q \in bridge' : q.id <= id
    <3>0. id = next_request_id + 1
      BY <1>1
    <3>1. ASSUME NEW q \in bridge PROVE q.id <= id
      <4>1. q.id \in Nat /\ q.id <= next_request_id
        BY <1>6, <1>7
      <4> QED
        BY <1>6, <3>0, <4>1
    <3>2. q0.id <= id
      BY <1>5, <1>6, <3>0
    <3> QED
      BY <1>2, <3>1, <3>2
  <2>3. \A p, q \in bridge' : p.id = q.id => p = q
    BY <1>2, <1>5, <1>7 DEF IInv, AskedOnce
  <2> QED
    BY <1>4, <2>1, <2>2, <2>3 DEF AskedOnce, id
<1>13. \A q \in bridge, k \in Kinds :
         mapping'[k].server_to_client[q.id] = mapping[k].server_to_client[q.id]
    BY <1>7, <1>9
<1>14. mapping'[k0].server_to_client[id] = e
    BY <1>1, <1>4, <1>9
<1>15. OnRecord'
  <2>1. ASSUME NEW q \in bridge
        PROVE  LET f == mapping'[KindOf(q.msg)].server_to_client[q.id]
               IN  /\ f # None =>
                        /\ f.session = q.session /\ f.req_id = q.req_id /\ q.type # "UNSUBSCRIBE"
                        /\ q.type # "REJECTED" => f.keep_alive = (q.type = "SNAPSHOT_UPDATES")
                   /\ q.type \in {"SNAPSHOT", "SNAPSHOT_UPDATES"} /\ phase[q.session] # "done" =>
                        f # None
    <3>1. KindOf(q.msg) \in Kinds
      BY BridgeFacts DEF IInv
    <3> QED
      BY <1>13, <3>1 DEF IInv, OnRecord
  <2>2. LET f == mapping'[KindOf(q0.msg)].server_to_client[q0.id]
        IN  /\ f # None =>
                 /\ f.session = q0.session /\ f.req_id = q0.req_id /\ q0.type # "UNSUBSCRIBE"
                 /\ q0.type # "REJECTED" => f.keep_alive = (q0.type = "SNAPSHOT_UPDATES")
            /\ q0.type \in {"SNAPSHOT", "SNAPSHOT_UPDATES"} /\ phase[q0.session] # "done" =>
                 f # None
    BY <1>5, <1>9, <1>14 DEF k0
  <2> QED
    BY <1>2, <1>4, <2>1, <2>2 DEF OnRecord
<1>16. SnapshotsEnd'
  <2> SUFFICES ASSUME NEW k \in Kinds, NEW i \in ServerIds,
                      mapping'[k].server_to_client[i] # None
               PROVE  \E q \in bridge' : q.id = i /\ KindOf(q.msg) = k
    BY DEF SnapshotsEnd
  <2>1. CASE k = k0 /\ i = id
    BY <1>2, <1>5, <2>1 DEF k0
  <2>2. CASE ~(k = k0 /\ i = id)
    BY <1>2, <1>9, <2>2 DEF IInv, SnapshotsEnd
  <2> QED
    BY <2>1, <2>2
<1>17. NoOrphanStream'
  <2> SUFFICES ASSUME NEW q \in bridge', q.msg = "MarketData", q.type = "SNAPSHOT_UPDATES"
               PROVE  LET f == mapping'["md_req_id"].server_to_client[q.id]
                      IN  f # None /\ f.session = q.session
    BY DEF NoOrphanStream
  <2>1. CASE q = q0
    BY <1>4, <1>5, <1>9, <1>14, <2>1
  <2>2. CASE q \in bridge
    BY <1>13, <2>2 DEF IInv, NoOrphanStream, Kinds
  <2> QED
    BY <1>2, <2>1, <2>2
<1> QED
    BY <1>1, <1>10, <1>11, <1>12, <1>15, <1>16, <1>17 DEF IInv, AnswersArrive

\* What is passed on goes to whom it should go.
LEMMA PassedArrives ==
    ASSUME IInv, NEW q \in bridge, q.type # "REJECTED", answer' = Passed(q), UNCHANGED phase
    PROVE  answer' \in Answer /\ AnswersArrive'
<1> DEFINE e == Found(q)
<1>1. /\ q \in Request /\ q.session \in Sessions /\ q.req_id \in ReqIds
      /\ KindOf(q.msg) \in Kinds /\ q.id \in ServerIds
      /\ q.type \in {"SNAPSHOT", "SNAPSHOT_UPDATES", "UNSUBSCRIBE", "REJECTED"}
    BY BridgeFacts DEF IInv
<1>2. e = mapping[KindOf(q.msg)].server_to_client[q.id]
    BY DEF Found
<1>3. /\ e # None => e.session = q.session /\ e.req_id = q.req_id
      /\ q.type \in {"SNAPSHOT", "SNAPSHOT_UPDATES"} /\ phase[q.session] # "done" => e # None
    BY <1>2 DEF IInv, OnRecord
<1>4. CASE e # None /\ phase[e.session] = "active"
  <2>1. answer' = [request |-> q, to |-> e.session, req_id |-> e.req_id]
    BY <1>4 DEF Passed
  <2> HIDE DEF e
  <2>2. answer' \in Answer
    BY <1>1, <1>3, <1>4, <2>1 DEF Answer
  <2>3. answer'.request = q /\ answer'.to = q.session /\ answer'.req_id = q.req_id
    BY <1>3, <1>4, <2>1
  <2> QED
    BY <2>2, <2>3 DEF AnswersArrive
<1>5. CASE ~(e # None /\ phase[e.session] = "active")
  <2>1. answer' = [request |-> q, to |-> None, req_id |-> None]
    BY <1>5 DEF Passed
  <2> HIDE DEF e
  <2>2. phase[q.session] # "active" \/ q.type = "UNSUBSCRIBE"
    BY <1>1, <1>3, <1>5
  <2>3. answer' \in Answer
    BY <1>1, <2>1 DEF Answer
  <2>4. answer'.request = q /\ answer'.to = None
    BY <2>1
  <2> QED
    BY <2>2, <2>3, <2>4 DEF AnswersArrive
<1> QED
    BY <1>4, <1>5

\* An answer that may end its request.
LEMMA FinalAnswerStep ==
    ASSUME IInv, NEW q \in bridge, q.type # "REJECTED", NEW failure \in BOOLEAN,
           FinalAnswer(q, failure)
    PROVE  IInv'
<1> DEFINE ended(k, i) ==
             /\ k = KindOf(q.msg) /\ i = q.id /\ mapping[k].server_to_client[i] # None
             /\ failure \/ ~mapping[k].server_to_client[i].keep_alive
<1>1. /\ mapping' \in [Kinds -> Mapping]
      /\ MappingsPaired'
      /\ \A k \in Kinds, i \in ServerIds :
           mapping'[k].server_to_client[i] =
             IF ended(k, i) THEN None ELSE mapping[k].server_to_client[i]
    BY ForgetMapping DEF FinalAnswer
<1>2. /\ bridge' = IF q.type = "SNAPSHOT_UPDATES" /\ ~failure THEN bridge ELSE bridge \ {q}
      /\ phase' = phase /\ up' = up /\ holder' = holder
      /\ next_request_id' = next_request_id /\ answer' = Passed(q)
    BY DEF FinalAnswer, Finish, service
<1>3. bridge' \subseteq bridge
    BY <1>2
<1>4. answer' \in Answer /\ AnswersArrive'
    BY <1>2, PassedArrives
<1>5. TypeOK'
    BY <1>1, <1>2, <1>3, <1>4 DEF IInv, TypeOK
<1>6. TheDeadAreForgotten'
    BY <1>1, <1>2 DEF IInv, TheDeadAreForgotten
<1>7. AskedOnce'
    BY <1>2, <1>3 DEF IInv, AskedOnce
\* What is forgotten was asked by q, and q leaves the bridge.
<1>8. \A k \in Kinds, i \in ServerIds : ended(k, i) => q \notin bridge'
  <2> SUFFICES ASSUME ended(KindOf(q.msg), q.id) PROVE q \notin bridge'
    OBVIOUS
  <2>1. mapping[KindOf(q.msg)].server_to_client[q.id].keep_alive = (q.type = "SNAPSHOT_UPDATES")
    BY DEF IInv, OnRecord
  <2> QED
    BY <1>2, <2>1
\* Nothing that stays on the bridge is forgotten.
<1>9. ASSUME NEW p \in bridge'
      PROVE  \A k \in Kinds :
               mapping'[k].server_to_client[p.id] = mapping[k].server_to_client[p.id]
  <2>1. p \in bridge /\ p.id \in ServerIds
    BY <1>3, BridgeFacts DEF IInv
  <2>2. \A k \in Kinds : ~ended(k, p.id)
    BY <1>8, <2>1 DEF IInv, AskedOnce
  <2> QED
    BY <1>1, <2>1, <2>2
<1> HIDE DEF ended
<1>10. OnRecord'
  <2> SUFFICES ASSUME NEW p \in bridge'
               PROVE  LET f == mapping'[KindOf(p.msg)].server_to_client[p.id]
                      IN  /\ f # None =>
                               /\ f.session = p.session /\ f.req_id = p.req_id
                               /\ p.type # "UNSUBSCRIBE"
                               /\ p.type # "REJECTED" =>
                                    f.keep_alive = (p.type = "SNAPSHOT_UPDATES")
                          /\ p.type \in {"SNAPSHOT", "SNAPSHOT_UPDATES"}
                               /\ phase[p.session] # "done" => f # None
    BY <1>2 DEF OnRecord
  <2>1. p \in bridge /\ KindOf(p.msg) \in Kinds
    BY <1>3, BridgeFacts DEF IInv
  <2> QED
    BY <1>9, <2>1 DEF IInv, OnRecord
<1>11. SnapshotsEnd'
  <2> SUFFICES ASSUME NEW k \in Kinds, NEW i \in ServerIds,
                      mapping'[k].server_to_client[i] # None
               PROVE  \E p \in bridge' : p.id = i /\ KindOf(p.msg) = k
    BY DEF SnapshotsEnd
  <2>1. ~ended(k, i) /\ mapping[k].server_to_client[i] # None
    BY <1>1
  <2>2. PICK p \in bridge : p.id = i /\ KindOf(p.msg) = k
    BY <2>1 DEF IInv, SnapshotsEnd
  <2>3. CASE p = q
    <3>1. mapping[k].server_to_client[i].keep_alive = (q.type = "SNAPSHOT_UPDATES")
      BY <2>1, <2>2, <2>3 DEF IInv, OnRecord
    <3>2. q.type = "SNAPSHOT_UPDATES" /\ ~failure
      BY <2>1, <2>2, <2>3, <3>1 DEF ended
    <3> QED
      BY <1>2, <2>2, <3>2
  <2>4. CASE p # q
    BY <1>2, <2>2, <2>4
  <2> QED
    BY <2>3, <2>4
<1>12. NoOrphanStream'
  <2> SUFFICES ASSUME NEW p \in bridge', p.msg = "MarketData", p.type = "SNAPSHOT_UPDATES"
               PROVE  LET f == mapping'["md_req_id"].server_to_client[p.id]
                      IN  f # None /\ f.session = p.session
    BY DEF NoOrphanStream
  <2> QED
    BY <1>3, <1>9 DEF IInv, NoOrphanStream, Kinds
<1> QED
    BY <1>1, <1>4, <1>5, <1>6, <1>7, <1>10, <1>11, <1>12 DEF IInv

\* An update.
LEMMA UpdateStep ==
    ASSUME IInv, NEW q \in bridge, q.type # "REJECTED", MarketDataIncrementalRefresh(q)
    PROVE  IInv'
<1>1. /\ UNCHANGED <<up, phase, holder, mapping, next_request_id, bridge>>
      /\ answer' = Passed(q)
    BY DEF MarketDataIncrementalRefresh, service
<1>2. answer' \in Answer /\ AnswersArrive'
    BY <1>1, PassedArrives
<1> QED
    BY <1>1, <1>2 DEF IInv, TypeOK, MappingsPaired, TheDeadAreForgotten, AskedOnce, OnRecord,
                      SnapshotsEnd, NoOrphanStream

\* The bridge refuses a request; the mappings stay.
LEMMA RejectStep ==
    ASSUME IInv, NEW q \in bridge, q.type # "REJECTED", BusinessMessageReject(q)
    PROVE  IInv'
<1> DEFINE q0 == [q EXCEPT !.type = "REJECTED"]
<1>1. /\ UNCHANGED <<up, phase, holder, mapping, next_request_id>>
      /\ answer' = Passed(q)
      /\ bridge' = (bridge \ {q}) \cup {q0}
    BY DEF BusinessMessageReject, service
<1>2. answer' \in Answer /\ AnswersArrive'
    BY <1>1, PassedArrives
<1>3. /\ q0 \in Request /\ q0.msg = q.msg /\ q0.id = q.id /\ q0.session = q.session
      /\ q0.req_id = q.req_id /\ q0.type = "REJECTED"
    BY BridgeFacts DEF IInv, Request
<1> HIDE DEF q0
<1>4. TypeOK'
    BY <1>1, <1>2, <1>3 DEF IInv, TypeOK
<1>5. MappingsPaired' /\ TheDeadAreForgotten'
    BY <1>1 DEF IInv, MappingsPaired, TheDeadAreForgotten
<1>6. AskedOnce'
  <2>1. \A p \in bridge' :
          phase'[p.session] \in Admitted \cup {"done"} /\ p.id <= next_request_id'
    BY <1>1, <1>3 DEF IInv, AskedOnce
  <2>2. \A p, r \in bridge' : p.id = r.id => p = r
    BY <1>1, <1>3 DEF IInv, AskedOnce
  <2> QED
    BY <2>1, <2>2 DEF AskedOnce
<1>7. OnRecord'
    BY <1>1, <1>3 DEF IInv, OnRecord
<1>8. SnapshotsEnd'
  <2> SUFFICES ASSUME NEW k \in Kinds, NEW i \in ServerIds, mapping[k].server_to_client[i] # None
               PROVE  \E p \in bridge' : p.id = i /\ KindOf(p.msg) = k
    BY <1>1 DEF SnapshotsEnd
  <2>1. PICK p \in bridge : p.id = i /\ KindOf(p.msg) = k
    BY DEF IInv, SnapshotsEnd
  <2> QED
    BY <1>1, <1>3, <2>1
<1>9. NoOrphanStream'
    BY <1>1, <1>3 DEF IInv, NoOrphanStream
<1> QED
    BY <1>2, <1>4, <1>5, <1>6, <1>7, <1>8, <1>9 DEF IInv

\* Sessions that come and go without the Controller: whoever asked for something
\* stays where it is, or goes from active to leaving.
LEMMA PhaseStep ==
    ASSUME IInv, UNCHANGED <<mapping, next_request_id, bridge>>, answer' = None,
           up' \in BOOLEAN, holder' \in [Users -> Sessions \cup {None}],
           phase' \in [Sessions -> {"new", "joining", "active", "leaving", "done"}],
           \A s \in Sessions :
             /\ phase[s] \in Admitted => phase'[s] \in Admitted
             /\ phase[s] = "done" => phase'[s] = "done"
    PROVE  IInv'
<1>1. TypeOK'
    BY DEF IInv, TypeOK
<1>2. MappingsPaired' /\ SnapshotsEnd' /\ NoOrphanStream' /\ AnswersArrive'
    BY DEF IInv, MappingsPaired, SnapshotsEnd, NoOrphanStream, AnswersArrive
<1>3. TheDeadAreForgotten'
  <2> SUFFICES ASSUME NEW k \in Kinds, NEW i \in ServerIds, mapping[k].server_to_client[i] # None
               PROVE  phase'[mapping[k].server_to_client[i].session] \in Admitted
    BY DEF TheDeadAreForgotten, Admitted
  <2> QED
    BY RecordFacts DEF IInv, TheDeadAreForgotten, Admitted
<1>4. AskedOnce'
    BY BridgeFacts DEF IInv, AskedOnce
<1>5. OnRecord'
  <2>1. \A q \in bridge : phase'[q.session] # "done" => phase[q.session] # "done"
    BY BridgeFacts DEF IInv
  <2> QED
    BY <2>1 DEF IInv, OnRecord
<1> QED
    BY <1>1, <1>2, <1>3, <1>4, <1>5 DEF IInv

\* When sessions are done, the registry stays one.
LEMMA FinishFacts ==
    ASSUME TypeOK, NEW S \in SUBSET Sessions, Service!Finish(S)
    PROVE  /\ phase' \in [Sessions -> {"new", "joining", "active", "leaving", "done"}]
           /\ holder' \in [Users -> Sessions \cup {None}]
           /\ \A s \in Sessions : phase'[s] = IF s \in S THEN "done" ELSE phase[s]
<1>1. holder' = [u \in Users |-> IF holder[u] \in S THEN None ELSE holder[u]]
    BY DEF Service!Finish
<1>2. phase' = [s \in Sessions |-> IF s \in S THEN "done" ELSE phase[s]]
    BY DEF Service!Finish
<1> QED
    BY <1>1, <1>2 DEF TypeOK

\* Logons, logouts, and the end of sessions that were not logged on.
LEMMA LogonStepStep == ASSUME IInv, LogonStep PROVE IInv'
<1>1. /\ TypeOK /\ UNCHANGED <<mapping, next_request_id, bridge>> /\ answer' = None
    BY DEF LogonStep, IInv
<1>2. CASE Service!Raise
    BY <1>1, <1>2, PhaseStep DEF Service!Raise, TypeOK
<1>3. ASSUME NEW s \in Sessions, NEW u \in Users, Service!Join(s, u) PROVE IInv'
    BY <1>1, <1>3, PhaseStep DEF Service!Join, TypeOK, Admitted
<1>4. ASSUME NEW s \in Sessions, Service!Admit(s) \/ Service!Retract(s) PROVE IInv'
    BY <1>1, <1>4, PhaseStep DEF Service!Admit, Service!Retract, TypeOK, Admitted
<1>5. ASSUME NEW s \in Sessions, phase[s] = "new", Service!End(s) PROVE IInv'
  <2>1. /\ phase' \in [Sessions -> {"new", "joining", "active", "leaving", "done"}]
        /\ holder' \in [Users -> Sessions \cup {None}]
        /\ \A t \in Sessions : phase'[t] = IF t = s THEN "done" ELSE phase[t]
        /\ up' \in BOOLEAN
    BY <1>1, <1>5, FinishFacts DEF Service!End, TypeOK
  <2> QED
    BY <1>1, <1>5, <2>1, PhaseStep DEF Admitted
<1> QED
    BY <1>2, <1>3, <1>4, <1>5 DEF LogonStep

\* Sessions D are done, and what is on record for S goes, those of D that had logged on.
\* What is left of the bridge's requests goes on, except the streams of S.
LEMMA DeathStep ==
    ASSUME IInv, NEW D \in SUBSET Sessions, NEW S \in SUBSET D, Service!Finish(D),
           \A s \in D \ S : phase[s] = "new", up' \in BOOLEAN,
           mapping' = [k \in Kinds |-> clear_req_ids(mapping[k], S)],
           UNCHANGED next_request_id, answer' = None,
           bridge' \subseteq Request,
           \A q \in bridge' : \E p \in bridge :
             /\ q.msg = p.msg /\ q.id = p.id /\ q.session = p.session /\ q.req_id = p.req_id
             /\ \/ q.type = p.type
                \/ p.session \in S /\ q.type = "UNSUBSCRIBE"
             /\ p.session \in S => ~(q.msg = "MarketData" /\ q.type = "SNAPSHOT_UPDATES"),
           \A p, q \in bridge' : p.id = q.id => p = q,
           \A p \in bridge : mapping[KindOf(p.msg)].server_to_client[p.id] # None =>
             p.session \in S \/ \E q \in bridge' : q.id = p.id /\ q.msg = p.msg
    PROVE  IInv'
<1>1. /\ mapping' \in [Kinds -> Mapping]
      /\ MappingsPaired'
      /\ \A k \in Kinds, i \in ServerIds :
           mapping'[k].server_to_client[i] =
             IF /\ mapping[k].server_to_client[i] # None
                /\ mapping[k].server_to_client[i].session \in S
               THEN None ELSE mapping[k].server_to_client[i]
    BY ClearMapping
<1>2. /\ phase' \in [Sessions -> {"new", "joining", "active", "leaving", "done"}]
      /\ holder' \in [Users -> Sessions \cup {None}]
      /\ \A s \in Sessions : phase'[s] = IF s \in D THEN "done" ELSE phase[s]
    BY FinishFacts DEF IInv
<1>3. TypeOK'
    BY <1>1, <1>2 DEF IInv, TypeOK
<1>4. TheDeadAreForgotten'
  <2> SUFFICES ASSUME NEW k \in Kinds, NEW i \in ServerIds, mapping'[k].server_to_client[i] # None
               PROVE  phase'[mapping'[k].server_to_client[i].session] \in Admitted
    BY DEF TheDeadAreForgotten, Admitted
  <2> DEFINE e == mapping[k].server_to_client[i]
  <2>1. mapping'[k].server_to_client[i] = e /\ e # None /\ e.session \notin S
    BY <1>1
  <2>2. e.session \in Sessions /\ phase[e.session] \in Admitted
    BY <2>1, RecordFacts DEF IInv, TheDeadAreForgotten, Admitted
  <2> QED
    BY <1>2, <2>1, <2>2 DEF Admitted
<1>5. AskedOnce'
  <2> SUFFICES ASSUME NEW q \in bridge'
               PROVE  phase'[q.session] \in Admitted \cup {"done"} /\ q.id <= next_request_id
    BY DEF AskedOnce
  <2>1. PICK p \in bridge : q.id = p.id /\ q.session = p.session
    OBVIOUS
  <2>2. p.session \in Sessions
    BY BridgeFacts DEF IInv
  <2> QED
    BY <1>2, <2>1, <2>2 DEF IInv, AskedOnce
<1>6. ASSUME NEW q \in bridge'
      PROVE  LET f == mapping'[KindOf(q.msg)].server_to_client[q.id]
             IN  /\ f # None =>
                      /\ f.session = q.session /\ f.req_id = q.req_id /\ q.type # "UNSUBSCRIBE"
                      /\ q.type # "REJECTED" => f.keep_alive = (q.type = "SNAPSHOT_UPDATES")
                 /\ q.type \in {"SNAPSHOT", "SNAPSHOT_UPDATES"} /\ phase'[q.session] # "done" =>
                      f # None
                 /\ q.msg = "MarketData" /\ q.type = "SNAPSHOT_UPDATES" =>
                      f # None /\ f.session = q.session
  <2>1. PICK p \in bridge :
          /\ q.msg = p.msg /\ q.id = p.id /\ q.session = p.session /\ q.req_id = p.req_id
          /\ \/ q.type = p.type
             \/ p.session \in S /\ q.type = "UNSUBSCRIBE"
          /\ p.session \in S => ~(q.msg = "MarketData" /\ q.type = "SNAPSHOT_UPDATES")
    OBVIOUS
  <2> DEFINE k == KindOf(p.msg)
             e == mapping[k].server_to_client[p.id]
  <2>2. /\ k \in Kinds /\ p.id \in ServerIds /\ p.session \in Sessions
        /\ k = "md_req_id" <=> p.msg = "MarketData"
    BY BridgeFacts DEF IInv
  <2>3. /\ e # None =>
             /\ e.session = p.session /\ e.req_id = p.req_id /\ p.type # "UNSUBSCRIBE"
             /\ p.type # "REJECTED" => e.keep_alive = (p.type = "SNAPSHOT_UPDATES")
        /\ p.type \in {"SNAPSHOT", "SNAPSHOT_UPDATES"} /\ phase[p.session] # "done" => e # None
    BY DEF IInv, OnRecord
  <2>4. p.msg = "MarketData" /\ p.type = "SNAPSHOT_UPDATES" => e # None /\ e.session = p.session
    BY <2>2 DEF IInv, NoOrphanStream
  <2>5. mapping'[k].server_to_client[p.id] = IF p.session \in S THEN None ELSE e
    BY <1>1, <2>2, <2>3
  <2>6. phase'[p.session] = IF p.session \in S THEN "done" ELSE phase[p.session]
    BY <1>2, <2>2 DEF IInv, AskedOnce, Admitted
  <2> HIDE DEF e
  <2>7. CASE p.session \in S
    BY <2>1, <2>5, <2>6, <2>7
  <2>8. CASE p.session \notin S
    BY <2>1, <2>3, <2>4, <2>5, <2>6, <2>8
  <2> QED
    BY <2>7, <2>8
<1>7. OnRecord'
    BY <1>6 DEF OnRecord
<1>8. NoOrphanStream'
    BY <1>6, KindFacts DEF NoOrphanStream, Messages
<1>9. SnapshotsEnd'
  <2> SUFFICES ASSUME NEW k \in Kinds, NEW i \in ServerIds, mapping'[k].server_to_client[i] # None
               PROVE  \E q \in bridge' : q.id = i /\ KindOf(q.msg) = k
    BY DEF SnapshotsEnd
  <2> DEFINE e == mapping[k].server_to_client[i]
  <2>1. e # None /\ e.session \notin S
    BY <1>1
  <2>2. PICK p \in bridge : p.id = i /\ KindOf(p.msg) = k
    BY <2>1 DEF IInv, SnapshotsEnd
  <2>3. e.session = p.session
    BY <2>1, <2>2 DEF IInv, OnRecord
  <2> QED
    BY <2>1, <2>2, <2>3
<1> QED
    BY <1>1, <1>3, <1>4, <1>5, <1>7, <1>8, <1>9 DEF IInv, AnswersArrive

\* A client that had logged on is gone.
LEMMA DisconnectedStep == ASSUME IInv, NEW s \in Sessions, Disconnected(s) PROVE IInv'
<1> DEFINE k == "md_req_id"
           told(q) == q.id \in RequestsOf(mapping[k], {s}) /\ q.type # "REJECTED"
           after(q) == IF told(q) THEN [q EXCEPT !.type = "UNSUBSCRIBE"] ELSE q
<1>1. /\ Service!Finish({s}) /\ up' = up /\ UNCHANGED next_request_id /\ answer' = None
      /\ mapping' = [j \in Kinds |-> clear_req_ids(mapping[j], {s})]
      /\ bridge' = {after(q) : q \in bridge}
    BY DEF Disconnected, Service!End, UnsubscribeAll
<1>2. k \in Kinds /\ mapping[k] \in Mapping /\ Paired(mapping[k]) /\ up \in BOOLEAN
    BY DEF IInv, TypeOK, MappingsPaired, Kinds
<1>3. ASSUME NEW q \in bridge
      PROVE  q.id \in RequestsOf(mapping[k], {s}) <=>
               mapping[k].server_to_client[q.id] # None /\ mapping[k].server_to_client[q.id].session = s
    BY <1>2, BridgeFacts, RequestsOfFacts DEF IInv
\* What is unsubscribed is market data of s.
<1>4. ASSUME NEW q \in bridge, told(q) PROVE q.session = s
  <2>1. q.id \in ServerIds /\ mapping[k].server_to_client[q.id] # None
        /\ mapping[k].server_to_client[q.id].session = s
    BY <1>3, <1>4, BridgeFacts DEF IInv
  <2>2. PICK p \in bridge : p.id = q.id /\ KindOf(p.msg) = k
    BY <1>2, <2>1 DEF IInv, SnapshotsEnd
  <2>3. p = q
    BY <2>2 DEF IInv, AskedOnce
  <2> QED
    BY <2>1, <2>2, <2>3 DEF IInv, OnRecord
\* All streams of s are.
<1>5. ASSUME NEW q \in bridge, q.session = s, q.msg = "MarketData", q.type = "SNAPSHOT_UPDATES"
      PROVE  told(q)
    BY <1>3, <1>5 DEF IInv, NoOrphanStream
<1> HIDE DEF told
<1>6. ASSUME NEW q \in bridge
      PROVE  /\ after(q) \in Request /\ after(q).msg = q.msg /\ after(q).id = q.id
             /\ after(q).session = q.session /\ after(q).req_id = q.req_id
             /\ after(q).type = IF told(q) THEN "UNSUBSCRIBE" ELSE q.type
    BY BridgeFacts DEF IInv, Request
<1> HIDE DEF after
<1>7. bridge' \subseteq Request
    BY <1>1, <1>6
<1>8. ASSUME NEW q \in bridge'
      PROVE  \E p \in bridge :
               /\ q.msg = p.msg /\ q.id = p.id /\ q.session = p.session /\ q.req_id = p.req_id
               /\ \/ q.type = p.type
                  \/ p.session \in {s} /\ q.type = "UNSUBSCRIBE"
               /\ p.session \in {s} => ~(q.msg = "MarketData" /\ q.type = "SNAPSHOT_UPDATES")
  <2>1. PICK p \in bridge : q = after(p)
    BY <1>1
  <2> QED
    BY <1>4, <1>5, <1>6, <2>1
<1>9. \A p, q \in bridge' : p.id = q.id => p = q
    BY <1>1, <1>6 DEF IInv, AskedOnce
<1>10. \A p \in bridge : \E q \in bridge' : q.id = p.id /\ q.msg = p.msg
    BY <1>1, <1>6
<1> QED
    BY <1>1, <1>2, <1>7, <1>8, <1>9, <1>10, DeathStep

\* The bridge is lost, and with it all that it held.
LEMMA BridgeLostStep == ASSUME IInv, BridgeLost PROVE IInv'
<1>1. PICK N \in SUBSET {s \in Sessions : phase[s] = "new"} : Service!Finish(Service!Inside \cup N)
    BY DEF BridgeLost, Service!Drop
<1> DEFINE S == Service!Inside
           D == S \cup N
<1>2. /\ up' = FALSE /\ UNCHANGED next_request_id /\ answer' = None /\ bridge' = {}
      /\ mapping' = [k \in Kinds |-> clear_req_ids(mapping[k], S)]
    BY DEF BridgeLost, Service!Drop
<1>3. S = {s \in Sessions : phase[s] \in {"joining", "active", "leaving"}}
    BY DEF Service!Inside
<1>4. /\ D \in SUBSET Sessions /\ S \in SUBSET D /\ Service!Finish(D)
      /\ \A s \in D \ S : phase[s] = "new"
    BY <1>1, <1>3
\* Whatever is on record was asked by a session that was inside.
<1>5. ASSUME NEW p \in bridge, mapping[KindOf(p.msg)].server_to_client[p.id] # None
      PROVE  p.session \in S
  <2>1. KindOf(p.msg) \in Kinds /\ p.id \in ServerIds /\ p.session \in Sessions
    BY BridgeFacts DEF IInv
  <2>2. phase[p.session] \in {"active", "leaving"}
    BY <1>5, <2>1 DEF IInv, OnRecord, TheDeadAreForgotten
  <2> QED
    BY <1>3, <2>1, <2>2
<1> HIDE DEF S, D
<1> QED
    BY <1>2, <1>4, <1>5, DeathStep

-----------------------------------------------------------------------------
(* The invariant holds.                                                    *)

LEMMA InitIInv == Init => IInv
<1> SUFFICES ASSUME Init PROVE IInv
    OBVIOUS
<1>1. /\ phase = [s \in Sessions |-> "new"] /\ holder = [u \in Users |-> None] /\ up = FALSE
      /\ mapping = [k \in Kinds |-> EmptyMapping] /\ next_request_id = 0
      /\ bridge = {} /\ answer = None
    BY DEF Init, Service!Init
<1>2. \A k \in Kinds, i \in ServerIds : mapping[k].server_to_client[i] = None
    BY <1>1 DEF EmptyMapping
<1>3. mapping \in [Kinds -> Mapping] /\ MappingsPaired
    BY <1>1, EmptyFacts DEF MappingsPaired
<1>4. TypeOK
  <2>1. next_request_id \in 0 .. MaxRequests
    BY <1>1, ServerIdsAssumption
  <2> QED
    BY <1>1, <1>3, <2>1 DEF TypeOK
<1> QED
    BY <1>1, <1>2, <1>3, <1>4 DEF IInv, TheDeadAreForgotten, AskedOnce, OnRecord, SnapshotsEnd,
                            NoOrphanStream, AnswersArrive

\* A client's request, passed on or refused.
LEMMA ClientRequestStep ==
    ASSUME IInv, NEW msg \in Messages, NEW s \in Sessions, NEW r \in ReqIds, NEW type \in Types,
           ClientRequest(msg, s, r, type)
    PROVE  IInv'
<1> DEFINE t == get_subscription_request_type(msg, type)
<1>1. CASE Accepted(msg, s, r, t) /\ Dispatch(msg, s, r, t)
  <2>1. phase[s] = "active" /\ answer' = None /\ UNCHANGED service
    BY DEF ClientRequest
  <2> HIDE DEF t
  <2> QED
    BY <1>1, <2>1, DispatchStep
<1>2. CASE UNCHANGED <<mapping, next_request_id, bridge>>
  <2>1. /\ UNCHANGED <<up, phase, holder>> /\ answer' = None
    BY DEF ClientRequest, service
  <2> QED
    BY <1>2, <2>1, PhaseStep DEF IInv, TypeOK
<1> QED
    BY <1>1, <1>2 DEF ClientRequest

\* Every step keeps the invariant: one case per kind of step.
LEMMA NextIInv == IInv /\ [Next]_vars => IInv'
<1> SUFFICES ASSUME IInv, [Next]_vars PROVE IInv'
    OBVIOUS
<1>1. CASE UNCHANGED vars
    BY <1>1 DEF vars, service, IInv, TypeOK, MappingsPaired, TheDeadAreForgotten, AskedOnce,
                OnRecord, SnapshotsEnd, NoOrphanStream, AnswersArrive
<1>2. CASE LogonStep
    BY <1>2, LogonStepStep
<1>3. ASSUME NEW s \in Sessions, ClientStep(s) PROVE IInv'
  <2>1. CASE Disconnected(s)
    BY <2>1, DisconnectedStep
  <2>2. CASE \E r \in ReqIds, type \in Types, msg \in Messages : ClientRequest(msg, s, r, type)
    BY <2>2, ClientRequestStep
  <2> QED
    BY <1>3, <2>1, <2>2 DEF ClientStep, SecurityListRequest, SecurityDefinitionRequest,
                            SecurityStatusRequest, MarketDataRequest, Messages
<1>4. ASSUME NEW q \in bridge, q.type # "REJECTED", BridgeStep(q) PROVE IInv'
  <2>1. CASE \E failure \in BOOLEAN : FinalAnswer(q, failure)
    BY <1>4, <2>1, FinalAnswerStep
  <2>2. CASE MarketDataIncrementalRefresh(q)
    BY <1>4, <2>2, UpdateStep
  <2>3. CASE BusinessMessageReject(q)
    BY <1>4, <2>3, RejectStep
  <2> QED
    BY <1>4, <2>1, <2>2, <2>3 DEF BridgeStep, SecurityList, SecurityDefinition, SecurityStatus,
                                  MarketDataRequestReject, MarketDataSnapshotFullRefresh
<1>5. CASE BridgeLost
    BY <1>5, BridgeLostStep
<1> QED
    BY <1>1, <1>2, <1>3, <1>4, <1>5 DEF Next

\* The invariant, for any users, sessions and request ids.
THEOREM Invariant == Spec => []IInv
    BY InitIInv, NextIInv, PTL DEF Spec

\* All state of the request handlers stays in its domain.
THEOREM TypeCorrect == Spec => []TypeOK
<1>1. IInv => TypeOK
    BY DEF IInv
<1> QED
    BY <1>1, Invariant, PTL

\* remove_req_id and clear_req_ids never leave half an entry (controller.cpp).
THEOREM MappingsArePaired == Spec => []MappingsPaired
<1>1. IInv => MappingsPaired
    BY DEF IInv
<1> QED
    BY <1>1, Invariant, PTL

\* After a session died, nothing is on record for it, whatever was in flight.
THEOREM NothingIsKeptOfTheDead == Spec => []TheDeadAreForgotten
<1>1. IInv => TheDeadAreForgotten
    BY DEF IInv
<1> QED
    BY <1>1, Invariant, PTL

\* Every answer goes to the client that asked, under its id.
THEOREM AnswersReachWhoAsked == Spec => []AnswersArrive
<1>1. IInv => AnswersArrive
    BY DEF IInv
<1> QED
    BY <1>1, Invariant, PTL

\* What is on record is what the bridge is busy with, or refused.
THEOREM RequestsAreForgotten == Spec => []SnapshotsEnd
<1>1. IInv => SnapshotsEnd
    BY DEF IInv
<1> QED
    BY <1>1, Invariant, PTL

\* Every stream of market data has a client to receive it.
THEOREM MarketDataHasClients == Spec => []NoOrphanStream
<1>1. IInv => NoOrphanStream
    BY DEF IInv
<1> QED
    BY <1>1, Invariant, PTL

-----------------------------------------------------------------------------
(* The requests on record are those that RequestService allows.  The shape of *)
(* the argument: a step changes at most one entry of the record, or takes off *)
(* all entries of the sessions that it ends.                                  *)

\* What a step may do, as RequestService has it.
Refined == Service!RequestNext \/ UNCHANGED Service!requestVars

LEMMA RecordIs ==
    record = Records(Kinds, mapping) /\ record' = Records(Kinds, mapping')
BY DEF record, Records

\* A step that concerns neither sessions nor what the ids stand for.
LEMMA SameStep ==
    ASSUME UNCHANGED service,
           \A k \in Kinds, i \in ServerIds :
             mapping'[k].server_to_client[i] = mapping[k].server_to_client[i]
    PROVE  Refined
<1>1. record' = record
    BY RecordIs, RecordsAlike
<1> QED
    BY <1>1 DEF Refined, Service!requestVars, Service!vars, service

\* A new request of an active session goes on record.
LEMMA GoesOnRecord ==
    ASSUME IInv, UNCHANGED service, NEW k0 \in Kinds, NEW id \in ServerIds, NEW e \in Entry,
           phase[e.session] = "active", ~exists(mapping[k0], e.session, e.req_id),
           mapping[k0].server_to_client[id] = None,
           \A k \in Kinds, i \in ServerIds :
             mapping'[k].server_to_client[i] =
               IF k = k0 /\ i = id THEN e ELSE mapping[k].server_to_client[i]
    PROVE  Refined
<1>1. /\ mapping[k0] \in Mapping /\ Paired(mapping[k0])
      /\ e.session \in Sessions /\ e.req_id \in ReqIds
    BY DEF IInv, TypeOK, MappingsPaired, Entry
<1>2. Added(Records(Kinds, mapping'), Records(Kinds, mapping), k0, id, e)
    BY <1>1, RecordsWith
<1>3. Added(record', record, k0, id, e)
    BY <1>2, RecordIs
<1>4. Service!Record(k0, id, e.session, e.req_id) /\ record'[k0] # record[k0]
    BY <1>3 DEF Added, Entered, Service!Record, Service!Enter
<1>5. Service!RequestStep(k0)
    BY <1>1, <1>4 DEF Service!RequestStep
<1> QED
    BY <1>5 DEF Refined, Service!RequestNext, Service!vars, service

\* A request that is over goes off the record.
LEMMA ForgetStep ==
    ASSUME IInv, UNCHANGED service, NEW k0 \in Kinds, NEW id \in ServerIds,
           mapping[k0].server_to_client[id] # None,
           \A k \in Kinds, i \in ServerIds :
             mapping'[k].server_to_client[i] =
               IF k = k0 /\ i = id THEN None ELSE mapping[k].server_to_client[i]
    PROVE  Refined
<1>1. mapping[k0] \in Mapping
    BY DEF IInv, TypeOK
<1>2. Removed(Records(Kinds, mapping'), Records(Kinds, mapping), k0, id)
    BY <1>1, RecordsLess
<1>3. Removed(record', record, k0, id)
    BY <1>2, RecordIs
<1>4. Service!Forget(k0, id) /\ record'[k0] # record[k0]
    BY <1>3 DEF Removed, Entered, Service!Forget, Service!Enter
<1>5. Service!RequestStep(k0)
    BY <1>4 DEF Service!RequestStep
<1> QED
    BY <1>5 DEF Refined, Service!RequestNext, Service!vars, service

\* Sessions come and go: of those that had logged on, exactly the sessions S are done
\* by it, and exactly what is on record for them goes.
LEMMA ComeAndGoStep ==
    ASSUME IInv, NEW S \in SUBSET Sessions, Service!Next, ~UNCHANGED Service!vars,
           \A s \in Sessions : phase[s] \in Admitted => (phase'[s] = "done" <=> s \in S),
           \A k \in Kinds, i \in ServerIds :
             mapping'[k].server_to_client[i] =
               IF /\ mapping[k].server_to_client[i] # None
                  /\ mapping[k].server_to_client[i].session \in S
                 THEN None ELSE mapping[k].server_to_client[i]
    PROVE  Refined
<1>1. ASSUME NEW k \in Kinds, NEW i \in ServerIds
      PROVE  mapping'[k].server_to_client[i] =
               IF /\ mapping[k].server_to_client[i] # None
                  /\ phase'[mapping[k].server_to_client[i].session] = "done"
                 THEN None ELSE mapping[k].server_to_client[i]
    BY RecordFacts DEF IInv, TheDeadAreForgotten, Admitted
<1>2. \A k \in Kinds : mapping[k] \in Mapping
    BY DEF IInv, TypeOK
<1>3. Records(Kinds, mapping') = Without(Kinds, Records(Kinds, mapping), phase')
    BY <1>1, <1>2, RecordsWithout
<1>4. record' = Without(Kinds, record, phase')
    BY <1>3, RecordIs
<1>5. Service!ComeAndGo
    BY <1>4 DEF Service!ComeAndGo, Without
<1> QED
    BY <1>5 DEF Refined, Service!RequestNext

\* A client's request, passed on or refused.
LEMMA ClientRequestRefines ==
    ASSUME IInv, NEW msg \in Messages, NEW s \in Sessions, NEW r \in ReqIds,
           NEW type \in Types, ClientRequest(msg, s, r, type)
    PROVE  Refined
<1> DEFINE t  == get_subscription_request_type(msg, type)
           k0 == KindOf(msg)
           id == next_request_id'
<1>1. UNCHANGED service /\ phase[s] = "active" /\ k0 \in Kinds
    BY KindFacts DEF ClientRequest
<1>2. CASE Dispatch(msg, s, r, t)
  <2>1. /\ id \in ServerIds
        /\ exists(mapping[k0], s, r) => mapping' = mapping
        /\ ~exists(mapping[k0], s, r) =>
             \E e \in Entry :
               /\ e.session = s /\ e.req_id = r /\ e # None
               /\ \A k \in Kinds, i \in ServerIds :
                    mapping'[k].server_to_client[i] =
                      IF k = k0 /\ i = id THEN e ELSE mapping[k].server_to_client[i]
    BY <1>2, DispatchMapping
  <2>2. mapping[k0].server_to_client[id] = None
    <3>1. id = create_request_id
      BY <1>2 DEF Dispatch
    <3> QED
      BY <1>1, <2>1, <3>1, FreshIsFree
  <2>3. CASE exists(mapping[k0], s, r)
    BY <1>1, <2>1, <2>3, SameStep
  <2>4. CASE ~exists(mapping[k0], s, r)
    <3>1. PICK e \in Entry :
            /\ e.session = s /\ e.req_id = r /\ e # None
            /\ \A k \in Kinds, i \in ServerIds :
                 mapping'[k].server_to_client[i] =
                   IF k = k0 /\ i = id THEN e ELSE mapping[k].server_to_client[i]
      BY <2>1, <2>4
    <3> HIDE DEF k0, id
    <3> QED
      BY <1>1, <2>1, <2>2, <2>4, <3>1, GoesOnRecord
  <2> QED
    BY <2>3, <2>4
<1>3. CASE UNCHANGED mapping
    BY <1>1, <1>3, SameStep
<1> QED
    BY <1>2, <1>3 DEF ClientRequest

\* An answer that may end its request.
LEMMA FinalAnswerRefines ==
    ASSUME IInv, NEW q \in bridge, NEW failure \in BOOLEAN, FinalAnswer(q, failure)
    PROVE  Refined
<1> DEFINE k0 == KindOf(q.msg)
           e  == mapping[k0].server_to_client[q.id]
<1>1. UNCHANGED service /\ k0 \in Kinds /\ q.id \in ServerIds
    BY BridgeFacts DEF FinalAnswer, IInv
<1>2. \A k \in Kinds, i \in ServerIds :
        mapping'[k].server_to_client[i] =
          IF /\ k = k0 /\ i = q.id /\ mapping[k].server_to_client[i] # None
             /\ failure \/ ~mapping[k].server_to_client[i].keep_alive
            THEN None ELSE mapping[k].server_to_client[i]
    BY ForgetMapping DEF FinalAnswer
<1> HIDE DEF k0
<1>3. CASE e # None /\ (failure \/ ~e.keep_alive)
  <2>1. \A k \in Kinds, i \in ServerIds :
          mapping'[k].server_to_client[i] =
            IF k = k0 /\ i = q.id THEN None ELSE mapping[k].server_to_client[i]
    BY <1>2, <1>3
  <2> QED
    BY <1>1, <1>3, <2>1, ForgetStep
<1>4. CASE ~(e # None /\ (failure \/ ~e.keep_alive))
  <2>1. \A k \in Kinds, i \in ServerIds :
          mapping'[k].server_to_client[i] = mapping[k].server_to_client[i]
    BY <1>2, <1>4
  <2> QED
    BY <1>1, <2>1, SameStep
<1> QED
    BY <1>3, <1>4

\* Logons, logouts, and the end of sessions that were not logged on.
LEMMA LogonStepRefines == ASSUME IInv, LogonStep PROVE Refined
<1>1. UNCHANGED mapping /\ TypeOK
    BY DEF LogonStep, IInv
<1>2. CASE UNCHANGED Service!vars
  <2>1. UNCHANGED service
    BY <1>2 DEF Service!vars, service
  <2> QED
    BY <1>1, <2>1, SameStep
<1>3. CASE ~UNCHANGED Service!vars
  <2>1. Service!Next
    BY DEF LogonStep, Service!Next
  <2>2. \A s \in Sessions : phase[s] \in Admitted => phase'[s] # "done"
    <3>1. CASE Service!Raise
      BY <3>1 DEF Service!Raise, Admitted
    <3>2. ASSUME NEW t \in Sessions, NEW u \in Users, Service!Join(t, u)
          PROVE  \A s \in Sessions : phase[s] \in Admitted => phase'[s] # "done"
      BY <1>1, <3>2 DEF Service!Join, Admitted, TypeOK
    <3>3. ASSUME NEW t \in Sessions, Service!Admit(t) \/ Service!Retract(t)
          PROVE  \A s \in Sessions : phase[s] \in Admitted => phase'[s] # "done"
      BY <1>1, <3>3 DEF Service!Admit, Service!Retract, Admitted, TypeOK
    <3>4. ASSUME NEW t \in Sessions, phase[t] = "new", Service!End(t)
          PROVE  \A s \in Sessions : phase[s] \in Admitted => phase'[s] # "done"
      BY <1>1, <3>4, FinishFacts DEF Service!End, Admitted
    <3> QED
      BY <3>1, <3>2, <3>3, <3>4 DEF LogonStep
  <2>3. \A s \in Sessions : phase[s] \in Admitted => (phase'[s] = "done" <=> s \in {})
    BY <2>2
  <2>4. \A k \in Kinds, i \in ServerIds :
          mapping'[k].server_to_client[i] =
            IF /\ mapping[k].server_to_client[i] # None
               /\ mapping[k].server_to_client[i].session \in {}
              THEN None ELSE mapping[k].server_to_client[i]
    BY <1>1
  <2>5. {} \in SUBSET Sessions
    OBVIOUS
  <2> QED
    BY <1>3, <2>1, <2>3, <2>4, <2>5, ComeAndGoStep
<1> QED
    BY <1>2, <1>3

\* A client that had logged on is gone.
LEMMA DisconnectedRefines ==
    ASSUME IInv, NEW s \in Sessions, Disconnected(s)
    PROVE  Refined
<1>1. /\ TypeOK /\ Service!End(s) /\ phase[s] # "done"
      /\ mapping' = [k \in Kinds |-> clear_req_ids(mapping[k], {s})]
    BY DEF Disconnected, IInv
<1>2. \A t \in Sessions : phase'[t] = IF t \in {s} THEN "done" ELSE phase[t]
    BY <1>1, FinishFacts DEF Service!End
<1>3. Service!Next /\ ~UNCHANGED Service!vars
    BY <1>1, <1>2 DEF Service!Next, Service!vars
<1>4. \A k \in Kinds, i \in ServerIds :
        mapping'[k].server_to_client[i] =
          IF /\ mapping[k].server_to_client[i] # None
             /\ mapping[k].server_to_client[i].session \in {s}
            THEN None ELSE mapping[k].server_to_client[i]
    BY <1>1, ClearMapping
<1>5. \A t \in Sessions : phase[t] \in Admitted => (phase'[t] = "done" <=> t \in {s})
    BY <1>2 DEF Admitted
<1> QED
    BY <1>3, <1>4, <1>5, ComeAndGoStep

\* The bridge is lost, and everybody with it.
LEMMA BridgeLostRefines == ASSUME IInv, BridgeLost PROVE Refined
<1> DEFINE S == Service!Inside
<1>1. /\ TypeOK /\ up /\ Service!Drop
      /\ mapping' = [k \in Kinds |-> clear_req_ids(mapping[k], S)]
    BY DEF BridgeLost, IInv
<1>2. S = {s \in Sessions : phase[s] \in {"joining", "active", "leaving"}}
    BY DEF Service!Inside
<1>3. PICK N \in SUBSET {s \in Sessions : phase[s] = "new"} : Service!Finish(S \cup N)
    BY <1>1 DEF Service!Drop
<1> HIDE DEF S
<1>4. S \in SUBSET Sessions /\ S \cup N \in SUBSET Sessions
    BY <1>2
<1>5. \A t \in Sessions : phase'[t] = IF t \in S \cup N THEN "done" ELSE phase[t]
    BY <1>1, <1>3, <1>4, FinishFacts
<1>6. Service!Next /\ ~UNCHANGED Service!vars
    BY <1>1 DEF Service!Next, Service!Drop, Service!vars
<1>7. \A k \in Kinds, i \in ServerIds :
        mapping'[k].server_to_client[i] =
          IF /\ mapping[k].server_to_client[i] # None
             /\ mapping[k].server_to_client[i].session \in S
            THEN None ELSE mapping[k].server_to_client[i]
    BY <1>1, <1>4, ClearMapping
<1>8. \A t \in Sessions : phase[t] \in Admitted => (phase'[t] = "done" <=> t \in S)
    BY <1>2, <1>5 DEF Admitted
<1> QED
    BY <1>4, <1>6, <1>7, <1>8, ComeAndGoStep

\* At first nothing is on record.
LEMMA InitRefines == Init => Service!RequestInit
<1> SUFFICES ASSUME Init PROVE Service!RequestInit
    OBVIOUS
<1>1. Service!Init /\ mapping = [k \in Kinds |-> EmptyMapping]
    BY DEF Init
<1>2. \A k \in Kinds : Requests(mapping[k]) = [id \in ServerIds |-> None]
    BY <1>1 DEF Requests, EmptyMapping
<1>3. record = [k \in Kinds |-> [id \in ServerIds |-> None]]
    BY <1>2 DEF record
<1> QED
    BY <1>1, <1>3 DEF Service!RequestInit

\* Every step is one that RequestService allows, or none for it.
LEMMA NextRefines == IInv /\ [Next]_vars => [Service!RequestNext]_Service!requestVars
<1> SUFFICES ASSUME IInv, [Next]_vars PROVE Refined
    BY DEF Refined
<1>1. CASE UNCHANGED vars
    BY <1>1, SameStep DEF vars
<1>2. CASE LogonStep
    BY <1>2, LogonStepRefines
<1>3. ASSUME NEW s \in Sessions, ClientStep(s) PROVE Refined
  <2>1. CASE Disconnected(s)
    BY <2>1, DisconnectedRefines
  <2>2. ASSUME NEW r \in ReqIds, NEW type \in Types, NEW msg \in Messages,
               ClientRequest(msg, s, r, type)
        PROVE  Refined
    BY <2>2, ClientRequestRefines
  <2> QED
    BY <1>3, <2>1, <2>2 DEF ClientStep, SecurityListRequest, SecurityDefinitionRequest,
                            SecurityStatusRequest, MarketDataRequest, Messages
<1>4. ASSUME NEW q \in bridge, BridgeStep(q) PROVE Refined
  <2>1. CASE \E failure \in BOOLEAN : FinalAnswer(q, failure)
    BY <2>1, FinalAnswerRefines
  <2>2. CASE MarketDataIncrementalRefresh(q) \/ BusinessMessageReject(q)
    BY <2>2, SameStep DEF MarketDataIncrementalRefresh, BusinessMessageReject
  <2> QED
    BY <1>4, <2>1, <2>2 DEF BridgeStep, SecurityList, SecurityDefinition, SecurityStatus,
                            MarketDataRequestReject, MarketDataSnapshotFullRefresh
<1>5. CASE BridgeLost
    BY <1>5, BridgeLostRefines
<1> QED
    BY <1>1, <1>2, <1>3, <1>4, <1>5 DEF Next

\* The handlers implement RequestService: a step puts one new request of an active session
\* on record, takes one off, or takes off all requests of the sessions that it ends and
\* nobody else's.
THEOREM RequestsAreKept == Spec => ImplementsRequestService
    BY Invariant, InitRefines, NextRefines, PTL DEF Spec, ImplementsRequestService, Service!RequestSpec

=============================================================================
