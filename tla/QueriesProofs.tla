---------------------------- MODULE QueriesProofs ----------------------------
(***************************************************************************)
(* Proofs about Queries, for any users, sessions and request ids, and any   *)
(* bound on pending requests.                                              *)
(***************************************************************************)
EXTENDS Queries, ReqIdsProofs

USE DEF exists

-----------------------------------------------------------------------------
(* The inductive invariant.                                                *)

LoggedOn == {"joining", "active", "leaving"}
Admitted == {"active", "leaving"}

\* The registry of users: who is logged on has one user, which nobody else has.
OneHolder ==
    /\ \A u \in Users : holder[u] # None => phase[holder[u]] \in LoggedOn
    /\ \A s \in Sessions : phase[s] \in LoggedOn => \E u \in Users : holder[u] = s
    /\ \A u, v \in Users : holder[u] # None /\ holder[u] = holder[v] => u = v

\* What is on record under an id, which is made of a user and its request, is that
\* request, of a session that has the user now or that is gone.
RecordsAreTheUsers ==
    \A k \in Kinds, id \in ServerIds :
      LET e == mapping[k].server_to_client[id]
      IN  e # None =>
            /\ e.req_id = id[2]
            /\ phase[e.session] \in Admitted \cup {"done"}
            /\ phase[e.session] \in Admitted => holder[id[1]] = e.session

\* What the bridge holds was asked by a session that had logged on; a unique request
\* is the only one of its kind under its id.
RequestsAreSent ==
    \A q \in bridge :
      /\ phase[q.session] \in Admitted \cup {"done"}
      /\ q.req_id = q.id[2]
      /\ q.unique => \A p \in bridge : p.kind = q.kind /\ p.id = q.id => p = q

\* The client has a right to the next answer.
Awaits(q) ==
    /\ q.req_id # Empty
    /\ q.type \in {"SNAPSHOT", "SNAPSHOT_UPDATES"}
    /\ ~(q.kind = "trade_request_id" /\ q.type = "SNAPSHOT" /\ q.acknowledged)

\* A request with an answer to come is on record, and a subscription as such.
OnRecord ==
    \A q \in bridge :
      q.unique /\ Awaits(q) /\ phase[q.session] \in Admitted =>
        /\ Found(q) # None /\ Found(q).session = q.session
        /\ q.type = "SNAPSHOT_UPDATES" => Found(q).keep_alive

\* What is on record is a request of the bridge, if kept alive a subscription or one
\* that the bridge has refused.
RecordsAreRequests ==
    \A k \in Kinds, id \in ServerIds :
      LET e == mapping[k].server_to_client[id]
      IN  e # None /\ id[2] # Empty =>
            \E q \in bridge :
              /\ q.kind = k /\ q.id = id
              /\ e.keep_alive => q.type \in {"SNAPSHOT_UPDATES", "REFUSED"}

IInv ==
    /\ TypeOK
    /\ OneHolder
    /\ QueriesPaired
    /\ TheDeadAreForgotten
    /\ RecordsAreTheUsers
    /\ RequestsAreSent
    /\ OnRecord
    /\ RecordsAreRequests
    /\ AnswersStayWithTheUser
    /\ AnswersArrive

\* An id has a user and a request.
LEMMA IdFacts ==
    ASSUME NEW id \in ServerIds
    PROVE  id[1] \in Users /\ id[2] \in ReqIds
BY ServerIdsAssumption

\* A session that is logged on has a party, and is the one that has it.
LEMMA PartyFacts ==
    ASSUME OneHolder, NEW s \in Sessions, phase[s] \in LoggedOn
    PROVE  client_id(s) \in Users /\ holder[client_id(s)] = s
<1>1. \E u \in Users : holder[u] = s
    BY DEF OneHolder
<1> QED
    BY <1>1 DEF client_id

-----------------------------------------------------------------------------
(* Mappings that also have requests without an id, recorded one way.       *)

\* Named keeps the records with an id, and nothing else.
LEMMA NamedFacts ==
    ASSUME NEW m \in Mapping
    PROVE  /\ Named(m) \in Mapping
           /\ Named(m).client_to_server = m.client_to_server
           /\ \A i \in ServerIds :
                Named(m).server_to_client[i] =
                  IF i[2] = Empty THEN None ELSE m.server_to_client[i]
BY DEF Named, Mapping

\* Every record is under an id with the request that it is of.
Labelled(m) ==
    \A i \in ServerIds : m.server_to_client[i] # None => m.server_to_client[i].req_id = i[2]

\* Where the named records are paired, no request without an id has been given one.
LEMMA NamedPaired ==
    ASSUME NEW m \in Mapping, Paired(Named(m)), Labelled(m)
    PROVE  /\ \A i \in ServerIds : m.server_to_client[i] # None /\ i[2] # Empty =>
                m.client_to_server[m.server_to_client[i].session]
                  [m.server_to_client[i].req_id] = i
           /\ \A s \in Sessions, r \in ReqIds : exists(m, s, r) =>
                LET i == m.client_to_server[s][r]
                IN  /\ i \in ServerIds /\ i[2] # Empty /\ r = i[2]
                    /\ m.server_to_client[i] # None
                    /\ m.server_to_client[i].session = s
<1>1. \A i \in ServerIds : m.server_to_client[i] # None /\ i[2] # Empty =>
        m.client_to_server[m.server_to_client[i].session][m.server_to_client[i].req_id] = i
    BY NamedFacts DEF Paired
<1>2. ASSUME NEW s \in Sessions, NEW r \in ReqIds, exists(m, s, r)
      PROVE  LET i == m.client_to_server[s][r]
             IN  /\ i \in ServerIds /\ i[2] # Empty /\ r = i[2]
                 /\ m.server_to_client[i] # None
                 /\ m.server_to_client[i].session = s
  <2> DEFINE i == m.client_to_server[s][r]
  <2>1. i \in ServerIds
    BY <1>2, MappingFacts
  <2>2. /\ Named(m).server_to_client[i] # None
        /\ Named(m).server_to_client[i].session = s /\ Named(m).server_to_client[i].req_id = r
    BY <1>2, NamedFacts DEF Paired
  <2> HIDE DEF i
  <2>3. i[2] # Empty /\ m.server_to_client[i] = Named(m).server_to_client[i]
    BY <2>1, <2>2, NamedFacts
  <2> QED
    BY <2>1, <2>2, <2>3 DEF i, Labelled
<1> QED
    BY <1>1, <1>2

\* The converse.
LEMMA PairedIfNamed ==
    ASSUME NEW m \in Mapping,
           \A i \in ServerIds : m.server_to_client[i] # None /\ i[2] # Empty =>
             m.client_to_server[m.server_to_client[i].session][m.server_to_client[i].req_id] = i,
           \A s \in Sessions, r \in ReqIds : exists(m, s, r) =>
             LET i == m.client_to_server[s][r]
             IN  /\ i \in ServerIds /\ i[2] # Empty /\ m.server_to_client[i] # None
                 /\ m.server_to_client[i].session = s /\ m.server_to_client[i].req_id = r
    PROVE  Paired(Named(m))
BY NamedFacts DEF Paired

\* Recording a request, with or without an id.
LEMMA RecordFacts ==
    ASSUME NEW m \in Mapping, Paired(Named(m)), Labelled(m),
           NEW s \in Sessions, NEW r \in ReqIds, NEW id \in ServerIds, id[2] = r,
           NEW keep_alive \in BOOLEAN, ~exists(m, s, r),
           r # Empty => m.server_to_client[id] = None
    PROVE  LET n == Record(m, s, r, id, keep_alive)
               e == [session |-> s, req_id |-> r, keep_alive |-> keep_alive]
           IN  /\ n \in Mapping /\ Paired(Named(n)) /\ Labelled(n)
               /\ e \in Entry /\ e # None
               /\ \A i \in ServerIds :
                    n.server_to_client[i] =
                      IF i = id /\ m.server_to_client[id] = None
                        THEN e ELSE m.server_to_client[i]
<1> DEFINE n == Record(m, s, r, id, keep_alive)
           e == [session |-> s, req_id |-> r, keep_alive |-> keep_alive]
<1>1. e \in Entry /\ e # None /\ e.session = s /\ e.req_id = r
    BY NoneIsNoEntry DEF Entry
<1>2. /\ n \in Mapping
      /\ \A i \in ServerIds :
           n.server_to_client[i] =
             IF i = id /\ m.server_to_client[id] = None THEN e ELSE m.server_to_client[i]
      /\ \A t \in Sessions, q \in ReqIds :
           n.client_to_server[t][q] =
             IF r # Empty /\ t = s /\ q = r THEN id ELSE m.client_to_server[t][q]
  <2>1. CASE r = Empty
    <3>1. n = [m EXCEPT !.server_to_client[id] = IF @ = None THEN e ELSE @]
      BY <2>1 DEF Record
    <3> HIDE DEF e, n
    <3> QED
      BY <1>1, <2>1, <3>1 DEF Mapping
  <2>2. CASE r # Empty
    <3>1. n = add_req_id(m, s, r, id, keep_alive)
      BY <2>2 DEF Record
    <3> QED
      BY <2>2, <3>1, AddFacts
  <2> QED
    BY <2>1, <2>2
<1> HIDE DEF n, e
<1>3. Labelled(n)
    BY <1>1, <1>2 DEF Labelled
<1>4. \A i \in ServerIds : n.server_to_client[i] # None /\ i[2] # Empty =>
        n.client_to_server[n.server_to_client[i].session][n.server_to_client[i].req_id] = i
  <2> SUFFICES ASSUME NEW i \in ServerIds, n.server_to_client[i] # None, i[2] # Empty
               PROVE  n.client_to_server[n.server_to_client[i].session]
                        [n.server_to_client[i].req_id] = i
    OBVIOUS
  <2>1. CASE i = id
    BY <1>1, <1>2, <2>1
  <2>2. CASE i # id
    <3>1. /\ n.server_to_client[i] = m.server_to_client[i]
          /\ m.server_to_client[i].session \in Sessions /\ m.server_to_client[i].req_id \in ReqIds
      BY <1>2, <2>2, MappingFacts
    <3>2. m.client_to_server[m.server_to_client[i].session][m.server_to_client[i].req_id] = i
      BY <3>1, NamedPaired
    <3>3. i # None
      BY NoneIsNoEntry
    <3> QED
      BY <1>2, <3>1, <3>2, <3>3
  <2> QED
    BY <2>1, <2>2
<1>5. ASSUME NEW t \in Sessions, NEW q \in ReqIds, exists(n, t, q)
      PROVE  LET i == n.client_to_server[t][q]
             IN  /\ i \in ServerIds /\ i[2] # Empty /\ n.server_to_client[i] # None
                 /\ n.server_to_client[i].session = t /\ n.server_to_client[i].req_id = q
  <2>1. CASE r # Empty /\ t = s /\ q = r
    BY <1>1, <1>2, <2>1
  <2>2. CASE ~(r # Empty /\ t = s /\ q = r)
    <3> DEFINE i == m.client_to_server[t][q]
    <3>1. n.client_to_server[t][q] = i
      BY <1>2, <2>2
    <3>2. /\ i \in ServerIds /\ i[2] # Empty /\ q = i[2]
          /\ m.server_to_client[i] # None /\ m.server_to_client[i].session = t
      BY <1>5, <3>1, NamedPaired
    <3> HIDE DEF i
    <3>3. n.server_to_client[i] = m.server_to_client[i]
      BY <1>2, <3>2
    <3> QED
      BY <3>1, <3>2, <3>3 DEF Labelled
  <2> QED
    BY <2>1, <2>2
<1>6. Paired(Named(n))
    BY <1>2, <1>4, <1>5, PairedIfNamed
<1> QED
    BY <1>1, <1>2, <1>3, <1>6 DEF n, e

\* Forgetting one.
LEMMA ForgetFacts ==
    ASSUME NEW m \in Mapping, Paired(Named(m)), Labelled(m), NEW id \in ServerIds
    PROVE  LET n == remove_req_id(m, id)
           IN  /\ n \in Mapping /\ Paired(Named(n)) /\ Labelled(n)
               /\ \A i \in ServerIds :
                    n.server_to_client[i] = IF i = id THEN None ELSE m.server_to_client[i]
<1> DEFINE n == remove_req_id(m, id)
<1>1. /\ n \in Mapping
      /\ \A i \in ServerIds :
           n.server_to_client[i] = IF i = id THEN None ELSE m.server_to_client[i]
      /\ \A s \in Sessions, r \in ReqIds :
           n.client_to_server[s][r] =
             IF /\ m.server_to_client[id] # None
                /\ s = m.server_to_client[id].session /\ r = m.server_to_client[id].req_id
               THEN None ELSE m.client_to_server[s][r]
    BY RemoveFacts
<1> HIDE DEF n
<1>2. Labelled(n)
    BY <1>1 DEF Labelled
<1>3. \A i \in ServerIds : n.server_to_client[i] # None /\ i[2] # Empty =>
        n.client_to_server[n.server_to_client[i].session][n.server_to_client[i].req_id] = i
  <2> SUFFICES ASSUME NEW i \in ServerIds, n.server_to_client[i] # None, i[2] # Empty
               PROVE  n.client_to_server[n.server_to_client[i].session]
                        [n.server_to_client[i].req_id] = i
    OBVIOUS
  <2> DEFINE e == m.server_to_client[i]
             d == m.server_to_client[id]
  <2>1. /\ i # id /\ n.server_to_client[i] = e /\ e # None
        /\ e.session \in Sessions /\ e.req_id \in ReqIds
    BY <1>1, MappingFacts
  <2>2. m.client_to_server[e.session][e.req_id] = i
    BY <2>1, NamedPaired
\* Two records of one request would be under ids of the same request: one id.
  <2>3. ~(d # None /\ e.session = d.session /\ e.req_id = d.req_id)
    <3>1. d # None => d.req_id = id[2]
      BY DEF Labelled
    <3>2. e.req_id = i[2]
      BY <2>1 DEF Labelled
    <3>3. d # None /\ id[2] # Empty => m.client_to_server[d.session][d.req_id] = id
      BY NamedPaired
    <3> HIDE DEF e, d
    <3> QED
      BY <2>1, <2>2, <3>1, <3>2, <3>3
  <2> HIDE DEF e
  <2> QED
    BY <1>1, <2>1, <2>2, <2>3
<1>4. ASSUME NEW t \in Sessions, NEW q \in ReqIds, exists(n, t, q)
      PROVE  LET i == n.client_to_server[t][q]
             IN  /\ i \in ServerIds /\ i[2] # Empty /\ n.server_to_client[i] # None
                 /\ n.server_to_client[i].session = t /\ n.server_to_client[i].req_id = q
  <2> DEFINE i == m.client_to_server[t][q]
  <2>1. n.client_to_server[t][q] = i /\ exists(m, t, q)
    BY <1>1, <1>4
  <2>2. /\ i \in ServerIds /\ i[2] # Empty /\ q = i[2]
        /\ m.server_to_client[i] # None /\ m.server_to_client[i].session = t
    BY <2>1, NamedPaired
  <2>3. m.server_to_client[i].req_id = q
    BY <2>2 DEF Labelled
  <2>4. i # id
    BY <1>1, <1>4, <2>2, <2>3
  <2> HIDE DEF i
  <2> QED
    BY <1>1, <2>1, <2>2, <2>3, <2>4
<1> QED
    BY <1>1, <1>2, <1>3, <1>4, PairedIfNamed DEF n

\* Forgetting the requests of sessions: those without an id stay.
LEMMA ClearedFacts ==
    ASSUME NEW m \in Mapping, Paired(Named(m)), Labelled(m), NEW S \in SUBSET Sessions
    PROVE  LET n == clear_req_ids(m, S)
           IN  /\ n \in Mapping /\ Paired(Named(n)) /\ Labelled(n)
               /\ \A i \in ServerIds :
                    n.server_to_client[i] =
                      IF /\ i[2] # Empty /\ m.server_to_client[i] # None
                         /\ m.server_to_client[i].session \in S
                        THEN None ELSE m.server_to_client[i]
<1> DEFINE n == clear_req_ids(m, S)
<1>1. RequestsOf(Named(m), S) = RequestsOf(m, S)
    BY NamedFacts DEF RequestsOf
<1>2. \A i \in ServerIds :
        i \in RequestsOf(m, S) <=>
          /\ i[2] # Empty /\ m.server_to_client[i] # None
          /\ m.server_to_client[i].session \in S
    BY <1>1, NamedFacts, RequestsOfFacts
<1>3. /\ n \in Mapping
      /\ \A i \in ServerIds :
           n.server_to_client[i] =
             IF i \in RequestsOf(m, S) THEN None ELSE m.server_to_client[i]
      /\ \A s \in Sessions, r \in ReqIds :
           n.client_to_server[s][r] = IF s \in S THEN None ELSE m.client_to_server[s][r]
    BY DEF clear_req_ids, Mapping
<1> HIDE DEF n
<1>4. \A i \in ServerIds :
        n.server_to_client[i] =
          IF /\ i[2] # Empty /\ m.server_to_client[i] # None
             /\ m.server_to_client[i].session \in S
            THEN None ELSE m.server_to_client[i]
    BY <1>2, <1>3
<1>5. Labelled(n)
    BY <1>4 DEF Labelled
<1>6. \A i \in ServerIds : n.server_to_client[i] # None /\ i[2] # Empty =>
        n.client_to_server[n.server_to_client[i].session][n.server_to_client[i].req_id] = i
  <2> SUFFICES ASSUME NEW i \in ServerIds, n.server_to_client[i] # None, i[2] # Empty
               PROVE  n.client_to_server[n.server_to_client[i].session]
                        [n.server_to_client[i].req_id] = i
    OBVIOUS
  <2> DEFINE e == m.server_to_client[i]
  <2>1. n.server_to_client[i] = e /\ e # None /\ e.session \notin S
    BY <1>4
  <2>2. e.session \in Sessions /\ e.req_id \in ReqIds
    BY <2>1, MappingFacts
  <2>3. m.client_to_server[e.session][e.req_id] = i
    BY <2>1, NamedPaired
  <2> HIDE DEF e
  <2> QED
    BY <1>3, <2>1, <2>2, <2>3
<1>7. ASSUME NEW t \in Sessions, NEW q \in ReqIds, exists(n, t, q)
      PROVE  LET i == n.client_to_server[t][q]
             IN  /\ i \in ServerIds /\ i[2] # Empty /\ n.server_to_client[i] # None
                 /\ n.server_to_client[i].session = t /\ n.server_to_client[i].req_id = q
  <2> DEFINE i == m.client_to_server[t][q]
  <2>1. n.client_to_server[t][q] = i /\ exists(m, t, q) /\ t \notin S
    BY <1>3, <1>7
  <2>2. /\ i \in ServerIds /\ i[2] # Empty /\ q = i[2]
        /\ m.server_to_client[i] # None /\ m.server_to_client[i].session = t
    BY <2>1, NamedPaired
  <2>3. m.server_to_client[i].req_id = q
    BY <2>2 DEF Labelled
  <2> HIDE DEF i
  <2> QED
    BY <1>4, <2>1, <2>2, <2>3
<1> QED
    BY <1>3, <1>4, <1>5, <1>6, <1>7, PairedIfNamed DEF n

-----------------------------------------------------------------------------
(* What the invariant says of one request or one record.                   *)

\* What the bridge holds is a request with a kind, an id and a session.
LEMMA BridgeFacts ==
    ASSUME TypeOK, NEW q \in bridge
    PROVE  /\ q \in Request /\ q.kind \in Kinds /\ q.id \in ServerIds
           /\ q.session \in Sessions /\ q.req_id \in ReqIds
           /\ q.unique \in BOOLEAN /\ q.acknowledged \in BOOLEAN
BY DEF TypeOK, Request

\* Each mapping is one of requests with and without an id.
LEMMA MappingsFacts ==
    ASSUME IInv, NEW k \in Kinds
    PROVE  mapping[k] \in Mapping /\ Paired(Named(mapping[k])) /\ Labelled(mapping[k])
BY DEF IInv, TypeOK, QueriesPaired, RecordsAreTheUsers, Labelled

\* A record.
LEMMA EntryFacts ==
    ASSUME IInv, NEW k \in Kinds, NEW id \in ServerIds, mapping[k].server_to_client[id] # None
    PROVE  LET e == mapping[k].server_to_client[id]
           IN  /\ e \in Entry /\ e.session \in Sessions /\ e.req_id = id[2]
               /\ phase[e.session] \in Admitted \cup {"done"}
               /\ phase[e.session] \in Admitted => holder[id[1]] = e.session
               /\ id[2] # Empty => phase[e.session] \in Admitted
<1>1. mapping[k] \in Mapping
    BY MappingsFacts
<1> QED
    BY <1>1, MappingFacts DEF IInv, RecordsAreTheUsers, TheDeadAreForgotten, Admitted

\* What is said of an answer that was not given to who asked.
StrayOK(a) ==
    /\ a \in [request : Request, to : Sessions \cup {None}] \cup {None}
    /\ a # None /\ a.to # None => holder[a.request.id[1]] = a.to
    /\ a # None =>
         LET q == a.request
         IN  \/ ~q.unique \/ q.req_id = Empty
             \/ phase[q.session] # "active" \/ q.type = "UNSUBSCRIBE"
             \/ q.kind = "trade_request_id" /\ q.type = "SNAPSHOT" /\ q.acknowledged
             \/ q.kind = "mass_cancel_cl_ord_id" /\ q.type = "REFUSED"

LEMMA PassedOK ==
    ASSUME IInv, NEW q \in bridge, q.type # "REFUSED"
    PROVE  StrayOK(Passed(q))
<1> DEFINE e  == Found(q)
           to == IF e # None /\ phase[e.session] = "active" THEN e.session ELSE None
<1>1. Passed(q) = IF to = q.session /\ e.req_id = q.req_id THEN None ELSE [request |-> q, to |-> to]
    BY DEF Passed
<1>2. q \in Request /\ q.kind \in Kinds /\ q.id \in ServerIds /\ q.session \in Sessions
    BY BridgeFacts DEF IInv
<1>3. e # None => /\ e.session \in Sessions /\ e.req_id = q.id[2]
                  /\ phase[e.session] \in Admitted => holder[q.id[1]] = e.session
    BY <1>2, EntryFacts DEF Found
<1>4. q.req_id = q.id[2]
    BY DEF IInv, RequestsAreSent
<1>5. q.unique /\ Awaits(q) /\ phase[q.session] = "active" => e # None /\ e.session = q.session
    BY DEF IInv, OnRecord, Admitted
<1>6. \/ Awaits(q) \/ q.req_id = Empty \/ q.type = "UNSUBSCRIBE"
      \/ q.kind = "trade_request_id" /\ q.type = "SNAPSHOT" /\ q.acknowledged
    BY <1>2 DEF Awaits, Request
<1> HIDE DEF e
<1>7. to \in Sessions \cup {None} /\ (to # None => holder[q.id[1]] = to)
    BY <1>3 DEF Admitted
<1>8. q.unique /\ Awaits(q) /\ phase[q.session] = "active" => to = q.session /\ e.req_id = q.req_id
    BY <1>3, <1>4, <1>5
<1> HIDE DEF to
<1>9. CASE to = q.session /\ e.req_id = q.req_id
    BY <1>1, <1>9 DEF StrayOK
<1>10. CASE ~(to = q.session /\ e.req_id = q.req_id)
  <2> DEFINE a == [request |-> q, to |-> to]
  <2>1. Passed(q) = a /\ a.request = q /\ a.to = to
    BY <1>1, <1>10
  <2>2. a \in [request : Request, to : Sessions \cup {None}]
    BY <1>2, <1>7
  <2>3. \/ ~q.unique \/ q.req_id = Empty
        \/ phase[q.session] # "active" \/ q.type = "UNSUBSCRIBE"
        \/ q.kind = "trade_request_id" /\ q.type = "SNAPSHOT" /\ q.acknowledged
    BY <1>6, <1>8, <1>10
  <2> HIDE DEF a
  <2> QED
    BY <1>7, <2>1, <2>2, <2>3 DEF StrayOK
<1> QED
    BY <1>9, <1>10

-----------------------------------------------------------------------------
(* One lemma per kind of step.                                             *)

\* Any answer: q is finished or held as after, its record removed or kept.
LEMMA AnswerStep ==
    ASSUME IInv, NEW q \in bridge, q.type # "REFUSED", NEW after \in Request,
           after.kind = q.kind, after.id = q.id, after.session = q.session,
           after.req_id = q.req_id, after.unique = q.unique,
           after.type \in {q.type, "REFUSED"}, Awaits(after) => Awaits(q),
           NEW finished \in BOOLEAN, NEW removed \in BOOLEAN,
           bridge' = (bridge \ {q}) \cup IF finished THEN {} ELSE {after},
           mapping' = IF removed THEN Forget(q) ELSE mapping,
           finished /\ ~removed /\ Found(q) # None =>
             Found(q).keep_alive /\ q.type # "SNAPSHOT_UPDATES",
           ~finished /\ removed /\ q.unique /\ phase[q.session] \in Admitted => ~Awaits(after),
           state' \subseteq ServerIds, StrayOK(astray'), UNCHANGED service
    PROVE  IInv'
<1>1. UNCHANGED <<up, phase, holder>>
    BY DEF service
<1>2. q \in Request /\ q.kind \in Kinds /\ q.id \in ServerIds /\ q.session \in Sessions
    BY BridgeFacts DEF IInv
<1>3. \A k \in Kinds :
        /\ mapping'[k] \in Mapping /\ Paired(Named(mapping'[k]))
        /\ \A i \in ServerIds :
             mapping'[k].server_to_client[i] =
               IF removed /\ k = q.kind /\ i = q.id
                 THEN None ELSE mapping[k].server_to_client[i]
  <2> SUFFICES ASSUME NEW k \in Kinds
               PROVE  /\ mapping'[k] \in Mapping /\ Paired(Named(mapping'[k]))
                      /\ \A i \in ServerIds :
                           mapping'[k].server_to_client[i] =
                             IF removed /\ k = q.kind /\ i = q.id
                               THEN None ELSE mapping[k].server_to_client[i]
    OBVIOUS
  <2>1. mapping[k] \in Mapping /\ Paired(Named(mapping[k])) /\ Labelled(mapping[k])
    BY MappingsFacts
  <2>2. CASE removed /\ k = q.kind
    <3>1. mapping'[k] = remove_req_id(mapping[k], q.id)
      BY <1>2, <2>2 DEF Forget, IInv, TypeOK
    <3> QED
      BY <1>2, <2>1, <2>2, <3>1, ForgetFacts
  <2>3. CASE ~(removed /\ k = q.kind)
    <3>1. mapping'[k] = mapping[k]
      BY <1>2, <2>3 DEF Forget, IInv, TypeOK
    <3> QED
      BY <2>1, <2>3, <3>1
  <2> QED
    BY <2>2, <2>3
<1>4. mapping' \in [Kinds -> Mapping]
  <2>1. mapping' = [mapping EXCEPT ![q.kind] = remove_req_id(@, q.id)] \/ mapping' = mapping
    BY DEF Forget
  <2>2. remove_req_id(mapping[q.kind], q.id) \in Mapping
    BY <1>2, MappingsFacts, RemoveFacts
  <2> QED
    BY <1>2, <2>1, <2>2 DEF IInv, TypeOK
<1>5. \A p \in bridge' : (p \in bridge /\ p # q) \/ (p = after /\ ~finished)
    OBVIOUS
<1>6. TypeOK'
  <2>1. bridge' \subseteq Request
    BY <1>5 DEF IInv, TypeOK
  <2>2. astray' \in [request : Request, to : Sessions \cup {None}] \cup {None}
    BY DEF StrayOK
  <2> QED
    BY <1>1, <1>4, <2>1, <2>2 DEF IInv, TypeOK
<1>7. OneHolder' /\ QueriesPaired'
    BY <1>1, <1>3 DEF IInv, OneHolder, QueriesPaired
<1>8. TheDeadAreForgotten' /\ RecordsAreTheUsers'
    BY <1>1, <1>3 DEF IInv, TheDeadAreForgotten, RecordsAreTheUsers
<1>9. AnswersStayWithTheUser' /\ AnswersArrive'
    BY <1>1 DEF StrayOK, AnswersStayWithTheUser, AnswersArrive
<1>10. RequestsAreSent'
  <2>1. \A p \in bridge' : phase[p.session] \in Admitted \cup {"done"} /\ p.req_id = p.id[2]
    BY <1>5 DEF IInv, RequestsAreSent
  <2>2. ASSUME NEW p \in bridge', p.unique,
               NEW o \in bridge', o.kind = p.kind, o.id = p.id
        PROVE  o = p
    <3>1. CASE p \in bridge /\ p # q
      BY <1>5, <2>2, <3>1 DEF IInv, RequestsAreSent
    <3>2. CASE p = after
      BY <1>5, <2>2, <3>2 DEF IInv, RequestsAreSent
    <3> QED
      BY <1>5, <3>1, <3>2
  <2> QED
    BY <1>1, <2>1, <2>2 DEF RequestsAreSent
<1>11. OnRecord'
  <2> SUFFICES ASSUME NEW p \in bridge', p.unique, Awaits(p), phase[p.session] \in Admitted
               PROVE  LET e == mapping'[p.kind].server_to_client[p.id]
                      IN  /\ e # None /\ e.session = p.session
                          /\ p.type = "SNAPSHOT_UPDATES" => e.keep_alive
    BY <1>1 DEF OnRecord, Found, Awaits
  <2>1. CASE p \in bridge /\ p # q
    <3>1. p.kind \in Kinds /\ p.id \in ServerIds /\ ~(p.kind = q.kind /\ p.id = q.id)
      BY <2>1, BridgeFacts DEF IInv, RequestsAreSent
    <3>2. mapping'[p.kind].server_to_client[p.id] = Found(p)
      BY <1>3, <3>1 DEF Found
    <3> QED
      BY <2>1, <3>2 DEF IInv, OnRecord
  <2>2. CASE p = after /\ ~finished
    <3>1. ~removed /\ Awaits(q) /\ p.type = q.type
      BY <2>2 DEF Awaits
    <3>2. mapping'[p.kind].server_to_client[p.id] = Found(q)
      BY <1>2, <1>3, <2>2, <3>1 DEF Found
    <3>3. /\ Found(q) # None /\ Found(q).session = q.session
          /\ q.type = "SNAPSHOT_UPDATES" => Found(q).keep_alive
      BY <2>2, <3>1 DEF IInv, OnRecord
    <3> QED
      BY <2>2, <3>1, <3>2, <3>3
  <2> QED
    BY <1>5, <2>1, <2>2
<1>12. RecordsAreRequests'
  <2> SUFFICES ASSUME NEW k \in Kinds, NEW i \in ServerIds,
                      mapping'[k].server_to_client[i] # None, i[2] # Empty
               PROVE  \E p \in bridge' :
                        /\ p.kind = k /\ p.id = i
                        /\ mapping'[k].server_to_client[i].keep_alive =>
                             p.type \in {"SNAPSHOT_UPDATES", "REFUSED"}
    BY DEF RecordsAreRequests
  <2> DEFINE e == mapping[k].server_to_client[i]
  <2>1. mapping'[k].server_to_client[i] = e /\ e # None /\ ~(removed /\ k = q.kind /\ i = q.id)
    BY <1>3
  <2>2. PICK w \in bridge : /\ w.kind = k /\ w.id = i
                            /\ e.keep_alive => w.type \in {"SNAPSHOT_UPDATES", "REFUSED"}
    BY <2>1 DEF IInv, RecordsAreRequests
  <2>3. w = q => e = Found(q) /\ ~removed
    BY <2>1, <2>2 DEF Found
  <2> HIDE DEF e
  <2>4. CASE w # q
    BY <2>1, <2>2, <2>4
  <2>5. CASE w = q
    <3>1. ~finished
      BY <2>1, <2>2, <2>3, <2>5
    <3>2. after \in bridge' /\ after.kind = k /\ after.id = i
      BY <2>2, <2>5, <3>1
    <3>3. e.keep_alive => after.type \in {"SNAPSHOT_UPDATES", "REFUSED"}
      BY <2>2, <2>5
    <3> QED
      BY <2>1, <3>2, <3>3
  <2> QED
    BY <2>4, <2>5
<1> QED
    BY <1>6, <1>7, <1>8, <1>9, <1>10, <1>11, <1>12 DEF IInv

\* An answer that changes nothing about q but whether it is there.
LEMMA PlainAnswer ==
    ASSUME IInv, NEW q \in bridge, q.type # "REFUSED",
           NEW finished \in BOOLEAN, NEW removed \in BOOLEAN,
           bridge' = IF finished THEN bridge \ {q} ELSE bridge,
           mapping' = IF removed THEN Forget(q) ELSE mapping,
           finished /\ ~removed /\ Found(q) # None =>
             Found(q).keep_alive /\ q.type # "SNAPSHOT_UPDATES",
           ~finished /\ removed /\ q.unique /\ phase[q.session] \in Admitted => ~Awaits(q),
           state' \subseteq ServerIds, astray' = Passed(q), UNCHANGED service
    PROVE  IInv'
<1>1. q \in Request /\ StrayOK(astray')
    BY BridgeFacts, PassedOK DEF IInv
<1>2. bridge' = (bridge \ {q}) \cup IF finished THEN {} ELSE {q}
    OBVIOUS
<1> QED
    BY <1>1, <1>2, AnswerStep

\* An order that an answer names is one of the same user.
LEMMA NamedOrder ==
    ASSUME IInv, NEW q \in bridge, NEW o \in ReqIds
    PROVE  ensure_cl_ord_id(<<q.id[1], o>>) \subseteq ServerIds
<1>1. q.id \in ServerIds /\ state \subseteq ServerIds
    BY BridgeFacts DEF IInv, TypeOK
<1>2. <<q.id[1], o>> \in ServerIds
    BY <1>1, ServerIdsAssumption
<1> QED
    BY <1>1, <1>2 DEF ensure_cl_ord_id

LEMMA OrderStatusStep ==
    ASSUME IInv, NEW q \in bridge, q.type # "REFUSED", NEW o \in ReqIds, OrderStatus(q, o)
    PROVE  IInv'
<1> DEFINE finished == TRUE
           removed == Found(q) # None
<1>1. /\ astray' = Passed(q) /\ state' = ensure_cl_ord_id(<<q.id[1], o>>)
      /\ mapping' = IF removed THEN Forget(q) ELSE mapping
      /\ bridge' = IF finished THEN bridge \ {q} ELSE bridge
      /\ UNCHANGED service
    BY DEF OrderStatus, ForgetIfLast
<1>2. /\ finished \in BOOLEAN /\ removed \in BOOLEAN /\ finished
      /\ ~removed => Found(q) = None
    OBVIOUS
<1> HIDE DEF finished, removed
<1> QED
    BY <1>1, <1>2, NamedOrder, PlainAnswer

LEMMA OrderMassStatusStep ==
    ASSUME IInv, NEW q \in bridge, q.type # "REFUSED", NEW o \in ReqIds, NEW last \in BOOLEAN,
           OrderMassStatus(q, o, last)
    PROVE  IInv'
<1> DEFINE removed == Found(q) # None /\ last
<1>1. /\ astray' = Passed(q) /\ state' = ensure_cl_ord_id(<<q.id[1], o>>)
      /\ mapping' = IF removed THEN Forget(q) ELSE mapping
      /\ bridge' = IF last THEN bridge \ {q} ELSE bridge
      /\ UNCHANGED service
    BY DEF OrderMassStatus, ForgetIfLast
<1>2. /\ removed \in BOOLEAN
      /\ last /\ ~removed => Found(q) = None
      /\ ~last => ~removed
    OBVIOUS
<1> HIDE DEF removed
<1> QED
    BY <1>1, <1>2, NamedOrder, PlainAnswer

LEMMA OrderMassCancelStep ==
    ASSUME IInv, NEW q \in bridge, q.type # "REFUSED", OrderMassCancelReport(q)
    PROVE  IInv'
<1> DEFINE yes == TRUE
<1>1. /\ astray' = Passed(q) /\ state' \subseteq ServerIds
      /\ mapping' = IF yes THEN Forget(q) ELSE mapping
      /\ bridge' = IF yes THEN bridge \ {q} ELSE bridge
      /\ UNCHANGED service
    BY DEF OrderMassCancelReport, IInv, TypeOK
<1>2. yes \in BOOLEAN /\ yes
    OBVIOUS
<1> HIDE DEF yes
<1> QED
    BY <1>1, <1>2, PlainAnswer

\* The record of a subscription is one that is kept.
LEMMA OnceFacts ==
    ASSUME IInv, NEW q \in bridge
    PROVE  /\ Once(q) \in BOOLEAN
           /\ Found(q) # None /\ ~Once(q) => Found(q).keep_alive
           /\ q.unique /\ Awaits(q) /\ phase[q.session] \in Admitted /\ q.type = "SNAPSHOT_UPDATES"
                => ~Once(q)
BY DEF Once, IInv, OnRecord

LEMMA TradeAckStep ==
    ASSUME IInv, NEW q \in bridge, q.type # "REFUSED", NEW finished \in BOOLEAN,
           TradeCaptureReportRequestAck(q, finished)
    PROVE  IInv'
<1> DEFINE gone == finished /\ q.type # "SNAPSHOT_UPDATES"
           removed == Found(q) # None /\ Once(q)
           after == [q EXCEPT !.acknowledged = TRUE]
<1>1. /\ q.kind = "trade_request_id" /\ astray' = Passed(q)
      /\ mapping' = IF removed THEN Forget(q) ELSE mapping
      /\ bridge' = (bridge \ {q}) \cup IF gone THEN {} ELSE {after}
      /\ state' = state /\ UNCHANGED service
    BY DEF TradeCaptureReportRequestAck, ForgetIfLast
<1>2. /\ after \in Request /\ after.kind = q.kind /\ after.id = q.id
      /\ after.session = q.session /\ after.req_id = q.req_id /\ after.unique = q.unique
      /\ after.type = q.type /\ after.acknowledged
    BY BridgeFacts DEF IInv, Request
<1>3. /\ gone \in BOOLEAN /\ removed \in BOOLEAN
      /\ gone => q.type # "SNAPSHOT_UPDATES"
      /\ ~removed /\ Found(q) # None => ~Once(q)
      /\ removed => Once(q)
    BY OnceFacts
<1>4. state' \subseteq ServerIds /\ StrayOK(astray')
    BY <1>1, PassedOK DEF IInv, TypeOK
<1> HIDE DEF gone, removed, after
<1>5. Awaits(after) => q.req_id # Empty /\ q.type = "SNAPSHOT_UPDATES"
    BY <1>1, <1>2 DEF Awaits
<1>6. Awaits(after) => Awaits(q)
    BY <1>5 DEF Awaits
<1>7. removed /\ q.unique /\ phase[q.session] \in Admitted => ~Awaits(after)
    BY <1>3, <1>5, <1>6, OnceFacts
<1>8. gone /\ ~removed /\ Found(q) # None => Found(q).keep_alive /\ q.type # "SNAPSHOT_UPDATES"
    BY <1>3, OnceFacts
<1> QED
    BY <1>1, <1>2, <1>3, <1>4, <1>6, <1>7, <1>8, AnswerStep

LEMMA TradeReportStep ==
    ASSUME IInv, NEW q \in bridge, q.type # "REFUSED", NEW last \in BOOLEAN,
           TradeCaptureReport(q, last)
    PROVE  IInv'
<1> DEFINE finished == last /\ q.type # "SNAPSHOT_UPDATES"
           removed == Found(q) # None /\ last /\ Once(q)
<1>1. /\ astray' = Passed(q) /\ state' \subseteq ServerIds
      /\ mapping' = IF removed THEN Forget(q) ELSE mapping
      /\ bridge' = IF finished THEN bridge \ {q} ELSE bridge
      /\ UNCHANGED service
    BY DEF TradeCaptureReport, ForgetIfLast, IInv, TypeOK
<1>2. /\ finished \in BOOLEAN /\ removed \in BOOLEAN
      /\ finished => q.type # "SNAPSHOT_UPDATES"
      /\ finished /\ ~removed /\ Found(q) # None => ~Once(q)
      /\ ~finished /\ removed => q.type = "SNAPSHOT_UPDATES" /\ Once(q)
    BY OnceFacts
<1> HIDE DEF finished, removed
<1>3. finished /\ ~removed /\ Found(q) # None => Found(q).keep_alive /\ q.type # "SNAPSHOT_UPDATES"
    BY <1>2, OnceFacts
<1>4. ~finished /\ removed /\ q.unique /\ phase[q.session] \in Admitted => ~Awaits(q)
    BY <1>2, OnceFacts
<1> QED
    BY <1>1, <1>2, <1>3, <1>4, PlainAnswer

\* The bridge refuses a request; its record stays.
LEMMA RejectStep ==
    ASSUME IInv, NEW q \in bridge, q.type # "REFUSED", BusinessMessageReject(q)
    PROVE  IInv'
<1> DEFINE after == [q EXCEPT !.type = "REFUSED"]
           no == FALSE
<1>1. /\ astray' = IF q.kind = "mass_cancel_cl_ord_id"
                     THEN [request |-> after, to |-> None] ELSE Passed(q)
      /\ bridge' = (bridge \ {q}) \cup IF no THEN {} ELSE {after}
      /\ mapping' = IF no THEN Forget(q) ELSE mapping
      /\ state' = state /\ UNCHANGED service
    BY DEF BusinessMessageReject
<1>2. /\ after \in Request /\ after.kind = q.kind /\ after.id = q.id
      /\ after.session = q.session /\ after.req_id = q.req_id /\ after.unique = q.unique
      /\ after.type = "REFUSED"
    BY BridgeFacts DEF IInv, Request
<1>3. no \in BOOLEAN /\ ~no
    OBVIOUS
<1> HIDE DEF after, no
<1>4. ~Awaits(after)
    BY <1>2 DEF Awaits
<1>5. StrayOK(astray')
  <2>1. CASE q.kind = "mass_cancel_cl_ord_id"
    <3> DEFINE a == [request |-> after, to |-> None]
    <3>1. astray' = a /\ a.request = after /\ a.to = None
      BY <1>1, <2>1
    <3>2. a \in [request : Request, to : Sessions \cup {None}]
      BY <1>2
    <3> HIDE DEF a
    <3> QED
      BY <1>2, <2>1, <3>1, <3>2 DEF StrayOK
  <2>2. CASE q.kind # "mass_cancel_cl_ord_id"
    BY <1>1, <2>2, PassedOK
  <2> QED
    BY <2>1, <2>2
<1>6. state' \subseteq ServerIds
    BY <1>1 DEF IInv, TypeOK
<1> QED
    BY <1>1, <1>2, <1>3, <1>4, <1>5, <1>6, AnswerStep

\* What sending a request does, the id and whether it is unique being given.
Sent(k, s, r, type, id, unique) ==
    LET same == {q \in bridge : q.kind = k /\ q.id = id}
    IN  /\ bridge' = (bridge \ same) \cup {[q EXCEPT !.unique = FALSE] : q \in same} \cup
             {[kind |-> k, id |-> id, session |-> s, req_id |-> r, type |-> type,
               acknowledged |-> FALSE, unique |-> unique]}
        /\ mapping' = [mapping EXCEPT ![k] = Record(@, s, r, id, type = "SNAPSHOT_UPDATES")]

\* A request that goes out under an id that is not on record.
LEMMA SentStep ==
    ASSUME IInv, NEW k \in Kinds, NEW s \in Sessions, NEW r \in ReqIds,
           NEW type \in {"SNAPSHOT", "SNAPSHOT_UPDATES"},
           phase[s] = "active", ~exists(mapping[k], s, r),
           NEW id, id = create_request_id(client_id(s), r),
           NEW unique \in BOOLEAN,
           unique => \A q \in bridge : ~(q.kind = k /\ q.id = id),
           Sent(k, s, r, type, id, unique),
           astray' = None, UNCHANGED <<service, state>>
    PROVE  IInv'
<1>0. PICK b \in BOOLEAN : b = (type = "SNAPSHOT_UPDATES")
    OBVIOUS
<1> DEFINE m == mapping[k]
           n == Record(m, s, r, id, b)
           e == [session |-> s, req_id |-> r, keep_alive |-> b]
           same == {q \in bridge : q.kind = k /\ q.id = id}
           demoted == {[q EXCEPT !.unique = FALSE] : q \in same}
           q0 == [kind |-> k, id |-> id, session |-> s, req_id |-> r, type |-> type,
                  acknowledged |-> FALSE, unique |-> unique]
<1>1. /\ UNCHANGED <<up, phase, holder, state>> /\ astray' = None
      /\ mapping' = [mapping EXCEPT ![k] = n]
      /\ bridge' = (bridge \ same) \cup demoted \cup {q0}
    BY <1>0 DEF Sent, service
<1>2. /\ m \in Mapping /\ Paired(Named(m)) /\ Labelled(m)
      /\ phase[s] \in LoggedOn /\ phase[s] \in Admitted
    BY MappingsFacts DEF LoggedOn, Admitted
<1>3. id = <<client_id(s), r>> /\ client_id(s) \in Users /\ holder[client_id(s)] = s
    BY <1>2, PartyFacts DEF IInv, create_request_id
<1>4. id \in ServerIds /\ id[1] = client_id(s) /\ id[2] = r /\ holder[id[1]] = s
    BY <1>3, ServerIdsAssumption
<1>5. r # Empty => m.server_to_client[id] = None
  <2> SUFFICES ASSUME r # Empty, m.server_to_client[id] # None PROVE FALSE
    OBVIOUS
  <2> DEFINE d == m.server_to_client[id]
  <2>1. d.session = s /\ d.req_id = r
    BY <1>4, EntryFacts
  <2>2. m.client_to_server[d.session][d.req_id] = id
    BY <1>2, <1>4, NamedPaired
  <2> HIDE DEF d
  <2> QED
    BY <1>4, <2>1, <2>2, NoneIsNoEntry
<1>6. e.session = s /\ e.req_id = r /\ e.keep_alive = b
    OBVIOUS
<1>7. /\ n \in Mapping /\ Paired(Named(n)) /\ e # None
      /\ \A i \in ServerIds :
           n.server_to_client[i] =
             IF i = id /\ m.server_to_client[id] = None THEN e ELSE m.server_to_client[i]
    BY <1>2, <1>4, <1>5, RecordFacts
<1>8. /\ q0 \in Request /\ q0.kind = k /\ q0.id = id /\ q0.session = s /\ q0.req_id = r
      /\ q0.type = type /\ q0.unique = unique
    BY <1>4 DEF Request
\* What the bridge held before, it holds still, but unique only if under another id.
<1>9. ASSUME NEW q \in bridge
      PROVE  LET p == [q EXCEPT !.unique = FALSE]
             IN  /\ p \in Request /\ p.kind = q.kind /\ p.id = q.id /\ p.session = q.session
                 /\ p.req_id = q.req_id /\ p.type = q.type /\ ~p.unique
    BY BridgeFacts DEF IInv, Request
<1>10. ASSUME NEW p \in bridge', p # q0
       PROVE  \E q \in bridge :
                /\ p \in Request /\ p.kind = q.kind /\ p.id = q.id /\ p.session = q.session
                /\ p.req_id = q.req_id
                /\ p.unique => p = q /\ ~(q.kind = k /\ q.id = id)
  <2>1. CASE p \in bridge \ same
    BY <2>1, BridgeFacts DEF IInv
  <2>2. CASE p \in demoted
    <3>1. PICK q \in bridge : p = [q EXCEPT !.unique = FALSE]
      BY <2>2
    <3> QED
      BY <1>9, <3>1
  <2> QED
    BY <1>1, <1>10, <2>1, <2>2
<1>11. ASSUME NEW q \in bridge
       PROVE  \E p \in bridge' : p.kind = q.kind /\ p.id = q.id /\ p.type = q.type
  <2>1. CASE q \notin same
    BY <1>1, <2>1
  <2>2. CASE q \in same
    BY <1>1, <1>9, <2>2
  <2> QED
    BY <2>1, <2>2
<1>12. q0 \in bridge'
    BY <1>1
\* A request under another id is held as it was.
<1>13. \A p \in bridge' : ~(p.kind = k /\ p.id = id) => p \in bridge
  <2> SUFFICES ASSUME NEW p \in bridge', ~(p.kind = k /\ p.id = id) PROVE p \in bridge
    OBVIOUS
  <2>1. p # q0
    BY <1>8
  <2>2. p \notin demoted
    <3> SUFFICES ASSUME NEW q \in same, p = [q EXCEPT !.unique = FALSE] PROVE FALSE
      OBVIOUS
    <3> QED
      BY <1>9
  <2> QED
    BY <1>1, <2>1, <2>2
<1>14. \A j \in Kinds : mapping'[j] = IF j = k THEN n ELSE mapping[j]
    BY <1>1 DEF IInv, TypeOK
<1> HIDE DEF m, n, e, same, demoted, q0
<1>15. \A j \in Kinds, i \in ServerIds :
         mapping'[j].server_to_client[i] =
           IF j = k /\ i = id /\ m.server_to_client[id] = None
             THEN e ELSE mapping[j].server_to_client[i]
    BY <1>7, <1>14 DEF m
<1>16. TypeOK'
  <2>1. bridge' \subseteq Request
    BY <1>8, <1>10
  <2> QED
    BY <1>1, <1>7, <2>1 DEF IInv, TypeOK
<1>17. OneHolder' /\ AnswersStayWithTheUser' /\ AnswersArrive'
    BY <1>1 DEF IInv, OneHolder, AnswersStayWithTheUser, AnswersArrive
<1>18. QueriesPaired'
    BY <1>7, <1>14 DEF IInv, QueriesPaired
<1>19. TheDeadAreForgotten'
    BY <1>1, <1>6, <1>15 DEF IInv, TheDeadAreForgotten
<1>20. RecordsAreTheUsers'
    BY <1>1, <1>2, <1>4, <1>6, <1>15 DEF IInv, RecordsAreTheUsers
<1>21. RequestsAreSent'
  <2>1. ASSUME NEW p \in bridge'
        PROVE  phase[p.session] \in Admitted \cup {"done"} /\ p.req_id = p.id[2]
    <3>1. CASE p = q0
      BY <1>2, <1>4, <1>8, <3>1
    <3>2. CASE p # q0
      BY <1>10, <3>2 DEF IInv, RequestsAreSent
    <3> QED
      BY <3>1, <3>2
  <2>2. ASSUME NEW p \in bridge', p.unique, NEW o \in bridge', o.kind = p.kind, o.id = p.id
        PROVE  o = p
    <3>1. CASE p = q0
      <4>1. \A q \in bridge : ~(q.kind = k /\ q.id = id)
        BY <1>8, <2>2, <3>1
      <4> QED
        BY <1>8, <1>10, <2>2, <3>1, <4>1
    <3>2. CASE p # q0
      <4>1. p \in bridge /\ ~(p.kind = k /\ p.id = id)
        BY <1>10, <2>2, <3>2
      <4>2. o \in bridge
        BY <1>13, <2>2, <4>1
      <4> QED
        BY <2>2, <4>1, <4>2 DEF IInv, RequestsAreSent
    <3> QED
      BY <3>1, <3>2
  <2> QED
    BY <1>1, <2>1, <2>2 DEF RequestsAreSent
<1>22. OnRecord'
  <2> SUFFICES ASSUME NEW p \in bridge', p.unique, Awaits(p), phase[p.session] \in Admitted
               PROVE  LET d == mapping'[p.kind].server_to_client[p.id]
                      IN  /\ d # None /\ d.session = p.session
                          /\ p.type = "SNAPSHOT_UPDATES" => d.keep_alive
    BY <1>1 DEF OnRecord, Found, Awaits
  <2>1. CASE p = q0
    <3>1. r # Empty
      BY <1>8, <2>1 DEF Awaits
    <3>2. mapping'[p.kind].server_to_client[p.id] = e
      BY <1>4, <1>5, <1>8, <1>15, <2>1, <3>1
    <3>3. type = "SNAPSHOT_UPDATES" => b
      BY <1>0
    <3> QED
      BY <1>6, <1>7, <1>8, <2>1, <3>2, <3>3
  <2>2. CASE p # q0
    <3>1. p \in bridge /\ ~(p.kind = k /\ p.id = id)
      BY <1>10, <2>2
    <3>2. p.kind \in Kinds /\ p.id \in ServerIds
      BY <3>1, BridgeFacts DEF IInv
    <3>3. mapping'[p.kind].server_to_client[p.id] = Found(p)
      BY <1>15, <3>1, <3>2 DEF Found
    <3> QED
      BY <3>1, <3>3 DEF IInv, OnRecord
  <2> QED
    BY <2>1, <2>2
<1>23. RecordsAreRequests'
  <2> SUFFICES ASSUME NEW j \in Kinds, NEW i \in ServerIds,
                      mapping'[j].server_to_client[i] # None, i[2] # Empty
               PROVE  \E p \in bridge' :
                        /\ p.kind = j /\ p.id = i
                        /\ mapping'[j].server_to_client[i].keep_alive =>
                             p.type \in {"SNAPSHOT_UPDATES", "REFUSED"}
    BY DEF RecordsAreRequests
  <2>1. CASE j = k /\ i = id
    <3>1. mapping'[j].server_to_client[i] = e
      BY <1>4, <1>5, <1>15, <2>1
    <3>2. b => type = "SNAPSHOT_UPDATES"
      BY <1>0
    <3> QED
      BY <1>6, <1>8, <1>12, <2>1, <3>1, <3>2
  <2>2. CASE ~(j = k /\ i = id)
    <3> DEFINE d == mapping[j].server_to_client[i]
    <3>1. mapping'[j].server_to_client[i] = d
      BY <1>15, <2>2
    <3>2. PICK w \in bridge : /\ w.kind = j /\ w.id = i
                              /\ d.keep_alive => w.type \in {"SNAPSHOT_UPDATES", "REFUSED"}
      BY <3>1 DEF IInv, RecordsAreRequests
    <3> HIDE DEF d
    <3>3. PICK p \in bridge' : p.kind = w.kind /\ p.id = w.id /\ p.type = w.type
      BY <1>11
    <3> QED
      BY <3>1, <3>2, <3>3
  <2> QED
    BY <2>1, <2>2
<1> QED
    BY <1>16, <1>17, <1>18, <1>19, <1>20, <1>21, <1>22, <1>23 DEF IInv

\* An UNSUBSCRIBE takes the request off the record.
LEMMA UnsubscribeStep ==
    ASSUME IInv, NEW k \in Kinds, NEW s \in Sessions, NEW r \in ReqIds,
           phase[s] = "active", Unsubscribe(k, s, r),
           astray' = None, UNCHANGED <<service, state>>
    PROVE  IInv'
<1> DEFINE m == mapping[k]
           id == create_request_id(client_id(s), r)
           n == remove_req_id(m, id)
           after(q) == IF q.kind = k /\ q.id = id /\ q.type # "REFUSED"
                         THEN [q EXCEPT !.type = "UNSUBSCRIBE"] ELSE q
<1>1. /\ UNCHANGED <<up, phase, holder, state>> /\ astray' = None
      /\ mapping' = [mapping EXCEPT ![k] = n]
      /\ bridge' = {after(q) : q \in bridge}
    BY DEF Unsubscribe, service
<1>2. m \in Mapping /\ Paired(Named(m)) /\ Labelled(m) /\ phase[s] \in LoggedOn
    BY MappingsFacts DEF LoggedOn
<1>3. id \in ServerIds
    BY <1>2, PartyFacts, ServerIdsAssumption DEF IInv, create_request_id
<1> HIDE DEF id
<1>4. /\ n \in Mapping /\ Paired(Named(n))
      /\ \A i \in ServerIds : n.server_to_client[i] = IF i = id THEN None ELSE m.server_to_client[i]
    BY <1>2, <1>3, ForgetFacts
<1>5. ASSUME NEW q \in bridge
      PROVE  /\ after(q) \in Request /\ after(q).kind = q.kind /\ after(q).id = q.id
             /\ after(q).session = q.session /\ after(q).req_id = q.req_id
             /\ after(q).unique = q.unique
             /\ after(q) = q \/ (q.kind = k /\ q.id = id)
             /\ after(q).type \in {"UNSUBSCRIBE", "REFUSED"} \/ ~(q.kind = k /\ q.id = id)
  <2>1. q \in Request
    BY BridgeFacts DEF IInv
  <2>2. CASE q.kind = k /\ q.id = id /\ q.type # "REFUSED"
    <3>1. after(q) = [q EXCEPT !.type = "UNSUBSCRIBE"]
      BY <2>2
    <3> HIDE DEF after
    <3> QED
      BY <2>1, <2>2, <3>1 DEF Request
  <2>3. CASE ~(q.kind = k /\ q.id = id /\ q.type # "REFUSED")
    <3>1. after(q) = q
      BY <2>3
    <3> HIDE DEF after
    <3> QED
      BY <2>1, <2>3, <3>1
  <2> QED
    BY <2>2, <2>3
<1>6. \A j \in Kinds : mapping'[j] = IF j = k THEN n ELSE mapping[j]
    BY <1>1 DEF IInv, TypeOK
<1> HIDE DEF m, n, after
<1>7. \A j \in Kinds, i \in ServerIds :
        mapping'[j].server_to_client[i] =
          IF j = k /\ i = id THEN None ELSE mapping[j].server_to_client[i]
    BY <1>4, <1>6 DEF m
<1>8. TypeOK'
  <2>1. bridge' \subseteq Request
    BY <1>1, <1>5
  <2> QED
    BY <1>1, <1>4, <2>1 DEF IInv, TypeOK
<1>9. OneHolder' /\ AnswersStayWithTheUser' /\ AnswersArrive'
    BY <1>1 DEF IInv, OneHolder, AnswersStayWithTheUser, AnswersArrive
<1>10. QueriesPaired'
    BY <1>4, <1>6 DEF IInv, QueriesPaired
<1>11. TheDeadAreForgotten' /\ RecordsAreTheUsers'
    BY <1>1, <1>7 DEF IInv, TheDeadAreForgotten, RecordsAreTheUsers
<1>12. RequestsAreSent'
  <2>1. \A p \in bridge' : phase[p.session] \in Admitted \cup {"done"} /\ p.req_id = p.id[2]
    BY <1>1, <1>5 DEF IInv, RequestsAreSent
  <2>2. ASSUME NEW p \in bridge', p.unique, NEW o \in bridge', o.kind = p.kind, o.id = p.id
        PROVE  o = p
    <3>1. PICK x \in bridge : p = after(x)
      BY <1>1
    <3>2. PICK y \in bridge : o = after(y)
      BY <1>1
    <3>3. y = x
      BY <1>5, <2>2, <3>1, <3>2 DEF IInv, RequestsAreSent
    <3> QED
      BY <3>1, <3>2, <3>3
  <2> QED
    BY <1>1, <2>1, <2>2 DEF RequestsAreSent
<1>13. OnRecord'
  <2> SUFFICES ASSUME NEW p \in bridge', p.unique, Awaits(p), phase[p.session] \in Admitted
               PROVE  LET d == mapping'[p.kind].server_to_client[p.id]
                      IN  /\ d # None /\ d.session = p.session
                          /\ p.type = "SNAPSHOT_UPDATES" => d.keep_alive
    BY <1>1 DEF OnRecord, Found, Awaits
  <2>1. PICK q \in bridge : p = after(q)
    BY <1>1
  <2>2. ~(q.kind = k /\ q.id = id) /\ p = q
    BY <1>5, <2>1 DEF Awaits
  <2>3. p.kind \in Kinds /\ p.id \in ServerIds
    BY <2>2, BridgeFacts DEF IInv
  <2>4. mapping'[p.kind].server_to_client[p.id] = Found(p)
    BY <1>7, <2>2, <2>3 DEF Found
  <2> QED
    BY <2>2, <2>4 DEF IInv, OnRecord
<1>14. RecordsAreRequests'
  <2> SUFFICES ASSUME NEW j \in Kinds, NEW i \in ServerIds,
                      mapping'[j].server_to_client[i] # None, i[2] # Empty
               PROVE  \E p \in bridge' :
                        /\ p.kind = j /\ p.id = i
                        /\ mapping'[j].server_to_client[i].keep_alive =>
                             p.type \in {"SNAPSHOT_UPDATES", "REFUSED"}
    BY DEF RecordsAreRequests
  <2> DEFINE d == mapping[j].server_to_client[i]
  <2>1. mapping'[j].server_to_client[i] = d /\ ~(j = k /\ i = id)
    BY <1>7
  <2>2. PICK w \in bridge : /\ w.kind = j /\ w.id = i
                            /\ d.keep_alive => w.type \in {"SNAPSHOT_UPDATES", "REFUSED"}
    BY <2>1 DEF IInv, RecordsAreRequests
  <2> HIDE DEF d
  <2>3. after(w) = w /\ after(w) \in bridge'
    BY <1>1, <1>5, <2>1, <2>2
  <2> QED
    BY <2>1, <2>2, <2>3
<1> QED
    BY <1>8, <1>9, <1>10, <1>11, <1>12, <1>13, <1>14 DEF IInv

\* Sessions move, as those of D that are done; what is on record for S goes, those of
\* D that had logged on.  The bridge may lose the requests it holds, all of them, when
\* everybody is gone.
LEMMA SessionsStep ==
    ASSUME IInv, NEW D \in SUBSET Sessions, NEW S \in SUBSET D,
           \/ mapping' = [k \in Kinds |-> clear_req_ids(mapping[k], S)]
           \/ S = {} /\ mapping' = mapping,
           up' \in BOOLEAN, holder' \in [Users -> Sessions \cup {None}],
           phase' \in [Sessions -> {"new", "joining", "active", "leaving", "done"}],
           OneHolder',
           \A u \in Users : holder[u] # None /\ holder[u] \notin D => holder'[u] = holder[u],
           \A s \in Sessions : s \notin D =>
             /\ phase[s] \in Admitted => phase'[s] \in Admitted
             /\ phase[s] = "done" => phase'[s] = "done",
           \A s \in D : phase'[s] = "done",
           \A s \in D \ S : phase[s] \notin Admitted,
           \/ bridge' = bridge
           \/ bridge' = {} /\ \A s \in Sessions : phase[s] \in Admitted => s \in S,
           state' = state, astray' = None
    PROVE  IInv'
<1>1. /\ mapping' \in [Kinds -> Mapping]
      /\ \A k \in Kinds :
           /\ Paired(Named(mapping'[k]))
           /\ \A i \in ServerIds :
                mapping'[k].server_to_client[i] =
                  IF /\ i[2] # Empty /\ mapping[k].server_to_client[i] # None
                     /\ mapping[k].server_to_client[i].session \in S
                    THEN None ELSE mapping[k].server_to_client[i]
  <2>1. S \in SUBSET Sessions
    OBVIOUS
  <2>2. CASE mapping' = [k \in Kinds |-> clear_req_ids(mapping[k], S)]
    <3>1. \A k \in Kinds :
            LET n == clear_req_ids(mapping[k], S)
            IN  /\ n \in Mapping /\ Paired(Named(n))
                /\ \A i \in ServerIds :
                     n.server_to_client[i] =
                       IF /\ i[2] # Empty /\ mapping[k].server_to_client[i] # None
                          /\ mapping[k].server_to_client[i].session \in S
                         THEN None ELSE mapping[k].server_to_client[i]
      BY <2>1, MappingsFacts, ClearedFacts
    <3> QED
      BY <2>2, <3>1
  <2>3. CASE S = {} /\ mapping' = mapping
    BY <2>3, MappingsFacts DEF IInv, TypeOK
  <2> QED
    BY <2>2, <2>3
\* What stays on record is of a session that goes on, and has its user still; or has
\* no id, and is of a session that is gone.
<1>2. ASSUME NEW k \in Kinds, NEW i \in ServerIds, mapping'[k].server_to_client[i] # None
      PROVE  LET e == mapping[k].server_to_client[i]
             IN  /\ mapping'[k].server_to_client[i] = e /\ e # None
                 /\ e.req_id = i[2]
                 /\ phase'[e.session] \in Admitted \cup {"done"}
                 /\ phase'[e.session] \in Admitted => holder'[i[1]] = e.session
                 /\ i[2] # Empty => phase'[e.session] \in Admitted /\ e.session \notin S
  <2> DEFINE e == mapping[k].server_to_client[i]
  <2>1. mapping'[k].server_to_client[i] = e /\ e # None /\ (i[2] # Empty => e.session \notin S)
    BY <1>1, <1>2
  <2>2. /\ e.session \in Sessions /\ e.req_id = i[2]
        /\ phase[e.session] \in Admitted \cup {"done"}
        /\ phase[e.session] \in Admitted => holder[i[1]] = e.session
        /\ i[2] # Empty => phase[e.session] \in Admitted
    BY <2>1, EntryFacts
  <2>3. e.session # None /\ i[1] \in Users
    BY <2>2, IdFacts, NoneIsNoSession
  <2> HIDE DEF e
  <2>4. CASE e.session \in D
    <3>1. phase'[e.session] = "done"
      BY <2>4
    <3>2. e.session \notin S => phase[e.session] \notin Admitted
      BY <2>4
    <3> QED
      BY <2>1, <2>2, <3>1, <3>2 DEF e, Admitted
  <2>5. CASE e.session \notin D
    <3>1. phase[e.session] \in Admitted => phase'[e.session] \in Admitted /\ holder'[i[1]] = e.session
      BY <2>2, <2>3, <2>5
    <3>2. phase[e.session] = "done" => phase'[e.session] = "done"
      BY <2>2, <2>5
    <3>3. e.session \notin S
      BY <2>5
    <3> QED
      BY <2>1, <2>2, <3>1, <3>2, <3>3 DEF e, Admitted
  <2> QED
    BY <2>4, <2>5
<1>3. TypeOK' /\ QueriesPaired'
    BY <1>1 DEF IInv, TypeOK, QueriesPaired
<1>4. TheDeadAreForgotten'
    BY <1>2 DEF TheDeadAreForgotten, Admitted
<1>5. RecordsAreTheUsers'
    BY <1>2 DEF RecordsAreTheUsers
<1>6. AnswersStayWithTheUser' /\ AnswersArrive'
    BY DEF AnswersStayWithTheUser, AnswersArrive
<1>7. ASSUME NEW q \in bridge
      PROVE  /\ phase'[q.session] \in Admitted \cup {"done"}
             /\ phase'[q.session] \in Admitted =>
                  phase[q.session] \in Admitted /\ q.session \notin D
  <2>1. q.session \in Sessions /\ phase[q.session] \in Admitted \cup {"done"}
    BY BridgeFacts DEF IInv, RequestsAreSent
  <2> QED
    BY <2>1 DEF Admitted
<1>8. RequestsAreSent'
    BY <1>7 DEF IInv, RequestsAreSent
<1>9. OnRecord'
  <2> SUFFICES ASSUME NEW p \in bridge, p.unique, Awaits(p), phase'[p.session] \in Admitted
               PROVE  LET d == mapping'[p.kind].server_to_client[p.id]
                      IN  /\ d # None /\ d.session = p.session
                          /\ p.type = "SNAPSHOT_UPDATES" => d.keep_alive
    BY DEF OnRecord, Found, Awaits
  <2>1. /\ p.kind \in Kinds /\ p.id \in ServerIds
        /\ phase[p.session] \in Admitted /\ p.session \notin S
    BY <1>7, BridgeFacts DEF IInv
  <2>2. /\ Found(p) # None /\ Found(p).session = p.session
        /\ p.type = "SNAPSHOT_UPDATES" => Found(p).keep_alive
    BY <2>1 DEF IInv, OnRecord
  <2>3. mapping'[p.kind].server_to_client[p.id] = Found(p)
    BY <1>1, <2>1, <2>2 DEF Found
  <2> QED
    BY <2>2, <2>3
<1>10. RecordsAreRequests'
  <2> SUFFICES ASSUME NEW k \in Kinds, NEW i \in ServerIds,
                      mapping'[k].server_to_client[i] # None, i[2] # Empty
               PROVE  \E p \in bridge' :
                        /\ p.kind = k /\ p.id = i
                        /\ mapping'[k].server_to_client[i].keep_alive =>
                             p.type \in {"SNAPSHOT_UPDATES", "REFUSED"}
    BY DEF RecordsAreRequests
  <2> DEFINE e == mapping[k].server_to_client[i]
  <2>1. mapping'[k].server_to_client[i] = e /\ e # None /\ e.session \notin S
    BY <1>2
  <2>2. e.session \in Sessions /\ phase[e.session] \in Admitted
    BY <2>1, EntryFacts
  <2>3. \E p \in bridge : /\ p.kind = k /\ p.id = i
                          /\ e.keep_alive => p.type \in {"SNAPSHOT_UPDATES", "REFUSED"}
    BY <2>1 DEF IInv, RecordsAreRequests
  <2> QED
    BY <2>1, <2>2, <2>3
<1> QED
    BY <1>3, <1>4, <1>5, <1>6, <1>8, <1>9, <1>10 DEF IInv

\* When sessions are done, their users are free, and the registry stays one.
LEMMA FinishFacts ==
    ASSUME TypeOK, OneHolder, NEW S \in SUBSET Sessions, Service!Finish(S)
    PROVE  /\ phase' \in [Sessions -> {"new", "joining", "active", "leaving", "done"}]
           /\ holder' \in [Users -> Sessions \cup {None}]
           /\ \A s \in Sessions : phase'[s] = IF s \in S THEN "done" ELSE phase[s]
           /\ \A u \in Users : holder[u] # None /\ holder[u] \notin S => holder'[u] = holder[u]
           /\ OneHolder'
<1>1. holder' = [u \in Users |-> IF holder[u] \in S THEN None ELSE holder[u]]
    BY DEF Service!Finish
<1>2. phase' = [s \in Sessions |-> IF s \in S THEN "done" ELSE phase[s]]
    BY DEF Service!Finish
<1>3. /\ phase' \in [Sessions -> {"new", "joining", "active", "leaving", "done"}]
      /\ holder' \in [Users -> Sessions \cup {None}]
      /\ \A s \in Sessions : phase'[s] = IF s \in S THEN "done" ELSE phase[s]
      /\ \A u \in Users : holder'[u] = IF holder[u] \in S THEN None ELSE holder[u]
    BY <1>1, <1>2 DEF TypeOK
<1>4. \A u \in Users : holder'[u] # None => holder'[u] = holder[u] /\ holder[u] \notin S
    BY <1>3
<1>5. \A u \in Users : holder'[u] # None => phase'[holder'[u]] \in LoggedOn
  <2> SUFFICES ASSUME NEW u \in Users, holder'[u] # None PROVE phase'[holder[u]] \in LoggedOn
    BY <1>4
  <2>1. holder[u] \in Sessions /\ holder[u] \notin S /\ holder[u] # None
    BY <1>4 DEF TypeOK
  <2> QED
    BY <1>3, <2>1 DEF OneHolder
<1>6. \A s \in Sessions : phase'[s] \in LoggedOn => \E u \in Users : holder'[u] = s
  <2> SUFFICES ASSUME NEW s \in Sessions, phase'[s] \in LoggedOn
               PROVE  \E u \in Users : holder'[u] = s
    OBVIOUS
  <2>1. s \notin S /\ phase[s] \in LoggedOn
    BY <1>3 DEF LoggedOn
  <2>2. PICK u \in Users : holder[u] = s
    BY <2>1 DEF OneHolder
  <2> QED
    BY <1>3, <2>1, <2>2
<1>7. \A u, v \in Users : holder'[u] # None /\ holder'[u] = holder'[v] => u = v
    BY <1>4 DEF OneHolder
<1> QED
    BY <1>3, <1>5, <1>6, <1>7 DEF OneHolder

\* A user that nobody has is taken by a session that has none.
LEMMA JoinFacts ==
    ASSUME TypeOK, OneHolder, NEW s \in Sessions, NEW u \in Users, Service!Join(s, u)
    PROVE  /\ phase' \in [Sessions -> {"new", "joining", "active", "leaving", "done"}]
           /\ holder' \in [Users -> Sessions \cup {None}]
           /\ \A t \in Sessions : phase'[t] = IF t = s THEN "joining" ELSE phase[t]
           /\ \A v \in Users : holder[v] # None => holder'[v] = holder[v]
           /\ OneHolder'
<1>1. /\ phase' = [phase EXCEPT ![s] = "joining"] /\ holder' = [holder EXCEPT ![u] = s]
      /\ holder[u] = None /\ phase[s] = "new"
    BY DEF Service!Join
<1>2. /\ phase' \in [Sessions -> {"new", "joining", "active", "leaving", "done"}]
      /\ holder' \in [Users -> Sessions \cup {None}]
      /\ \A t \in Sessions : phase'[t] = IF t = s THEN "joining" ELSE phase[t]
      /\ \A v \in Users : holder'[v] = IF v = u THEN s ELSE holder[v]
    BY <1>1 DEF TypeOK
<1>3. \A v \in Users : holder[v] # s
    BY <1>1, NoneIsNoSession DEF OneHolder, LoggedOn
<1>4. \A v \in Users : holder'[v] # None => phase'[holder'[v]] \in LoggedOn
  <2> SUFFICES ASSUME NEW v \in Users, holder'[v] # None PROVE phase'[holder'[v]] \in LoggedOn
    OBVIOUS
  <2>1. CASE v = u
    BY <1>2, <2>1 DEF LoggedOn
  <2>2. CASE v # u
    <3>1. holder'[v] = holder[v] /\ holder[v] \in Sessions /\ holder[v] # s /\ holder[v] # None
      BY <1>2, <1>3, <2>2 DEF TypeOK
    <3> QED
      BY <1>2, <3>1 DEF OneHolder
  <2> QED
    BY <2>1, <2>2
<1>5. \A t \in Sessions : phase'[t] \in LoggedOn => \E v \in Users : holder'[v] = t
  <2> SUFFICES ASSUME NEW t \in Sessions, phase'[t] \in LoggedOn
               PROVE  \E v \in Users : holder'[v] = t
    OBVIOUS
  <2>1. CASE t = s
    BY <1>2, <2>1
  <2>2. CASE t # s
    <3>1. PICK v \in Users : holder[v] = t
      BY <1>2, <2>2 DEF OneHolder
    <3> QED
      BY <1>1, <1>2, <3>1, NoneIsNoSession
  <2> QED
    BY <2>1, <2>2
<1>6. \A v, w \in Users : holder'[v] # None /\ holder'[v] = holder'[w] => v = w
    BY <1>2, <1>3 DEF OneHolder
<1> QED
    BY <1>1, <1>2, <1>4, <1>5, <1>6 DEF OneHolder

\* A session that is logged on goes on to another phase of that.
LEMMA MoveFacts ==
    ASSUME TypeOK, OneHolder, NEW s \in Sessions, phase[s] \in LoggedOn,
           NEW p \in Admitted, phase' = [phase EXCEPT ![s] = p], holder' = holder
    PROVE  /\ phase' \in [Sessions -> {"new", "joining", "active", "leaving", "done"}]
           /\ \A t \in Sessions : phase'[t] = IF t = s THEN p ELSE phase[t]
           /\ OneHolder'
<1>1. p \in LoggedOn
    BY DEF LoggedOn, Admitted
<1>2. /\ phase' \in [Sessions -> {"new", "joining", "active", "leaving", "done"}]
      /\ \A t \in Sessions : phase'[t] = IF t = s THEN p ELSE phase[t]
    BY <1>1 DEF TypeOK, LoggedOn
<1>3. \A t \in Sessions : phase'[t] \in LoggedOn <=> phase[t] \in LoggedOn
    BY <1>1, <1>2
<1> QED
    BY <1>2, <1>3 DEF OneHolder, TypeOK

\* Logons, logouts, and the end of sessions that were not logged on.
LEMMA LogonStepStep == ASSUME IInv, LogonStep PROVE IInv'
<1>1. /\ TypeOK /\ OneHolder /\ bridge' = bridge /\ astray' = None /\ mapping' = mapping
      /\ state' = state
    BY DEF LogonStep, IInv
<1>2. ASSUME up' \in BOOLEAN, holder' \in [Users -> Sessions \cup {None}],
             phase' \in [Sessions -> {"new", "joining", "active", "leaving", "done"}],
             OneHolder',
             NEW D \in SUBSET Sessions,
             \A s \in D : phase[s] = "new" /\ phase'[s] = "done",
             \A u \in Users : holder[u] # None /\ holder[u] \notin D => holder'[u] = holder[u],
             \A s \in Sessions : s \notin D =>
               /\ phase[s] \in Admitted => phase'[s] \in Admitted
               /\ phase[s] = "done" => phase'[s] = "done"
      PROVE  IInv'
  <2>1. {} \in SUBSET D /\ \A s \in D \ {} : phase[s] \notin Admitted
    BY <1>2 DEF Admitted
  <2> QED
    BY <1>1, <1>2, <2>1, SessionsStep
<1>3. ASSUME up' \in BOOLEAN, holder' \in [Users -> Sessions \cup {None}],
             phase' \in [Sessions -> {"new", "joining", "active", "leaving", "done"}],
             OneHolder',
             \A u \in Users : holder[u] # None => holder'[u] = holder[u],
             \A s \in Sessions :
               /\ phase[s] \in Admitted => phase'[s] \in Admitted
               /\ phase[s] = "done" => phase'[s] = "done"
      PROVE  IInv'
  <2>1. {} \in SUBSET Sessions
    OBVIOUS
  <2> QED
    BY <1>2, <1>3, <2>1
<1>4. CASE Service!Raise
    BY <1>1, <1>3, <1>4 DEF Service!Raise, TypeOK, OneHolder
<1>5. ASSUME NEW s \in Sessions, NEW u \in Users, Service!Join(s, u) PROVE IInv'
  <2>1. up' \in BOOLEAN /\ phase[s] = "new"
    BY <1>1, <1>5 DEF Service!Join, TypeOK
  <2> QED
    BY <1>1, <1>3, <1>5, <2>1, JoinFacts DEF Admitted
<1>6. ASSUME NEW s \in Sessions, NEW p \in Admitted, phase[s] \in {"joining", "active"},
             phase' = [phase EXCEPT ![s] = p], UNCHANGED <<up, holder>>
      PROVE  IInv'
  <2>1. phase[s] \in LoggedOn /\ phase[s] # "done" /\ up' \in BOOLEAN
    BY <1>1, <1>6 DEF LoggedOn, TypeOK
  <2>2. /\ phase' \in [Sessions -> {"new", "joining", "active", "leaving", "done"}]
        /\ \A t \in Sessions : phase'[t] = IF t = s THEN p ELSE phase[t]
        /\ OneHolder'
    BY <1>1, <1>6, <2>1, MoveFacts
  <2> QED
    BY <1>1, <1>3, <1>6, <2>1, <2>2 DEF TypeOK
<1>7. ASSUME NEW s \in Sessions, Service!Admit(s) PROVE IInv'
    BY <1>6, <1>7 DEF Service!Admit, Admitted
<1>8. ASSUME NEW s \in Sessions, Service!Retract(s) PROVE IInv'
    BY <1>6, <1>8 DEF Service!Retract, Admitted
<1>9. ASSUME NEW s \in Sessions, phase[s] = "new", Service!End(s) PROVE IInv'
  <2>1. {s} \in SUBSET Sessions /\ Service!Finish({s}) /\ up' \in BOOLEAN
    BY <1>1, <1>9 DEF Service!End, TypeOK
  <2>2. /\ phase' \in [Sessions -> {"new", "joining", "active", "leaving", "done"}]
        /\ holder' \in [Users -> Sessions \cup {None}]
        /\ \A t \in Sessions : phase'[t] = IF t \in {s} THEN "done" ELSE phase[t]
        /\ \A u \in Users : holder[u] # None /\ holder[u] \notin {s} => holder'[u] = holder[u]
        /\ OneHolder'
    BY <1>1, <2>1, FinishFacts
  <2> QED
    BY <1>2, <1>9, <2>1, <2>2
<1> QED
    BY <1>4, <1>5, <1>7, <1>8, <1>9 DEF LogonStep

\* A client that had logged on is gone.
LEMMA DisconnectedStep == ASSUME IInv, NEW s \in Sessions, Disconnected(s) PROVE IInv'
<1>1. /\ Service!Finish({s}) /\ up' = up /\ astray' = None /\ bridge' = bridge
      /\ mapping' = [k \in Kinds |-> clear_req_ids(mapping[k], {s})]
      /\ state' = state
    BY DEF Disconnected, Service!End
<1>2. TypeOK /\ OneHolder /\ {s} \in SUBSET Sessions /\ {s} \in SUBSET {s} /\ up' \in BOOLEAN
    BY <1>1 DEF IInv, TypeOK
<1>3. /\ phase' \in [Sessions -> {"new", "joining", "active", "leaving", "done"}]
      /\ holder' \in [Users -> Sessions \cup {None}]
      /\ \A t \in Sessions : phase'[t] = IF t \in {s} THEN "done" ELSE phase[t]
      /\ \A u \in Users : holder[u] # None /\ holder[u] \notin {s} => holder'[u] = holder[u]
      /\ OneHolder'
    BY <1>1, <1>2, FinishFacts
<1> QED
    BY <1>1, <1>2, <1>3, SessionsStep

\* The bridge is lost, and with it the requests that it held.
LEMMA BridgeLostStep == ASSUME IInv, BridgeLost PROVE IInv'
<1>1. PICK N \in SUBSET {s \in Sessions : phase[s] = "new"} : Service!Finish(Service!Inside \cup N)
    BY DEF BridgeLost, Service!Drop
<1> DEFINE S == Service!Inside
           D == S \cup N
<1>2. /\ up' = FALSE /\ astray' = None /\ bridge' = {}
      /\ mapping' = [k \in Kinds |-> clear_req_ids(mapping[k], S)]
      /\ state' = state
    BY DEF BridgeLost, Service!Drop
<1>3. /\ D \in SUBSET Sessions /\ S \in SUBSET D /\ Service!Finish(D)
      /\ \A s \in D \ S : phase[s] = "new"
      /\ \A s \in Sessions : phase[s] \in Admitted => s \in S
    BY <1>1 DEF Service!Inside, Admitted
<1> HIDE DEF S, D
<1>4. /\ phase' \in [Sessions -> {"new", "joining", "active", "leaving", "done"}]
      /\ holder' \in [Users -> Sessions \cup {None}]
      /\ \A t \in Sessions : phase'[t] = IF t \in D THEN "done" ELSE phase[t]
      /\ \A u \in Users : holder[u] # None /\ holder[u] \notin D => holder'[u] = holder[u]
      /\ OneHolder'
    BY <1>3, FinishFacts DEF IInv
<1>5. \A s \in D : phase'[s] = "done"
    BY <1>3, <1>4
<1>6. \A s \in D \ S : phase[s] \notin Admitted
    BY <1>3 DEF Admitted
<1> QED
    BY <1>2, <1>3, <1>4, <1>5, <1>6, SessionsStep

\* A client's request goes out, is an UNSUBSCRIBE, or is refused and changes nothing.
LEMMA SubscribeStep ==
    ASSUME IInv, NEW k \in Kinds, NEW s \in Sessions, NEW r \in ReqIds,
           NEW type \in {"SNAPSHOT", "SNAPSHOT_UPDATES"}, From(s), Subscribe(k, s, r, type)
    PROVE  IInv'
<1> DEFINE id == create_request_id(client_id(s), r)
<1>1. PICK unique \in BOOLEAN : unique = ({q \in bridge : q.kind = k /\ q.id = id} = {})
    OBVIOUS
<1>2. phase[s] = "active" /\ astray' = None /\ UNCHANGED <<service, state>>
    BY DEF From
<1>3. ~exists(mapping[k], s, r) /\ Sent(k, s, r, type, id, unique)
    BY <1>1 DEF Subscribe, Sent
<1>4. unique => \A q \in bridge : ~(q.kind = k /\ q.id = id)
    BY <1>1
<1> HIDE DEF id
<1>5. id = create_request_id(client_id(s), r)
    BY DEF id
<1> QED
    BY <1>2, <1>3, <1>4, <1>5, SentStep

LEMMA RefuseStep == ASSUME IInv, NEW s \in Sessions, From(s), Refuse PROVE IInv'
<1>1. UNCHANGED <<up, phase, holder, mapping, state, bridge>> /\ astray' = None
    BY DEF From, Refuse, service
<1> QED
    BY <1>1
       DEF IInv, TypeOK, OneHolder, QueriesPaired, TheDeadAreForgotten, RecordsAreTheUsers,
           RequestsAreSent, OnRecord, Awaits, Found, RecordsAreRequests,
           AnswersStayWithTheUser, AnswersArrive

LEMMA ClientStepStep == ASSUME IInv, NEW s \in Sessions, ClientStep(s) PROVE IInv'
<1>1. ASSUME NEW k \in Kinds, NEW r \in ReqIds, From(s), Subscribe(k, s, r, "SNAPSHOT") \/ Refuse
      PROVE  IInv'
    BY <1>1, SubscribeStep, RefuseStep
<1>2. ASSUME NEW r \in ReqIds,
             \/ OrderStatusRequest(s, r)
             \/ OrderMassStatusRequest(s, r)
             \/ OrderMassCancelRequest(s, r)
      PROVE  IInv'
  <2>1. {"ord_status_req_id", "mass_status_req_id", "mass_cancel_cl_ord_id"} \subseteq Kinds
    BY DEF Kinds
  <2> QED
    BY <1>1, <1>2, <2>1 DEF OrderStatusRequest, OrderMassStatusRequest, OrderMassCancelRequest
<1>3. ASSUME NEW r \in ReqIds, NEW type \in Types, TradeCaptureReportRequest(s, r, type)
      PROVE  IInv'
  <2> DEFINE t == IF type = "UNDEFINED" THEN "SNAPSHOT" ELSE type
             k == "trade_request_id"
  <2>1. /\ From(s)
        /\ \/ t \in {"SNAPSHOT", "SNAPSHOT_UPDATES"} /\ Subscribe(k, s, r, t)
           \/ Unsubscribe(k, s, r)
           \/ Refuse
    BY <1>3 DEF TradeCaptureReportRequest
  <2>2. k \in Kinds
    BY DEF Kinds
  <2> HIDE DEF t, k
  <2>3. CASE t \in {"SNAPSHOT", "SNAPSHOT_UPDATES"} /\ Subscribe(k, s, r, t)
    BY <2>1, <2>2, <2>3, SubscribeStep
  <2>4. CASE Unsubscribe(k, s, r)
    <3>1. phase[s] = "active" /\ astray' = None /\ UNCHANGED <<service, state>>
      BY <2>1 DEF From
    <3> QED
      BY <2>2, <2>4, <3>1, UnsubscribeStep
  <2>5. CASE Refuse
    BY <2>1, <2>5, RefuseStep
  <2> QED
    BY <2>1, <2>3, <2>4, <2>5
<1> QED
    BY <1>2, <1>3, DisconnectedStep DEF ClientStep

-----------------------------------------------------------------------------
(* The invariant holds.                                                    *)

LEMMA InitIInv == Init => IInv
<1> SUFFICES ASSUME Init PROVE IInv
    OBVIOUS
<1>1. /\ phase = [s \in Sessions |-> "new"] /\ holder = [u \in Users |-> None] /\ up = FALSE
      /\ mapping = [k \in Kinds |-> EmptyMapping] /\ state = {} /\ bridge = {} /\ astray = None
    BY DEF Init, Service!Init
<1>2. /\ EmptyMapping \in Mapping
      /\ \A i \in ServerIds : EmptyMapping.server_to_client[i] = None
      /\ \A s \in Sessions, r \in ReqIds : ~exists(EmptyMapping, s, r)
    BY EmptyFacts DEF EmptyMapping
<1>3. Paired(Named(EmptyMapping))
    BY <1>2, PairedIfNamed
<1>4. TypeOK
    BY <1>1, <1>2 DEF TypeOK
<1>5. OneHolder
    BY <1>1 DEF OneHolder, LoggedOn
<1>6. QueriesPaired
    BY <1>1, <1>3 DEF QueriesPaired
<1>7. \A k \in Kinds, i \in ServerIds : mapping[k].server_to_client[i] = None
    BY <1>1, <1>2
<1>8. TheDeadAreForgotten /\ RecordsAreTheUsers /\ RecordsAreRequests
    BY <1>7 DEF TheDeadAreForgotten, RecordsAreTheUsers, RecordsAreRequests
<1> QED
    BY <1>1, <1>4, <1>5, <1>6, <1>8
       DEF IInv, RequestsAreSent, OnRecord, AnswersStayWithTheUser, AnswersArrive

\* Every step keeps the invariant: one case per kind of step.
LEMMA NextIInv == IInv /\ [Next]_vars => IInv'
<1> SUFFICES ASSUME IInv, [Next]_vars PROVE IInv'
    OBVIOUS
<1>1. CASE UNCHANGED vars
    BY <1>1
       DEF vars, service, IInv, TypeOK, OneHolder, QueriesPaired, TheDeadAreForgotten,
           RecordsAreTheUsers, RequestsAreSent, OnRecord, Awaits, Found, RecordsAreRequests,
           AnswersStayWithTheUser, AnswersArrive
<1>2. CASE LogonStep
    BY <1>2, LogonStepStep
<1>3. ASSUME NEW s \in Sessions, ClientStep(s) PROVE IInv'
    BY <1>3, ClientStepStep
<1>4. ASSUME NEW q \in bridge, q.type # "REFUSED", BridgeStep(q) PROVE IInv'
    BY <1>4, OrderStatusStep, OrderMassStatusStep, OrderMassCancelStep, TradeAckStep,
       TradeReportStep, RejectStep DEF BridgeStep
<1>5. CASE BridgeLost
    BY <1>5, BridgeLostStep
<1> QED
    BY <1>1, <1>2, <1>3, <1>4, <1>5 DEF Next

\* The invariant, for any users, sessions, request ids and numbers of requests.
THEOREM Invariant == Spec => []IInv
    BY InitIInv, NextIInv, PTL DEF Spec

\* All state of these handlers stays in its domain.
THEOREM TypeCorrect == Spec => []TypeOK
<1>1. IInv => TypeOK
    BY DEF IInv
<1> QED
    BY <1>1, Invariant, PTL

\* Both directions of the four mappings agree on every request that has an id.
THEOREM MappingsArePaired == Spec => []QueriesPaired
<1>1. IInv => QueriesPaired
    BY DEF IInv
<1> QED
    BY <1>1, Invariant, PTL

\* After a session died, no request that has an id is on record for it.
THEOREM NothingIsKeptOfTheDead == Spec => []TheDeadAreForgotten
<1>1. IInv => TheDeadAreForgotten
    BY DEF IInv
<1> QED
    BY <1>1, Invariant, PTL

\* No answer to a user's request is passed on to another user.
THEOREM AnswersAreTheUsers == Spec => []AnswersStayWithTheUser
<1>1. IInv => AnswersStayWithTheUser
    BY DEF IInv
<1> QED
    BY <1>1, Invariant, PTL

\* The answers to a request under an id of its own reach the client, but for the
\* exceptions that AnswersArrive names.
THEOREM AnswersReachWhoAsked == Spec => []AnswersArrive
<1>1. IInv => AnswersArrive
    BY DEF IInv
<1> QED
    BY <1>1, Invariant, PTL

\* A request that the bridge has finished is off the record: its id is free again.
THEOREM RequestsAreForgotten == Spec => []RequestsEnd
<1>1. IInv => RequestsEnd
    BY DEF IInv, RecordsAreRequests, RequestsEnd
<1> QED
    BY <1>1, Invariant, PTL

-----------------------------------------------------------------------------
(* The requests on record are those that RequestService allows.  The shape of *)
(* the argument: a step changes at most one entry of the record, or takes off *)
(* all entries of the sessions that it ends.  Only requests with an id count. *)

\* What a step may do, as RequestService has it.
Refined == Service!RequestNext \/ UNCHANGED Service!requestVars

\* The mappings without the requests that have no id.
NamedMappings == [k \in Kinds |-> Named(mapping[k])]

LEMMA RecordIs ==
    record = Records(Kinds, NamedMappings) /\ record' = Records(Kinds, NamedMappings')
BY DEF record, Records, NamedMappings

LEMMA NamedEntries ==
    ASSUME NEW k \in Kinds, NEW i \in ServerIds
    PROVE  /\ NamedMappings[k].server_to_client[i] =
                IF i[2] = Empty THEN None ELSE mapping[k].server_to_client[i]
           /\ NamedMappings'[k].server_to_client[i] =
                IF i[2] = Empty THEN None ELSE mapping'[k].server_to_client[i]
BY DEF NamedMappings, Named

\* What the invariant says of them.
LEMMA NamedMappingsFacts ==
    ASSUME IInv, NEW k \in Kinds
    PROVE  /\ NamedMappings[k] \in Mapping /\ Paired(NamedMappings[k])
           /\ NamedMappings[k].client_to_server = mapping[k].client_to_server
<1>1. mapping[k] \in Mapping /\ Paired(Named(mapping[k]))
    BY MappingsFacts
<1> QED
    BY <1>1, NamedFacts DEF NamedMappings

\* A step that concerns neither sessions nor what the ids of requests stand for.
LEMMA SameStep ==
    ASSUME UNCHANGED service,
           \A k \in Kinds, i \in ServerIds : i[2] # Empty =>
             mapping'[k].server_to_client[i] = mapping[k].server_to_client[i]
    PROVE  Refined
<1>1. \A k \in Kinds, i \in ServerIds :
        NamedMappings'[k].server_to_client[i] = NamedMappings[k].server_to_client[i]
    BY NamedEntries
<1>2. record' = record
    BY <1>1, RecordIs, RecordsAlike
<1> QED
    BY <1>2 DEF Refined, Service!requestVars, Service!vars, service

\* A new request of an active session goes on record.
LEMMA GoesOnRecord ==
    ASSUME IInv, UNCHANGED service, NEW k0 \in Kinds, NEW id \in ServerIds, id[2] # Empty,
           NEW e \in Entry, phase[e.session] = "active",
           ~exists(mapping[k0], e.session, e.req_id), mapping[k0].server_to_client[id] = None,
           \A k \in Kinds, i \in ServerIds : i[2] # Empty =>
             mapping'[k].server_to_client[i] =
               IF k = k0 /\ i = id THEN e ELSE mapping[k].server_to_client[i]
    PROVE  Refined
<1>1. /\ NamedMappings[k0] \in Mapping /\ Paired(NamedMappings[k0])
      /\ ~exists(NamedMappings[k0], e.session, e.req_id)
      /\ NamedMappings[k0].server_to_client[id] = None
      /\ e.session \in Sessions /\ e.req_id \in ReqIds
    BY NamedMappingsFacts, NamedEntries DEF Entry
<1>2. \A k \in Kinds, i \in ServerIds :
        NamedMappings'[k].server_to_client[i] =
          IF k = k0 /\ i = id THEN e ELSE NamedMappings[k].server_to_client[i]
    BY NamedEntries
<1>3. Added(Records(Kinds, NamedMappings'), Records(Kinds, NamedMappings), k0, id, e)
    BY <1>1, <1>2, RecordsWith
<1>4. Added(record', record, k0, id, e)
    BY <1>3, RecordIs
<1>5. Service!Record(k0, id, e.session, e.req_id) /\ record'[k0] # record[k0]
    BY <1>4 DEF Added, Entered, Service!Record, Service!Enter
<1>6. Service!RequestStep(k0)
    BY <1>1, <1>5 DEF Service!RequestStep
<1> QED
    BY <1>6 DEF Refined, Service!RequestNext, Service!vars, service

\* A request goes off the record, if it was there and has an id.
LEMMA ForgetStep ==
    ASSUME IInv, UNCHANGED service, NEW k0 \in Kinds, NEW id \in ServerIds,
           \A k \in Kinds, i \in ServerIds :
             mapping'[k].server_to_client[i] =
               IF k = k0 /\ i = id THEN None ELSE mapping[k].server_to_client[i]
    PROVE  Refined
<1>1. CASE id[2] = Empty \/ mapping[k0].server_to_client[id] = None
    BY <1>1, SameStep
<1>2. CASE id[2] # Empty /\ mapping[k0].server_to_client[id] # None
  <2>1. NamedMappings[k0] \in Mapping /\ NamedMappings[k0].server_to_client[id] # None
    BY <1>2, NamedMappingsFacts, NamedEntries
  <2>2. \A k \in Kinds, i \in ServerIds :
          NamedMappings'[k].server_to_client[i] =
            IF k = k0 /\ i = id THEN None ELSE NamedMappings[k].server_to_client[i]
    BY NamedEntries
  <2>3. Removed(Records(Kinds, NamedMappings'), Records(Kinds, NamedMappings), k0, id)
    BY <2>1, <2>2, RecordsLess
  <2>4. Removed(record', record, k0, id)
    BY <2>3, RecordIs
  <2>5. Service!Forget(k0, id) /\ record'[k0] # record[k0]
    BY <2>4 DEF Removed, Entered, Service!Forget, Service!Enter
  <2>6. Service!RequestStep(k0)
    BY <2>5 DEF Service!RequestStep
  <2> QED
    BY <2>6 DEF Refined, Service!RequestNext, Service!vars, service
<1> QED
    BY <1>1, <1>2

\* remove_req_id takes one request off.
LEMMA ForgetRefines ==
    ASSUME IInv, UNCHANGED service, NEW k0 \in Kinds, NEW id \in ServerIds,
           mapping' = [mapping EXCEPT ![k0] = remove_req_id(@, id)]
    PROVE  Refined
<1>1. mapping[k0] \in Mapping /\ Paired(Named(mapping[k0])) /\ Labelled(mapping[k0])
    BY MappingsFacts
<1> DEFINE n == remove_req_id(mapping[k0], id)
<1>2. \A i \in ServerIds :
        n.server_to_client[i] = IF i = id THEN None ELSE mapping[k0].server_to_client[i]
    BY <1>1, ForgetFacts
<1>3. \A k \in Kinds : mapping'[k] = IF k = k0 THEN n ELSE mapping[k]
    BY DEF IInv, TypeOK
<1> HIDE DEF n
<1>4. \A k \in Kinds, i \in ServerIds :
        mapping'[k].server_to_client[i] =
          IF k = k0 /\ i = id THEN None ELSE mapping[k].server_to_client[i]
    BY <1>2, <1>3
<1> QED
    BY <1>4, ForgetStep

\* Sessions come and go: of those that had logged on, exactly the sessions S are done
\* by it, and exactly what is on record for them goes.
LEMMA ComeAndGoStep ==
    ASSUME IInv, NEW S \in SUBSET Sessions, Service!Next, ~UNCHANGED Service!vars,
           \A s \in Sessions : phase[s] \in Admitted => (phase'[s] = "done" <=> s \in S),
           \A k \in Kinds, i \in ServerIds : i[2] # Empty =>
             mapping'[k].server_to_client[i] =
               IF /\ mapping[k].server_to_client[i] # None
                  /\ mapping[k].server_to_client[i].session \in S
                 THEN None ELSE mapping[k].server_to_client[i]
    PROVE  Refined
<1>1. ASSUME NEW k \in Kinds, NEW i \in ServerIds
      PROVE  NamedMappings'[k].server_to_client[i] =
               IF /\ NamedMappings[k].server_to_client[i] # None
                  /\ phase'[NamedMappings[k].server_to_client[i].session] = "done"
                 THEN None ELSE NamedMappings[k].server_to_client[i]
  <2>1. CASE i[2] = Empty
    BY <2>1, NamedEntries
  <2>2. CASE i[2] # Empty
    <3> DEFINE e == mapping[k].server_to_client[i]
    <3>1. /\ NamedMappings[k].server_to_client[i] = e
          /\ NamedMappings'[k].server_to_client[i] = mapping'[k].server_to_client[i]
      BY <2>2, NamedEntries
    <3>2. e # None => e.session \in Sessions /\ phase[e.session] \in Admitted
      BY <2>2, EntryFacts
    <3>3. mapping'[k].server_to_client[i] = IF e # None /\ e.session \in S THEN None ELSE e
      BY <2>2
    <3> HIDE DEF e
    <3> QED
      BY <3>1, <3>2, <3>3
  <2> QED
    BY <2>1, <2>2
<1>2. \A k \in Kinds : NamedMappings[k] \in Mapping
    BY NamedMappingsFacts
<1>3. Records(Kinds, NamedMappings') = Without(Kinds, Records(Kinds, NamedMappings), phase')
    BY <1>1, <1>2, RecordsWithout
<1>4. record' = Without(Kinds, record, phase')
    BY <1>3, RecordIs
<1>5. Service!ComeAndGo
    BY <1>4 DEF Service!ComeAndGo, Without
<1> QED
    BY <1>5 DEF Refined, Service!RequestNext

\* A request goes out; one without an id is not on record.
LEMMA SubscribeRefines ==
    ASSUME IInv, NEW k0 \in Kinds, NEW s \in Sessions, NEW r \in ReqIds,
           NEW type \in {"SNAPSHOT", "SNAPSHOT_UPDATES"}, From(s), Subscribe(k0, s, r, type)
    PROVE  Refined
<1>0. PICK b \in BOOLEAN : b = (type = "SNAPSHOT_UPDATES")
    OBVIOUS
<1> DEFINE m  == mapping[k0]
           id == create_request_id(client_id(s), r)
           n  == Record(m, s, r, id, b)
           e  == [session |-> s, req_id |-> r, keep_alive |-> b]
<1>1. UNCHANGED service /\ phase[s] = "active"
    BY DEF From
<1>2. /\ m \in Mapping /\ Paired(Named(m)) /\ Labelled(m)
      /\ phase[s] \in LoggedOn
    BY <1>1, MappingsFacts DEF LoggedOn
<1>3. id = <<client_id(s), r>> /\ client_id(s) \in Users
    BY <1>2, PartyFacts DEF IInv, create_request_id
<1>4. ~exists(m, s, r) /\ mapping' = [mapping EXCEPT ![k0] = n]
    BY <1>0 DEF Subscribe
<1> HIDE DEF id
<1>5. id \in ServerIds /\ id[2] = r
    BY <1>3, ServerIdsAssumption
<1>6. r # Empty => m.server_to_client[id] = None
  <2> SUFFICES ASSUME r # Empty, m.server_to_client[id] # None PROVE FALSE
    OBVIOUS
  <2> DEFINE d == m.server_to_client[id]
  <2>1. d.session \in Sessions /\ d.req_id = r /\ phase[d.session] \in Admitted
        /\ holder[id[1]] = d.session
    BY <1>5, EntryFacts
  <2>2. d.session = s
    BY <1>2, <1>3, <2>1, PartyFacts DEF IInv
  <2>3. m.client_to_server[d.session][d.req_id] = id
    BY <1>2, <1>5, NamedPaired
  <2> HIDE DEF d
  <2> QED
    BY <1>4, <1>5, <2>1, <2>2, <2>3, NoneIsNoEntry
<1>7. /\ e \in Entry /\ e.session = s /\ e.req_id = r
      /\ \A i \in ServerIds :
           n.server_to_client[i] =
             IF i = id /\ m.server_to_client[id] = None THEN e ELSE m.server_to_client[i]
    BY <1>2, <1>4, <1>5, <1>6, RecordFacts
<1>8. \A k \in Kinds : mapping'[k] = IF k = k0 THEN n ELSE mapping[k]
    BY <1>4 DEF IInv, TypeOK
<1> HIDE DEF n, e
<1>9. CASE r = Empty
  <2>1. \A k \in Kinds, i \in ServerIds : i[2] # Empty =>
          mapping'[k].server_to_client[i] = mapping[k].server_to_client[i]
    BY <1>5, <1>7, <1>8, <1>9
  <2> QED
    BY <1>1, <2>1, SameStep
<1>10. CASE r # Empty
  <2>1. \A k \in Kinds, i \in ServerIds : i[2] # Empty =>
          mapping'[k].server_to_client[i] =
            IF k = k0 /\ i = id THEN e ELSE mapping[k].server_to_client[i]
    BY <1>6, <1>7, <1>8, <1>10
  <2>2. id[2] # Empty /\ m.server_to_client[id] = None
    BY <1>5, <1>6, <1>10
  <2> QED
    BY <1>1, <1>4, <1>5, <1>7, <2>1, <2>2, GoesOnRecord
<1> QED
    BY <1>9, <1>10

\* A request is repeated as an UNSUBSCRIBE and forgotten.
LEMMA UnsubscribeRefines ==
    ASSUME IInv, NEW k0 \in Kinds, NEW s \in Sessions, NEW r \in ReqIds,
           From(s), Unsubscribe(k0, s, r)
    PROVE  Refined
<1> DEFINE id == create_request_id(client_id(s), r)
<1>1. UNCHANGED service /\ phase[s] \in LoggedOn
    BY DEF From, LoggedOn
<1>2. id \in ServerIds
    BY <1>1, PartyFacts, ServerIdsAssumption DEF IInv, create_request_id
<1>3. mapping' = [mapping EXCEPT ![k0] = remove_req_id(@, id)]
    BY DEF Unsubscribe
<1> HIDE DEF id
<1> QED
    BY <1>1, <1>2, <1>3, ForgetRefines

\* An answer ends its request or leaves it on record.
LEMMA AnswerRefines ==
    ASSUME IInv, NEW q \in bridge, UNCHANGED service, mapping' = Forget(q) \/ mapping' = mapping
    PROVE  Refined
<1>1. q.kind \in Kinds /\ q.id \in ServerIds
    BY BridgeFacts DEF IInv
<1>2. CASE mapping' = Forget(q)
    BY <1>1, <1>2, ForgetRefines DEF Forget
<1>3. CASE mapping' = mapping
    BY <1>3, SameStep
<1> QED
    BY <1>2, <1>3

\* Logons, logouts, and the end of sessions that were not logged on.
LEMMA LogonStepRefines == ASSUME IInv, LogonStep PROVE Refined
<1>1. UNCHANGED mapping /\ TypeOK
    BY DEF LogonStep, IInv
<1>2. CASE UNCHANGED Service!vars
  <2>1. UNCHANGED service
    BY <1>2 DEF Service!vars, service
  <2> QED
    BY <1>1, <2>1, SameStep
<1>3. CASE ~UNCHANGED Service!vars
  <2>1. Service!Next
    BY DEF LogonStep, Service!Next
  <2>2. \A s \in Sessions : phase[s] \in Admitted => phase'[s] # "done"
    <3>1. CASE Service!Raise
      BY <3>1 DEF Service!Raise, Admitted
    <3>2. ASSUME NEW t \in Sessions, NEW u \in Users, Service!Join(t, u)
          PROVE  \A s \in Sessions : phase[s] \in Admitted => phase'[s] # "done"
      BY <1>1, <3>2 DEF Service!Join, Admitted, TypeOK
    <3>3. ASSUME NEW t \in Sessions, Service!Admit(t) \/ Service!Retract(t)
          PROVE  \A s \in Sessions : phase[s] \in Admitted => phase'[s] # "done"
      BY <1>1, <3>3 DEF Service!Admit, Service!Retract, Admitted, TypeOK
    <3>4. ASSUME NEW t \in Sessions, phase[t] = "new", Service!End(t)
          PROVE  \A s \in Sessions : phase[s] \in Admitted => phase'[s] # "done"
      BY <1>1, <3>4, FinishFacts DEF Service!End, Admitted, IInv
    <3> QED
      BY <3>1, <3>2, <3>3, <3>4 DEF LogonStep
  <2>3. \A s \in Sessions : phase[s] \in Admitted => (phase'[s] = "done" <=> s \in {})
    BY <2>2
  <2>4. \A k \in Kinds, i \in ServerIds : i[2] # Empty =>
          mapping'[k].server_to_client[i] =
            IF /\ mapping[k].server_to_client[i] # None
               /\ mapping[k].server_to_client[i].session \in {}
              THEN None ELSE mapping[k].server_to_client[i]
    BY <1>1
  <2>5. {} \in SUBSET Sessions
    OBVIOUS
  <2> QED
    BY <1>3, <2>1, <2>3, <2>4, <2>5, ComeAndGoStep
<1> QED
    BY <1>2, <1>3

\* The requests of sessions S are forgotten.
LEMMA ClearMapping ==
    ASSUME IInv, NEW S \in SUBSET Sessions,
           mapping' = [k \in Kinds |-> clear_req_ids(mapping[k], S)]
    PROVE  \A k \in Kinds, i \in ServerIds : i[2] # Empty =>
             mapping'[k].server_to_client[i] =
               IF /\ mapping[k].server_to_client[i] # None
                  /\ mapping[k].server_to_client[i].session \in S
                 THEN None ELSE mapping[k].server_to_client[i]
<1> SUFFICES ASSUME NEW k \in Kinds, NEW i \in ServerIds, i[2] # Empty
             PROVE  mapping'[k].server_to_client[i] =
                      IF /\ mapping[k].server_to_client[i] # None
                         /\ mapping[k].server_to_client[i].session \in S
                        THEN None ELSE mapping[k].server_to_client[i]
    OBVIOUS
<1> DEFINE n == clear_req_ids(mapping[k], S)
<1>1. mapping[k] \in Mapping /\ Paired(Named(mapping[k])) /\ Labelled(mapping[k])
    BY MappingsFacts
<1>2. \A j \in ServerIds :
        n.server_to_client[j] =
          IF /\ j[2] # Empty /\ mapping[k].server_to_client[j] # None
             /\ mapping[k].server_to_client[j].session \in S
            THEN None ELSE mapping[k].server_to_client[j]
    BY <1>1, ClearedFacts
<1>3. mapping'[k] = n
    OBVIOUS
<1> HIDE DEF n
<1> QED
    BY <1>2, <1>3

\* A client that had logged on is gone.
LEMMA DisconnectedRefines ==
    ASSUME IInv, NEW s \in Sessions, Disconnected(s)
    PROVE  Refined
<1>1. /\ TypeOK /\ Service!End(s) /\ phase[s] # "done"
      /\ mapping' = [k \in Kinds |-> clear_req_ids(mapping[k], {s})]
    BY DEF Disconnected, IInv
<1>2. \A t \in Sessions : phase'[t] = IF t \in {s} THEN "done" ELSE phase[t]
    BY <1>1, FinishFacts DEF Service!End, IInv
<1>3. Service!Next /\ ~UNCHANGED Service!vars
    BY <1>1, <1>2 DEF Service!Next, Service!vars
<1>4. \A k \in Kinds, i \in ServerIds : i[2] # Empty =>
        mapping'[k].server_to_client[i] =
          IF /\ mapping[k].server_to_client[i] # None
             /\ mapping[k].server_to_client[i].session \in {s}
            THEN None ELSE mapping[k].server_to_client[i]
    BY <1>1, ClearMapping
<1>5. \A t \in Sessions : phase[t] \in Admitted => (phase'[t] = "done" <=> t \in {s})
    BY <1>2 DEF Admitted
<1> QED
    BY <1>3, <1>4, <1>5, ComeAndGoStep

\* The bridge is lost, and everybody with it.
LEMMA BridgeLostRefines == ASSUME IInv, BridgeLost PROVE Refined
<1> DEFINE S == Service!Inside
<1>1. /\ TypeOK /\ up /\ Service!Drop
      /\ mapping' = [k \in Kinds |-> clear_req_ids(mapping[k], S)]
    BY DEF BridgeLost, IInv
<1>2. S = {s \in Sessions : phase[s] \in {"joining", "active", "leaving"}}
    BY DEF Service!Inside
<1>3. PICK N \in SUBSET {s \in Sessions : phase[s] = "new"} : Service!Finish(S \cup N)
    BY <1>1 DEF Service!Drop
<1> HIDE DEF S
<1>4. S \in SUBSET Sessions /\ S \cup N \in SUBSET Sessions
    BY <1>2
<1>5. \A t \in Sessions : phase'[t] = IF t \in S \cup N THEN "done" ELSE phase[t]
    BY <1>1, <1>3, <1>4, FinishFacts DEF IInv
<1>6. Service!Next /\ ~UNCHANGED Service!vars
    BY <1>1 DEF Service!Next, Service!Drop, Service!vars
<1>7. \A k \in Kinds, i \in ServerIds : i[2] # Empty =>
        mapping'[k].server_to_client[i] =
          IF /\ mapping[k].server_to_client[i] # None
             /\ mapping[k].server_to_client[i].session \in S
            THEN None ELSE mapping[k].server_to_client[i]
    BY <1>1, <1>4, ClearMapping
<1>8. \A t \in Sessions : phase[t] \in Admitted => (phase'[t] = "done" <=> t \in S)
    BY <1>2, <1>5 DEF Admitted
<1> QED
    BY <1>4, <1>6, <1>7, <1>8, ComeAndGoStep

\* At first nothing is on record.
LEMMA InitRefines == Init => Service!RequestInit
<1> SUFFICES ASSUME Init PROVE Service!RequestInit
    OBVIOUS
<1>1. Service!Init /\ mapping = [k \in Kinds |-> EmptyMapping]
    BY DEF Init
<1>2. \A k \in Kinds : Requests(Named(mapping[k])) = [id \in ServerIds |-> None]
    BY <1>1 DEF Requests, Named, EmptyMapping
<1>3. record = [k \in Kinds |-> [id \in ServerIds |-> None]]
    BY <1>2 DEF record
<1> QED
    BY <1>1, <1>3 DEF Service!RequestInit

\* Every step is one that RequestService allows, or none for it.
LEMMA NextRefines == IInv /\ [Next]_vars => [Service!RequestNext]_Service!requestVars
<1> SUFFICES ASSUME IInv, [Next]_vars PROVE Refined
    BY DEF Refined
<1>1. CASE UNCHANGED vars
    BY <1>1, SameStep DEF vars
<1>2. CASE LogonStep
    BY <1>2, LogonStepRefines
<1>3. ASSUME NEW s \in Sessions, ClientStep(s) PROVE Refined
  <2>1. ASSUME NEW k \in Kinds, NEW r \in ReqIds, From(s), Subscribe(k, s, r, "SNAPSHOT")
        PROVE  Refined
    BY <2>1, SubscribeRefines
  <2>2. ASSUME From(s), Refuse PROVE Refined
    BY <2>2, SameStep DEF From, Refuse
  <2>3. ASSUME NEW r \in ReqIds,
               \/ OrderStatusRequest(s, r)
               \/ OrderMassStatusRequest(s, r)
               \/ OrderMassCancelRequest(s, r)
        PROVE  Refined
    <3>1. {"ord_status_req_id", "mass_status_req_id", "mass_cancel_cl_ord_id"} \subseteq Kinds
      BY DEF Kinds
    <3> QED
      BY <2>1, <2>2, <2>3, <3>1
         DEF OrderStatusRequest, OrderMassStatusRequest, OrderMassCancelRequest
  <2>4. ASSUME NEW r \in ReqIds, NEW type \in Types, TradeCaptureReportRequest(s, r, type)
        PROVE  Refined
    <3> DEFINE t == IF type = "UNDEFINED" THEN "SNAPSHOT" ELSE type
               k == "trade_request_id"
    <3>1. /\ From(s)
          /\ \/ t \in {"SNAPSHOT", "SNAPSHOT_UPDATES"} /\ Subscribe(k, s, r, t)
             \/ Unsubscribe(k, s, r)
             \/ Refuse
      BY <2>4 DEF TradeCaptureReportRequest
    <3>2. k \in Kinds
      BY DEF Kinds
    <3> HIDE DEF t, k
    <3> QED
      BY <2>2, <3>1, <3>2, SubscribeRefines, UnsubscribeRefines
  <2> QED
    BY <1>3, <2>3, <2>4, DisconnectedRefines DEF ClientStep
<1>4. ASSUME NEW q \in bridge, BridgeStep(q) PROVE Refined
  <2>1. UNCHANGED service /\ (mapping' = Forget(q) \/ mapping' = mapping)
    BY <1>4 DEF BridgeStep, OrderStatus, OrderMassStatus, OrderMassCancelReport,
                TradeCaptureReportRequestAck, TradeCaptureReport, BusinessMessageReject,
                ForgetIfLast
  <2> QED
    BY <2>1, AnswerRefines
<1>5. CASE BridgeLost
    BY <1>5, BridgeLostRefines
<1> QED
    BY <1>1, <1>2, <1>3, <1>4, <1>5 DEF Next

\* The handlers implement RequestService: a step puts one new request of an active session
\* on record, takes one off, or takes off all requests of the sessions that it ends and
\* nobody else's; requests without an id do not count.
THEOREM RequestsAreKept == Spec => ImplementsRequestService
    BY Invariant, InitRefines, NextRefines, PTL DEF Spec, ImplementsRequestService, Service!RequestSpec

=============================================================================
