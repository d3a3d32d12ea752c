---------------------------- MODULE ReqIdsProofs ----------------------------
(***************************************************************************)
(* What the operations on a mapping do to it: they keep its two directions *)
(* paired, and reach no entry but those they are called for.               *)
(***************************************************************************)
EXTENDS ReqIds, TLAPS

USE DEF exists

\* The empty mapping is a mapping, and paired.
LEMMA EmptyFacts == EmptyMapping \in Mapping /\ Paired(EmptyMapping)
BY DEF EmptyMapping, Mapping, Paired, exists

\* The ids that a mapping refers to are of the right kinds.
LEMMA MappingFacts ==
    ASSUME NEW m \in Mapping
    PROVE  /\ \A id \in ServerIds : m.server_to_client[id] # None =>
                /\ m.server_to_client[id] \in Entry
                /\ m.server_to_client[id].session \in Sessions
                /\ m.server_to_client[id].req_id \in ReqIds
           /\ \A s \in Sessions, r \in ReqIds : exists(m, s, r) =>
                m.client_to_server[s][r] \in ServerIds
BY DEF Mapping, Entry

\* add_req_id for a request and an id that are not on record records both.
LEMMA AddFacts ==
    ASSUME NEW m \in Mapping, NEW s \in Sessions, NEW r \in ReqIds, NEW id \in ServerIds,
           NEW keep_alive \in BOOLEAN, ~exists(m, s, r), m.server_to_client[id] = None
    PROVE  LET n == add_req_id(m, s, r, id, keep_alive)
               e == [session |-> s, req_id |-> r, keep_alive |-> keep_alive]
           IN  /\ n \in Mapping
               /\ e \in Entry /\ e # None
               /\ \A i \in ServerIds :
                    n.server_to_client[i] = IF i = id THEN e ELSE m.server_to_client[i]
               /\ \A t \in Sessions, q \in ReqIds :
                    n.client_to_server[t][q] =
                      IF t = s /\ q = r THEN id ELSE m.client_to_server[t][q]
<1> DEFINE e == [session |-> s, req_id |-> r, keep_alive |-> keep_alive]
           n == add_req_id(m, s, r, id, keep_alive)
<1>1. e \in Entry /\ e # None
    BY NoneIsNoEntry DEF Entry
<1>2. /\ m.client_to_server \in [Sessions -> [ReqIds -> ServerIds \cup {None}]]
      /\ m.server_to_client \in [ServerIds -> Entry \cup {None}]
      /\ m.client_to_server[s][r] = None
    BY DEF Mapping
<1>3. n = [m EXCEPT !.client_to_server[s][r] = id, !.server_to_client[id] = e]
    BY <1>2 DEF add_req_id
<1>4. n = [server_to_client |-> [m.server_to_client EXCEPT ![id] = e],
           client_to_server |-> [m.client_to_server EXCEPT ![s][r] = id]]
    BY <1>3 DEF Mapping
<1>5. n.server_to_client \in [ServerIds -> Entry \cup {None}]
    BY <1>1, <1>2, <1>4
<1>6. n.client_to_server \in [Sessions -> [ReqIds -> ServerIds \cup {None}]]
    BY <1>2, <1>4
<1>7. n \in Mapping
    BY <1>4, <1>5, <1>6 DEF Mapping
<1>8. \A t \in Sessions, q \in ReqIds :
        n.client_to_server[t][q] = IF t = s /\ q = r THEN id ELSE m.client_to_server[t][q]
    BY <1>2, <1>4
<1>9. \A i \in ServerIds :
        n.server_to_client[i] = IF i = id THEN e ELSE m.server_to_client[i]
    BY <1>2, <1>4
<1> QED
    BY <1>1, <1>7, <1>8, <1>9

\* It keeps the directions paired.
LEMMA AddPaired ==
    ASSUME NEW m \in Mapping, NEW s \in Sessions, NEW r \in ReqIds, NEW id \in ServerIds,
           NEW keep_alive \in BOOLEAN, ~exists(m, s, r), m.server_to_client[id] = None,
           Paired(m)
    PROVE  Paired(add_req_id(m, s, r, id, keep_alive))
<1> DEFINE e == [session |-> s, req_id |-> r, keep_alive |-> keep_alive]
           n == add_req_id(m, s, r, id, keep_alive)
<1>1. /\ e # None /\ e.session = s /\ e.req_id = r
      /\ \A i \in ServerIds :
           n.server_to_client[i] = IF i = id THEN e ELSE m.server_to_client[i]
      /\ \A t \in Sessions, q \in ReqIds :
           n.client_to_server[t][q] = IF t = s /\ q = r THEN id ELSE m.client_to_server[t][q]
    BY AddFacts
<1> HIDE DEF n, e
<1>2. ASSUME NEW i \in ServerIds, n.server_to_client[i] # None
      PROVE  n.client_to_server[n.server_to_client[i].session][n.server_to_client[i].req_id] = i
  <2>1. CASE i = id
    BY <1>1, <2>1
  <2>2. CASE i # id
    <3> DEFINE f == m.server_to_client[i]
    <3>1. n.server_to_client[i] = f /\ f # None
      BY <1>1, <1>2, <2>2
    <3>2. f.session \in Sessions /\ f.req_id \in ReqIds
      BY <3>1, MappingFacts
    <3>3. m.client_to_server[f.session][f.req_id] = i
      BY <3>1 DEF Paired
    <3>4. i # None
      BY NoneIsNoEntry
    <3> QED
      BY <1>1, <3>1, <3>2, <3>3, <3>4
  <2> QED
    BY <2>1, <2>2
<1>3. ASSUME NEW t \in Sessions, NEW q \in ReqIds, exists(n, t, q)
      PROVE  LET f == n.server_to_client[n.client_to_server[t][q]]
             IN  f # None /\ f.session = t /\ f.req_id = q
  <2>1. CASE t = s /\ q = r
    BY <1>1, <2>1
  <2>2. CASE ~(t = s /\ q = r)
    <3>1. exists(m, t, q) /\ n.client_to_server[t][q] = m.client_to_server[t][q]
      BY <1>1, <1>3, <2>2
    <3>2. m.client_to_server[t][q] \in ServerIds /\ m.client_to_server[t][q] # id
      BY <3>1, MappingFacts DEF Paired
    <3> QED
      BY <1>1, <3>1, <3>2 DEF Paired
  <2> QED
    BY <2>1, <2>2
<1>4. Paired(n)
    BY <1>2, <1>3 DEF Paired
<1> QED
    BY <1>4 DEF n

\* remove_req_id forgets the id, and nothing else that is on record.
LEMMA RemoveFacts ==
    ASSUME NEW m \in Mapping, NEW id \in ServerIds
    PROVE  /\ remove_req_id(m, id) \in Mapping
           /\ \A i \in ServerIds :
                remove_req_id(m, id).server_to_client[i] =
                  IF i = id THEN None ELSE m.server_to_client[i]
           /\ m.server_to_client[id] = None => remove_req_id(m, id) = m
           /\ \A s \in Sessions, r \in ReqIds :
                remove_req_id(m, id).client_to_server[s][r] =
                  IF /\ m.server_to_client[id] # None
                     /\ s = m.server_to_client[id].session /\ r = m.server_to_client[id].req_id
                    THEN None ELSE m.client_to_server[s][r]
<1> DEFINE e == m.server_to_client[id]
           n == remove_req_id(m, id)
<1>1. CASE e = None
  <2>1. n = m
    BY <1>1 DEF remove_req_id
  <2> QED
    BY <1>1, <2>1
<1>2. CASE e # None
  <2>1. /\ e.session \in Sessions /\ e.req_id \in ReqIds
        /\ m.client_to_server \in [Sessions -> [ReqIds -> ServerIds \cup {None}]]
        /\ m.server_to_client \in [ServerIds -> Entry \cup {None}]
    BY <1>2, MappingFacts DEF Mapping
  <2>2. n = [m EXCEPT !.client_to_server[e.session][e.req_id] = None,
                      !.server_to_client[id] = None]
    BY <1>2 DEF remove_req_id
  <2>3. n = [server_to_client |-> [m.server_to_client EXCEPT ![id] = None],
             client_to_server |-> [m.client_to_server EXCEPT ![e.session][e.req_id] = None]]
    BY <2>2 DEF Mapping
  <2>4. n.client_to_server \in [Sessions -> [ReqIds -> ServerIds \cup {None}]]
    BY <2>1, <2>3
  <2>5. n.server_to_client \in [ServerIds -> Entry \cup {None}]
    BY <2>1, <2>3
  <2>6. n \in Mapping
    BY <2>3, <2>4, <2>5 DEF Mapping
  <2>7. \A s \in Sessions, r \in ReqIds :
          n.client_to_server[s][r] =
            IF s = e.session /\ r = e.req_id THEN None ELSE m.client_to_server[s][r]
    BY <2>1, <2>3
  <2>8. \A i \in ServerIds :
          n.server_to_client[i] = IF i = id THEN None ELSE m.server_to_client[i]
    BY <2>1, <2>3
  <2> QED
    BY <1>2, <2>6, <2>7, <2>8
<1> QED
    BY <1>1, <1>2

\* It keeps the directions paired.
LEMMA RemovePaired ==
    ASSUME NEW m \in Mapping, NEW id \in ServerIds, Paired(m)
    PROVE  Paired(remove_req_id(m, id))
<1> DEFINE n == remove_req_id(m, id)
<1>1. /\ \A i \in ServerIds :
           n.server_to_client[i] = IF i = id THEN None ELSE m.server_to_client[i]
      /\ \A s \in Sessions, r \in ReqIds :
           n.client_to_server[s][r] =
             IF /\ m.server_to_client[id] # None
                /\ s = m.server_to_client[id].session /\ r = m.server_to_client[id].req_id
               THEN None ELSE m.client_to_server[s][r]
    BY RemoveFacts
<1> HIDE DEF n
<1>2. ASSUME NEW i \in ServerIds, n.server_to_client[i] # None
      PROVE  n.client_to_server[n.server_to_client[i].session][n.server_to_client[i].req_id] = i
  <2>1. i # id /\ n.server_to_client[i] = m.server_to_client[i]
    BY <1>1, <1>2
  <2> QED
    BY <1>1, <1>2, <2>1, MappingFacts DEF Paired
<1>3. ASSUME NEW s \in Sessions, NEW r \in ReqIds, exists(n, s, r)
      PROVE  LET f == n.server_to_client[n.client_to_server[s][r]]
             IN  f # None /\ f.session = s /\ f.req_id = r
  <2>1. exists(m, s, r) /\ n.client_to_server[s][r] = m.client_to_server[s][r]
    BY <1>1, <1>3
  <2>2. m.client_to_server[s][r] \in ServerIds /\ m.client_to_server[s][r] # id
    BY <1>1, <1>3, <2>1, MappingFacts DEF Paired
  <2> QED
    BY <1>1, <2>1, <2>2 DEF Paired
<1>4. Paired(n)
    BY <1>2, <1>3 DEF Paired
<1> QED
    BY <1>4 DEF n

\* In a paired mapping, the ids of the requests of the sessions S are those on record
\* for them.
LEMMA RequestsOfFacts ==
    ASSUME NEW m \in Mapping, NEW S \in SUBSET Sessions, Paired(m), NEW id \in ServerIds
    PROVE  id \in RequestsOf(m, S) <=>
             m.server_to_client[id] # None /\ m.server_to_client[id].session \in S
<1>1. ASSUME id \in RequestsOf(m, S)
      PROVE  m.server_to_client[id] # None /\ m.server_to_client[id].session \in S
  <2>1. PICK s \in S, r \in ReqIds : m.client_to_server[s][r] = id
    BY <1>1 DEF RequestsOf
  <2> QED
    BY <2>1, NoneIsNoEntry DEF Paired
<1>2. ASSUME m.server_to_client[id] # None, m.server_to_client[id].session \in S
      PROVE  id \in RequestsOf(m, S)
  BY <1>2, MappingFacts, NoneIsNoEntry DEF Paired, RequestsOf
<1> QED
  BY <1>1, <1>2

\* In a paired mapping, clear_req_ids forgets what is on record for the sessions S,
\* and nothing else.
LEMMA ClearFacts ==
    ASSUME NEW m \in Mapping, NEW S \in SUBSET Sessions, Paired(m)
    PROVE  LET n == clear_req_ids(m, S)
           IN  /\ n \in Mapping
               /\ \A id \in ServerIds :
                    n.server_to_client[id] =
                      IF m.server_to_client[id] # None /\ m.server_to_client[id].session \in S
                        THEN None ELSE m.server_to_client[id]
               /\ \A s \in Sessions, r \in ReqIds :
                    n.client_to_server[s][r] = IF s \in S THEN None ELSE m.client_to_server[s][r]
<1> DEFINE n == clear_req_ids(m, S)
<1>1. \A id \in ServerIds :
        id \in RequestsOf(m, S) <=>
          m.server_to_client[id] # None /\ m.server_to_client[id].session \in S
    BY RequestsOfFacts
<1>2. n.server_to_client = [id \in ServerIds |->
        IF id \in RequestsOf(m, S) THEN None ELSE m.server_to_client[id]]
    BY DEF clear_req_ids
<1>3. n.client_to_server = [s \in Sessions |->
        IF s \in S THEN [r \in ReqIds |-> None] ELSE m.client_to_server[s]]
    BY DEF clear_req_ids
<1>4. n \in Mapping
    BY DEF clear_req_ids, Mapping
<1> QED
    BY <1>1, <1>2, <1>3, <1>4

\* It keeps the directions paired.
LEMMA ClearPaired ==
    ASSUME NEW m \in Mapping, NEW S \in SUBSET Sessions, Paired(m)
    PROVE  Paired(clear_req_ids(m, S))
<1> DEFINE n == clear_req_ids(m, S)
<1>1. /\ \A id \in ServerIds :
           n.server_to_client[id] =
             IF m.server_to_client[id] # None /\ m.server_to_client[id].session \in S
               THEN None ELSE m.server_to_client[id]
      /\ \A s \in Sessions, r \in ReqIds :
           n.client_to_server[s][r] = IF s \in S THEN None ELSE m.client_to_server[s][r]
    BY ClearFacts
<1> HIDE DEF n
<1>2. ASSUME NEW i \in ServerIds, n.server_to_client[i] # None
      PROVE  n.client_to_server[n.server_to_client[i].session][n.server_to_client[i].req_id] = i
  <2> DEFINE f == m.server_to_client[i]
  <2>1. n.server_to_client[i] = f /\ f # None /\ f.session \notin S
    BY <1>1, <1>2
  <2>2. f.session \in Sessions /\ f.req_id \in ReqIds
    BY <2>1, MappingFacts
  <2>3. m.client_to_server[f.session][f.req_id] = i
    BY <2>1 DEF Paired
  <2> QED
    BY <1>1, <2>1, <2>2, <2>3
<1>3. ASSUME NEW s \in Sessions, NEW r \in ReqIds, exists(n, s, r)
      PROVE  LET f == n.server_to_client[n.client_to_server[s][r]]
             IN  f # None /\ f.session = s /\ f.req_id = r
  <2>1. /\ s \notin S /\ exists(m, s, r)
        /\ n.client_to_server[s][r] = m.client_to_server[s][r]
        /\ m.client_to_server[s][r] \in ServerIds
    BY <1>1, <1>3, MappingFacts
  <2> QED
    BY <1>1, <2>1 DEF Paired
<1>4. Paired(n)
    BY <1>2, <1>3 DEF Paired
<1> QED
    BY <1>4 DEF n

\* Whose request an id stands for is None or an entry of its own.
LEMMA RequestsFacts ==
    ASSUME NEW m \in Mapping, NEW id \in ServerIds
    PROVE  LET e == m.server_to_client[id]
           IN  /\ e = None => Requests(m)[id] = None
               /\ e # None =>
                    /\ Requests(m)[id] = [session |-> e.session, req_id |-> e.req_id]
                    /\ Requests(m)[id].session = e.session
                    /\ Requests(m)[id] # None
<1> DEFINE e == m.server_to_client[id]
<1>1. Requests(m)[id] = IF e = None THEN None ELSE [session |-> e.session, req_id |-> e.req_id]
    BY DEF Requests
<1>2. ASSUME e # None
      PROVE  [session |-> e.session, req_id |-> e.req_id] # None
  <2>1. e.session \in Sessions /\ e.req_id \in ReqIds
    BY <1>2, MappingFacts
  <2>2. [session |-> e.session, req_id |-> e.req_id] \in [session : Sessions, req_id : ReqIds]
    BY <2>1
  <2> QED
    BY <2>2, NoneIsNoEntry
<1> QED
    BY <1>1, <1>2

\* In a paired mapping, no two ids stand for the same request, and none for one that
\* is not on record.
LEMMA RequestsUnique ==
    ASSUME NEW m \in Mapping, Paired(m), NEW s \in Sessions, NEW r \in ReqIds,
           ~exists(m, s, r), NEW id \in ServerIds
    PROVE  Requests(m)[id] # [session |-> s, req_id |-> r]
<1> DEFINE e == m.server_to_client[id]
           q == [session |-> s, req_id |-> r]
<1> SUFFICES ASSUME Requests(m)[id] = q PROVE FALSE
    OBVIOUS
<1>1. q \in [session : Sessions, req_id : ReqIds]
    OBVIOUS
<1>2. q # None
    BY <1>1, NoneIsNoEntry
<1>3. e # None /\ q = [session |-> e.session, req_id |-> e.req_id]
    BY <1>2, RequestsFacts
<1>4. e.session = s /\ e.req_id = r
    BY <1>3
<1>5. m.client_to_server[s][r] = id
    BY <1>3, <1>4 DEF Paired
<1>6. id # None
    BY NoneIsNoEntry
<1> QED
    BY <1>5, <1>6

-----------------------------------------------------------------------------
(* The requests on record, of several kinds with a mapping each.  (Added,  *)
(* Removed and Without name what RequestService says of a record: facts    *)
(* with names are those that the provers find.)                            *)

Records(K, M) == [k \in K |-> Requests(M[k])]

\* Entry id of kind k becomes e.
Entered(Q, R, k, id, e) == Q[k][id] = e /\ Q = [R EXCEPT ![k][id] = e]

\* The request of entry e gets on record under id, where it was not.
Added(Q, R, k, id, e) ==
    LET q == [session |-> e.session, req_id |-> e.req_id]
    IN  /\ Entered(Q, R, k, id, q)
        /\ R[k][id] = None
        /\ Q[k] # R[k]
        /\ \A i \in ServerIds : R[k][i] # q

\* The request under id goes off the record.
Removed(Q, R, k, id) ==
    /\ Entered(Q, R, k, id, None)
    /\ R[k][id] # None
    /\ Q[k] # R[k]

\* What is left when the sessions with P[s] = "done" go.
Without(K, R, P) ==
    [k \in K |-> [id \in ServerIds |->
       IF R[k][id] # None /\ P[R[k][id].session] = "done" THEN None ELSE R[k][id]]]

\* What the records say is determined entry by entry.
LEMMA RecordsAlike ==
    ASSUME NEW K, NEW M, NEW N,
           \A k \in K, i \in ServerIds : N[k].server_to_client[i] = M[k].server_to_client[i]
    PROVE  Records(K, N) = Records(K, M)
<1>1. ASSUME NEW k \in K PROVE Requests(N[k]) = Requests(M[k])
    BY <1>1 DEF Requests
<1> QED
    BY <1>1 DEF Records

\* One entry changes.
LEMMA RecordsBut ==
    ASSUME NEW K, NEW M, NEW N, NEW k0 \in K, NEW id \in ServerIds, NEW e,
           \A k \in K, i \in ServerIds :
             Requests(N[k])[i] = IF k = k0 /\ i = id THEN e ELSE Requests(M[k])[i]
    PROVE  Entered(Records(K, N), Records(K, M), k0, id, e)
<1> DEFINE f == [Requests(M[k0]) EXCEPT ![id] = e]
<1>1. ASSUME NEW k \in K, k # k0 PROVE Requests(N[k]) = Requests(M[k])
    BY <1>1 DEF Requests
<1>2. Requests(N[k0]) = f
    BY DEF Requests
<1>3. [Records(K, M) EXCEPT ![k0][id] = e] =
        [k \in K |-> IF k = k0 THEN f ELSE Requests(M[k])]
    BY DEF Records
<1> HIDE DEF f
<1>4. Records(K, N) = [Records(K, M) EXCEPT ![k0][id] = e]
    BY <1>1, <1>2, <1>3 DEF Records
<1>5. Records(K, N)[k0][id] = e
    BY DEF Records
<1> QED
    BY <1>4, <1>5 DEF Entered

\* A request that is not on record gets there, under an id that is free.
LEMMA RecordsWith ==
    ASSUME NEW K, NEW M, NEW N, NEW k0 \in K, NEW id \in ServerIds, NEW e \in Entry,
           M[k0] \in Mapping, Paired(M[k0]), ~exists(M[k0], e.session, e.req_id),
           M[k0].server_to_client[id] = None,
           \A k \in K, i \in ServerIds :
             N[k].server_to_client[i] =
               IF k = k0 /\ i = id THEN e ELSE M[k].server_to_client[i]
    PROVE  Added(Records(K, N), Records(K, M), k0, id, e)
<1> DEFINE q == [session |-> e.session, req_id |-> e.req_id]
<1>1. /\ e # None /\ e.session \in Sessions /\ e.req_id \in ReqIds
      /\ q \in [session : Sessions, req_id : ReqIds]
    BY NoneIsNoEntry DEF Entry
<1>2. q # None
    BY <1>1, NoneIsNoEntry
<1>3. \A k \in K, i \in ServerIds :
        Requests(N[k])[i] = IF k = k0 /\ i = id THEN q ELSE Requests(M[k])[i]
    BY <1>1 DEF Requests
<1>4. Records(K, M)[k0] = Requests(M[k0])
    BY DEF Records
<1>5. Requests(M[k0])[id] = None
    BY RequestsFacts
<1>6. \A i \in ServerIds : Requests(M[k0])[i] # q
    BY <1>1, RequestsUnique
<1> HIDE DEF q
<1>7. Entered(Records(K, N), Records(K, M), k0, id, q)
    BY <1>3, RecordsBut
<1>8. Records(K, N)[k0] # Records(K, M)[k0]
    BY <1>2, <1>4, <1>5, <1>7 DEF Entered
<1> QED
    BY <1>4, <1>5, <1>6, <1>7, <1>8 DEF Added, q

\* A request goes off the record.
LEMMA RecordsLess ==
    ASSUME NEW K, NEW M, NEW N, NEW k0 \in K, NEW id \in ServerIds,
           M[k0] \in Mapping, M[k0].server_to_client[id] # None,
           \A k \in K, i \in ServerIds :
             N[k].server_to_client[i] =
               IF k = k0 /\ i = id THEN None ELSE M[k].server_to_client[i]
    PROVE  Removed(Records(K, N), Records(K, M), k0, id)
<1>1. \A k \in K, i \in ServerIds :
        Requests(N[k])[i] = IF k = k0 /\ i = id THEN None ELSE Requests(M[k])[i]
    BY DEF Requests
<1>2. Entered(Records(K, N), Records(K, M), k0, id, None)
    BY <1>1, RecordsBut
<1>3. Records(K, M)[k0][id] # None
    BY RequestsFacts DEF Records
<1>4. Records(K, N)[k0] # Records(K, M)[k0]
    BY <1>2, <1>3 DEF Entered
<1> QED
    BY <1>2, <1>3, <1>4 DEF Removed

\* What is on record for sessions that are done goes.
LEMMA RecordsWithout ==
    ASSUME NEW K, NEW M, NEW N, NEW P,
           \A k \in K : M[k] \in Mapping,
           \A k \in K, i \in ServerIds :
             N[k].server_to_client[i] =
               IF /\ M[k].server_to_client[i] # None
                  /\ P[M[k].server_to_client[i].session] = "done"
                 THEN None ELSE M[k].server_to_client[i]
    PROVE  Records(K, N) = Without(K, Records(K, M), P)
<1> DEFINE R(k, i) == Records(K, M)[k][i]
<1>1. ASSUME NEW k \in K, NEW i \in ServerIds
      PROVE  Requests(N[k])[i] = IF R(k, i) # None /\ P[R(k, i).session] = "done"
                                   THEN None ELSE R(k, i)
  <2> DEFINE e == M[k].server_to_client[i]
             f == N[k].server_to_client[i]
  <2>1. Requests(N[k])[i] =
          IF f = None THEN None ELSE [session |-> f.session, req_id |-> f.req_id]
    BY DEF Requests
  <2>2. f = IF e # None /\ P[e.session] = "done" THEN None ELSE e
    OBVIOUS
  <2>3. R(k, i) = Requests(M[k])[i]
    BY DEF Records
  <2>4. /\ e = None => R(k, i) = None
        /\ e # None =>
             /\ R(k, i) = [session |-> e.session, req_id |-> e.req_id]
             /\ R(k, i).session = e.session
             /\ R(k, i) # None
    BY <2>3, RequestsFacts
  <2> HIDE DEF e, f, R
  <2>5. CASE e = None
    BY <2>1, <2>2, <2>4, <2>5
  <2>6. CASE e # None /\ P[e.session] = "done"
    BY <2>1, <2>2, <2>4, <2>6
  <2>7. CASE e # None /\ P[e.session] # "done"
    BY <2>1, <2>2, <2>4, <2>7
  <2> QED
    BY <2>5, <2>6, <2>7
<1>2. ASSUME NEW k \in K
      PROVE  Requests(N[k]) =
               [i \in ServerIds |-> IF R(k, i) # None /\ P[R(k, i).session] = "done"
                                      THEN None ELSE R(k, i)]
  <2>1. Requests(N[k]) = [i \in ServerIds |-> Requests(N[k])[i]]
    BY DEF Requests
  <2> HIDE DEF R
  <2> QED
    BY <1>1, <2>1
<1>3. Records(K, N) = [k \in K |-> Requests(N[k])]
    BY DEF Records
<1>4. Without(K, Records(K, M), P) =
        [k \in K |-> [i \in ServerIds |-> IF R(k, i) # None /\ P[R(k, i).session] = "done"
                                            THEN None ELSE R(k, i)]]
    BY DEF Without
<1> HIDE DEF R
<1> QED
    BY <1>2, <1>3, <1>4

=============================================================================
