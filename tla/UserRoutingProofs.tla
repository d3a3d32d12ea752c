-------------------------- MODULE UserRoutingProofs --------------------------
(***************************************************************************)
(* Proofs about UserRouting, for any set of users, any assignment of       *)
(* strategies to them, shared or not, and any bounds on sessions and       *)
(* requests.                                                               *)
(***************************************************************************)
EXTENDS UserRouting, TLAPS

-----------------------------------------------------------------------------
(* The operators on the user maps.                                         *)

\* user_add enters the route both ways and leaves the requests alone.
LEMMA UserAddFacts ==
    ASSUME NEW u \in UserMaps, NEW p \in Parties, NEW s \in Sessions
    PROVE  /\ user_add(u, p, s) \in UserMaps
           /\ user_add(u, p, s).client_to_session = [u.client_to_session EXCEPT ![p] = s]
           /\ user_add(u, p, s).session_to_client = [u.session_to_client EXCEPT ![s] = p]
           /\ user_add(u, p, s).server_to_client = u.server_to_client
           /\ user_add(u, p, s).client_to_server = u.client_to_server
BY DEF UserMaps, user_add

\* user_remove erases the route of p both ways and leaves the requests alone.
LEMMA UserRemoveFacts ==
    ASSUME NEW u \in UserMaps, NEW p \in Parties
    PROVE  /\ user_remove(u, p) \in UserMaps
           /\ user_remove(u, p).client_to_session = [u.client_to_session EXCEPT ![p] = None]
           /\ u.client_to_session[p] = None =>
                user_remove(u, p).session_to_client = u.session_to_client
           /\ u.client_to_session[p] # None =>
                user_remove(u, p).session_to_client =
                  [u.session_to_client EXCEPT ![u.client_to_session[p]] = None]
           /\ user_remove(u, p).server_to_client = u.server_to_client
           /\ user_remove(u, p).client_to_server = u.client_to_server
BY DEF UserMaps, user_remove

\* EraseRequest leaves the routes alone.
LEMMA EraseRequestFacts ==
    ASSUME NEW u \in UserMaps, NEW s \in Sessions, NEW id \in RequestIds
    PROVE  /\ EraseRequest(u, s, id) \in UserMaps
           /\ EraseRequest(u, s, id).client_to_session = u.client_to_session
           /\ EraseRequest(u, s, id).session_to_client = u.session_to_client
           /\ EraseRequest(u, s, id).server_to_client = [u.server_to_client EXCEPT ![id] = None]
           /\ EraseRequest(u, s, id).client_to_server = [u.client_to_server EXCEPT ![s] = None]
BY DEF UserMaps, EraseRequest

\* RecordRequest leaves the routes alone.
LEMMA RecordRequestFacts ==
    ASSUME TypeOK, NEW s \in Sessions, NEW id \in RequestIds
    PROVE  /\ RecordRequest(s, id) \in UserMaps
           /\ RecordRequest(s, id).client_to_session = user.client_to_session
           /\ RecordRequest(s, id).session_to_client = user.session_to_client
           /\ RecordRequest(s, id).server_to_client = [user.server_to_client EXCEPT ![id] = s]
           /\ RecordRequest(s, id).client_to_server = [user.client_to_server EXCEPT ![s] = id]
BY DEF TypeOK, UserMaps, RecordRequest

\* Release erases the route both ways and leaves the requests alone.
LEMMA ReleaseFacts ==
    ASSUME NEW u \in UserMaps, NEW p \in Parties, NEW s \in Sessions
    PROVE  /\ Release(u, p, s) \in UserMaps
           /\ Release(u, p, s).client_to_session = [u.client_to_session EXCEPT ![p] = None]
           /\ Release(u, p, s).session_to_client = [u.session_to_client EXCEPT ![s] = None]
           /\ Release(u, p, s).server_to_client = u.server_to_client
           /\ Release(u, p, s).client_to_server = u.client_to_server
BY DEF UserMaps, Release

\* RecordLogOff leaves the routes, and the requests of other sessions, alone.
LEMMA RecordLogOffFacts ==
    ASSUME NEW u \in UserMaps, NEW s \in Sessions, NEW id \in RequestIds
    PROVE  /\ RecordLogOff(u, s, id) \in UserMaps
           /\ RecordLogOff(u, s, id).client_to_session = u.client_to_session
           /\ RecordLogOff(u, s, id).session_to_client = u.session_to_client
           /\ RecordLogOff(u, s, id).server_to_client = [u.server_to_client EXCEPT ![id] = s]
           /\ \A t \in Sessions : t # s =>
                RecordLogOff(u, s, id).client_to_server[t] = u.client_to_server[t]
BY DEF UserMaps, RecordLogOff

-----------------------------------------------------------------------------
(* The inductive invariant, one lemma per kind of step.                    *)

\* Initially nothing is connected, registered or outstanding.
LEMMA InitIInv == Init => IInv
<1> SUFFICES ASSUME Init PROVE IInv
    OBVIOUS
<1>1. TypeOK
  <2>1. user \in UserMaps
    BY DEF Init, UserMaps
  <2>2. next_session_id \in 0 .. MaxSessions /\ next_request_id \in 0 .. MaxRequests
    BY BoundsAssumption DEF Init
  <2>3. ready \in BOOLEAN /\ waiting_for_heartbeat \in [Sessions -> BOOLEAN]
    BY Zenon DEF Init
  <2> QED
    BY <2>1, <2>2, <2>3 DEF Init, TypeOK, States
<1>2. LoggedOn = {}
    BY DEF Init, LoggedOn
<1>3. /\ \A s \in Sessions : state[s] = "ABSENT" /\ session_to_username[s] = None
      /\ \A u \in Users : username_to_session[u] = None
      /\ \A p \in Parties : user.client_to_session[p] = None
      /\ \A s \in Sessions : user.session_to_client[s] = None /\ user.client_to_server[s] = None
      /\ \A i \in RequestIds : user.server_to_client[i] = None
      /\ pending = {} /\ fatal = "no"
    BY DEF Init
<1>4. \A s \in Sessions : s # None
    BY NoneAssumption, BoundsAssumption DEF Sessions
<1>5. RegistryExact /\ RoutesInverse /\ ReadyOwnsRoute
    BY <1>2, <1>3, <1>4, NoneAssumption DEF RegistryExact, RoutesInverse, ReadyOwnsRoute
<1>6. BridgeDownDropsSessions
    BY <1>2, <1>3 DEF Init, BridgeDownDropsSessions
<1>7. FreshIds
    BY <1>3, <1>4 DEF FreshIds
<1>8. PartyOfUser /\ PendingKnown /\ LogOnOnce /\ OnlyUserAddAborts
    BY <1>2, <1>3 DEF PartyOfUser, PendingKnown, LogOnOnce, OnlyUserAddAborts
<1>9. CreateIsYoungest /\ ReadyIsQuiet /\ RemoveIsAlone
    BY <1>3 DEF CreateIsYoungest, ReadyIsQuiet, RemoveIsAlone
<1>10. OwnRequests /\ OwnRoute
    BY <1>2, <1>3 DEF OwnRequests, OwnRoute
<1> QED
    BY <1>1, <1>5, <1>6, <1>7, <1>8, <1>9, <1>10 DEF IInv

\* The invariant does not mention the credentials or the heartbeat flags beyond
\* their types.
LEMMA QuietStep ==
    ASSUME IInv, TypeOK',
           UNCHANGED <<username_to_session, session_to_username, next_session_id,
                       next_request_id, state, party_id, server_state, ready, user,
                       pending, fatal>>
    PROVE  IInv'
BY DEF IInv, RegistryExact, RoutesInverse, ReadyOwnsRoute,
       BridgeDownDropsSessions, OnlyUserAddAborts, FreshIds, PartyOfUser, PendingKnown,
       LogOnOnce, OwnRequests, OwnRoute, CreateIsYoungest, ReadyIsQuiet, RemoveIsAlone,
       LoggedOn

\* Accepting a connection uses an id that nothing refers to.
LEMMA AcceptStep == IInv /\ Accept => IInv'
<1> SUFFICES ASSUME IInv, Accept PROVE IInv'
    OBVIOUS
<1> DEFINE n == next_session_id + 1
<1>1. /\ n \in Sessions /\ next_session_id' = n
      /\ state[n] = "ABSENT"
      /\ state' = [state EXCEPT ![n] = "WAITING_LOGON"]
      /\ UNCHANGED <<credentials, username_to_session, session_to_username, next_request_id,
                   party_id, waiting_for_heartbeat, server_state, ready, user, pending, fatal>>
    BY BoundsAssumption DEF Accept, IInv, TypeOK, FreshIds, Sessions, server
<1>2. LoggedOn' = LoggedOn
    BY <1>1 DEF LoggedOn, IInv, TypeOK
<1>3. TypeOK'
    BY <1>1, BoundsAssumption DEF IInv, TypeOK, States, Sessions
<1>4. RegistryExact' /\ RoutesInverse' /\ BridgeDownDropsSessions' /\ OnlyUserAddAborts'
    BY <1>1, <1>2 DEF IInv, RegistryExact, RoutesInverse, BridgeDownDropsSessions,
                      OnlyUserAddAborts
<1>5. FreshIds'
    BY <1>1, BoundsAssumption DEF IInv, TypeOK, FreshIds, Sessions
<1>6. ReadyOwnsRoute' /\ PartyOfUser' /\ PendingKnown' /\ LogOnOnce'
    BY <1>1, <1>2 DEF IInv, TypeOK, ReadyOwnsRoute, PartyOfUser, PendingKnown, LogOnOnce
<1>7. CreateIsYoungest' /\ ReadyIsQuiet' /\ RemoveIsAlone'
    BY <1>1 DEF IInv, TypeOK, CreateIsYoungest, ReadyIsQuiet, RemoveIsAlone
<1>8. OwnRequests' /\ OwnRoute'
    BY <1>1, <1>2 DEF IInv, TypeOK, OwnRequests, OwnRoute
<1> QED
    BY <1>3, <1>4, <1>5, <1>6, <1>7, <1>8 DEF IInv

\* Facts about unanswered requests that most steps need.
LEMMA PendingFacts ==
    ASSUME IInv
    PROVE  \A r \in pending :
             /\ r \in UserRequest /\ r.id \in RequestIds /\ r.id \in Nat
             /\ r.username \in Parties /\ r.type \in {"LOG_ON_USER", "LOG_OFF_USER"}
             /\ next_request_id \in Nat /\ r.id < next_request_id + 1
             /\ user.server_to_client[r.id] \in Sessions
<1> TAKE r \in pending
<1>1. r \in UserRequest /\ next_request_id \in Nat
    BY BoundsAssumption DEF IInv, TypeOK
<1>2. /\ r.id \in RequestIds /\ r.username \in Parties
      /\ r.type \in {"LOG_ON_USER", "LOG_OFF_USER"}
    BY <1>1 DEF UserRequest
<1>3. r.id \in Nat
    BY <1>2, BoundsAssumption DEF RequestIds
<1>4. r.id <= next_request_id /\ user.server_to_client[r.id] # None
    BY DEF IInv, PendingKnown
<1>5. user.server_to_client \in [RequestIds -> Sessions \cup {None}]
    BY DEF IInv, TypeOK, UserMaps
<1> QED
    BY <1>1, <1>2, <1>3, <1>4, <1>5

\* A session past the logon is registered, and two of them have different parties, unless
\* it is one that several users may have.
LEMMA PartiesDiffer ==
    ASSUME IInv
    PROVE  /\ \A s \in LoggedOn : /\ party_id[s] \in Parties
                                  /\ session_to_username[s] \in Users
                                  /\ username_to_session[session_to_username[s]] = s
           /\ \A s, t \in LoggedOn :
                party_id[s] \in Sole /\ party_id[s] = party_id[t] => s = t
<1>1. \A s \in LoggedOn : /\ s \in Sessions
                          /\ session_to_username[s] \in Users
                          /\ username_to_session[session_to_username[s]] = s
    BY DEF IInv, TypeOK, RegistryExact, LoggedOn
<1>2. \A s \in LoggedOn : party_id[s] \in Strategies[session_to_username[s]]
    BY DEF IInv, PartyOfUser
<1> QED
    BY <1>1, <1>2, StrategiesAssumption DEF Sole

\* What the death of session s does to the registry.
LEMMA DeathFacts ==
    ASSUME IInv, NEW s \in Live,
           state' = [state EXCEPT ![s] = "ZOMBIE"], session_remove_helper({s}),
           UNCHANGED <<party_id, fatal>>
    PROVE  /\ s \in Sessions /\ state[s] # "ZOMBIE" /\ state[s] # "ABSENT"
           /\ LoggedOn' = LoggedOn \ {s}
           /\ username_to_session' \in [Users -> Sessions \cup {None}]
           /\ session_to_username' \in [Sessions -> Users \cup {None}]
           /\ RegistryExact' /\ OnlyUserAddAborts' /\ PartyOfUser'
<1>0. /\ s \in Sessions /\ state[s] # "ZOMBIE" /\ state[s] # "ABSENT"
      /\ TypeOK /\ None \notin Sessions /\ None \notin Users
    BY NoneAssumption, BoundsAssumption DEF Live, LoggedOn, IInv, Sessions
<1>1. /\ session_to_username' = [session_to_username EXCEPT ![s] = None]
      /\ username_to_session' \in [Users -> Sessions \cup {None}]
      /\ \A u \in Users : username_to_session'[u] =
           IF session_to_username[s] = u THEN None ELSE username_to_session[u]
    BY <1>0 DEF session_remove_helper, TypeOK
<1>2. LoggedOn' = LoggedOn \ {s}
    BY <1>0 DEF LoggedOn, TypeOK
<1>3. RegistryExact'
    BY <1>0, <1>1, <1>2 DEF IInv, RegistryExact, TypeOK
<1>4. OnlyUserAddAborts' /\ PartyOfUser'
    BY <1>0, <1>1, <1>2 DEF IInv, OnlyUserAddAborts, PartyOfUser, TypeOK, LoggedOn
<1> QED
    BY <1>0, <1>1, <1>2, <1>3, <1>4 DEF TypeOK

\* A session with a route dies while the bridge is connected: the route is
\* released and a LOG_OFF goes out.  The same handler may have taken an answer
\* to an earlier LOG_OFF off the wire before: w are the requests left.
LEMMA LogOffStep ==
    ASSUME IInv, NEW s \in LoggedOn, NEW p \in Parties, NEW w \in SUBSET pending, TypeOK',
           user.session_to_client[s] = p,
           next_request_id + 1 \in RequestIds,
           next_request_id' = next_request_id + 1,
           pending' = w \cup {[id |-> next_request_id + 1, type |-> "LOG_OFF_USER",
                               username |-> p]},
           \A r \in pending : r.type = "LOG_ON_USER" => r \in w,
           user'.client_to_session = [user.client_to_session EXCEPT ![p] = None],
           user'.session_to_client = [user.session_to_client EXCEPT ![s] = None],
           user'.server_to_client[next_request_id + 1] = s,
           \A i \in RequestIds : i # next_request_id + 1 =>
             user'.server_to_client[i] \in {user.server_to_client[i], None},
           \A r \in w : user'.server_to_client[r.id] = user.server_to_client[r.id],
           \A t \in Sessions : t # s => user'.client_to_server[t] = user.client_to_server[t],
           ready, state' = [state EXCEPT ![s] = "ZOMBIE"], session_remove_helper({s}),
           UNCHANGED <<next_session_id, party_id, server_state, ready, fatal>>
    PROVE  IInv'
<1> DEFINE id == next_request_id + 1
           m  == [id |-> id, type |-> "LOG_OFF_USER", username |-> p]
           c2s == user.client_to_session
           s2c == user.session_to_client
           req == user.server_to_client
<1>1. s \in Live
    BY DEF Live
<1>2. /\ s \in Sessions /\ LoggedOn' = LoggedOn \ {s}
      /\ RegistryExact' /\ OnlyUserAddAborts' /\ PartyOfUser'
    BY <1>1, DeathFacts
<1>3. /\ TypeOK /\ None \notin Sessions /\ None \notin Parties
      /\ RequestIds \subseteq Nat /\ Sessions \subseteq Nat
      /\ next_request_id \in Nat
      /\ c2s \in [Parties -> Sessions \cup {None}] /\ s2c \in [Sessions -> Parties \cup {None}]
      /\ req \in [RequestIds -> Sessions \cup {None}]
    BY NoneAssumption, BoundsAssumption DEF IInv, TypeOK, UserMaps, Sessions, RequestIds
<1>4. RoutesInverse'
    BY <1>2, <1>3 DEF IInv, RoutesInverse
<1>5. p = party_id[s] /\ c2s[p] = s
    BY <1>2, <1>3 DEF IInv, OwnRoute, RoutesInverse
<1>6. \A t \in LoggedOn : t \in Sessions /\ (t # s /\ party_id[t] \in Sole => party_id[t] # p)
    BY <1>5, PartiesDiffer DEF LoggedOn
<1>7. FreshIds'
    BY <1>2, <1>3 DEF IInv, FreshIds, TypeOK, LoggedOn
<1>8. BridgeDownDropsSessions'
    BY DEF IInv, BridgeDownDropsSessions
<1>9. /\ m.id = id /\ m.username = p /\ m.type = "LOG_OFF_USER" /\ pending' = w \cup {m}
      /\ \A r \in w : r \in pending /\ r.id < id /\ r.id \in Nat /\ req[r.id] # None
    BY <1>3, PendingFacts
<1>10. PendingKnown'
  <2> SUFFICES ASSUME NEW r \in pending'
               PROVE  /\ r.id <= next_request_id'
                      /\ user'.server_to_client[r.id] # None
                      /\ \A q \in pending' : q.id = r.id => q = r
                      /\ user'.server_to_client[r.id] \in LoggedOn' =>
                           r.username = party_id'[user'.server_to_client[r.id]]
    BY DEF PendingKnown
  <2>1. CASE r = m
    BY <2>1, <1>2, <1>3, <1>9
  <2>2. CASE r \in w
    BY <2>2, <1>2, <1>3, <1>9 DEF IInv, PendingKnown
  <2> QED
    BY <2>1, <2>2, <1>9
<1>11. LogOnOnce'
    BY <1>2, <1>3, <1>9, PendingFacts DEF IInv, LogOnOnce
<1>12. ReadyOwnsRoute'
    BY <1>2, <1>3, <1>5, <1>6 DEF IInv, ReadyOwnsRoute, LoggedOn, TypeOK
<1>13. CreateIsYoungest'
  <2> SUFFICES ASSUME NEW t \in Sessions, state'[t] = "WAITING_CREATE_ROUTE"
               PROVE  /\ user'.session_to_client[t] = None
                      /\ \E r \in pending' :
                           /\ r.type = "LOG_ON_USER"
                           /\ user'.server_to_client[r.id] = t
                           /\ party_id'[t] \in Sole =>
                                \A q \in pending' : q.username = party_id'[t] => q.id <= r.id
    BY DEF CreateIsYoungest
  <2>1. t # s /\ state[t] = "WAITING_CREATE_ROUTE" /\ t \in LoggedOn
    BY <1>2, <1>3 DEF TypeOK, LoggedOn
  <2>2. s2c[t] = None
    BY <2>1 DEF IInv, CreateIsYoungest
  <2>3. PICK r \in pending : /\ r.type = "LOG_ON_USER" /\ req[r.id] = t
                             /\ party_id[t] \in Sole =>
                                  \A q \in pending : q.username = party_id[t] => q.id <= r.id
    BY <2>1 DEF IInv, CreateIsYoungest
  <2>4. party_id[t] \in Sole => party_id[t] # p
    BY <2>1, <1>6
  <2> QED
    BY <2>1, <2>2, <2>3, <2>4, <1>3, <1>9
<1>14. ReadyIsQuiet'
  <2> SUFFICES ASSUME NEW t \in Sessions, state'[t] = "READY"
               PROVE  /\ user'.client_to_server[t] = None
                      /\ party_id'[t] \in Sole => \A q \in pending' : q.username # party_id'[t]
    BY DEF ReadyIsQuiet
  <2>1. t # s /\ state[t] = "READY" /\ t \in LoggedOn
    BY <1>2, <1>3 DEF TypeOK, LoggedOn
  <2> QED
    BY <2>1, <1>6, <1>9 DEF IInv, ReadyIsQuiet
<1>15. RemoveIsAlone'
  <2> SUFFICES ASSUME NEW t \in Sessions, state'[t] = "WAITING_REMOVE_ROUTE",
                      party_id'[t] \in Sole, NEW q \in pending', q.username = party_id'[t]
               PROVE  q.type = "LOG_OFF_USER" /\ user'.server_to_client[q.id] = t
    BY DEF RemoveIsAlone
  <2>1. t # s /\ state[t] = "WAITING_REMOVE_ROUTE" /\ t \in LoggedOn
    BY <1>2, <1>3 DEF TypeOK, LoggedOn
  <2> QED
    BY <2>1, <1>6, <1>9 DEF IInv, RemoveIsAlone
<1>16. OwnRequests' /\ OwnRoute'
    BY <1>2, <1>3, <1>9, PendingFacts DEF IInv, OwnRequests, OwnRoute, TypeOK
<1> QED
    BY <1>2, <1>4, <1>7, <1>8, <1>10, <1>11, <1>12, <1>13, <1>14, <1>15, <1>16 DEF IInv

\* The maps after a LOG_OFF has been recorded for a released session.
LEMMA LogOffMaps ==
    ASSUME NEW u \in UserMaps, NEW s \in Sessions, NEW p \in Parties, NEW id \in RequestIds
    PROVE  /\ RecordLogOff(Release(u, p, s), s, id) \in UserMaps
           /\ RecordLogOff(Release(u, p, s), s, id).client_to_session =
                [u.client_to_session EXCEPT ![p] = None]
           /\ RecordLogOff(Release(u, p, s), s, id).session_to_client =
                [u.session_to_client EXCEPT ![s] = None]
           /\ RecordLogOff(Release(u, p, s), s, id).server_to_client =
                [u.server_to_client EXCEPT ![id] = s]
           /\ \A t \in Sessions : t # s =>
                RecordLogOff(Release(u, p, s), s, id).client_to_server[t] = u.client_to_server[t]
<1> DEFINE w == Release(u, p, s)
<1>1. /\ w \in UserMaps
      /\ w.client_to_session = [u.client_to_session EXCEPT ![p] = None]
      /\ w.session_to_client = [u.session_to_client EXCEPT ![s] = None]
      /\ w.server_to_client = u.server_to_client
      /\ w.client_to_server = u.client_to_server
    BY ReleaseFacts
<1> HIDE DEF w
<1>2. /\ RecordLogOff(w, s, id) \in UserMaps
      /\ RecordLogOff(w, s, id).client_to_session = w.client_to_session
      /\ RecordLogOff(w, s, id).session_to_client = w.session_to_client
      /\ RecordLogOff(w, s, id).server_to_client = [w.server_to_client EXCEPT ![id] = s]
      /\ \A t \in Sessions : t # s =>
           RecordLogOff(w, s, id).client_to_server[t] = w.client_to_server[t]
    BY <1>1, RecordLogOffFacts
<1>3. RecordLogOff(w, s, id) = RecordLogOff(Release(u, p, s), s, id)
    BY DEF w
<1> QED
    BY <1>1, <1>2, <1>3

\* A session dies: its registry entry and its route go, and if it had a route
\* a LOG_OFF goes out for it.
LEMMA ZombieStep ==
    ASSUME IInv, NEW s \in Live, make_zombie(s)
    PROVE  IInv'
<1> DEFINE id == next_request_id + 1
           p  == user.session_to_client[s]
<1>1. /\ state' = [state EXCEPT ![s] = "ZOMBIE"]
      /\ session_remove_helper({s})
      /\ UNCHANGED <<credentials, next_session_id, party_id, waiting_for_heartbeat,
                     server_state, ready, fatal>>
    BY DEF make_zombie, make_zombie_with, server
<1>2. /\ s \in Sessions /\ state[s] # "ZOMBIE" /\ state[s] # "ABSENT"
      /\ LoggedOn' = LoggedOn \ {s}
      /\ username_to_session' \in [Users -> Sessions \cup {None}]
      /\ session_to_username' \in [Sessions -> Users \cup {None}]
      /\ RegistryExact' /\ OnlyUserAddAborts' /\ PartyOfUser'
    BY <1>1, DeathFacts
<1>3. TypeOK
    BY DEF IInv
<1>5. CASE UNCHANGED <<user, pending, next_request_id>> /\ (p = None \/ s \notin LoggedOn)
  <2>1. TypeOK'
    BY <1>1, <1>2, <1>3, <1>5 DEF TypeOK, States
  <2>2. RoutesInverse' /\ FreshIds'
    BY <1>1, <1>2, <1>3, <1>5 DEF IInv, RoutesInverse, FreshIds, TypeOK
  <2>3. BridgeDownDropsSessions'
    BY <1>1, <1>2, <1>5 DEF IInv, BridgeDownDropsSessions
  <2>4. PendingKnown' /\ LogOnOnce'
    BY <1>1, <1>2, <1>5 DEF IInv, PendingKnown, LogOnOnce
  <2>5. ReadyOwnsRoute' /\ CreateIsYoungest' /\ ReadyIsQuiet' /\ RemoveIsAlone'
    BY <1>1, <1>2, <1>3, <1>5
       DEF IInv, ReadyOwnsRoute, CreateIsYoungest, ReadyIsQuiet, RemoveIsAlone, TypeOK
  <2>6. OwnRequests' /\ OwnRoute'
    BY <1>1, <1>2, <1>3, <1>5, PendingFacts DEF IInv, OwnRequests, OwnRoute, TypeOK
  <2> QED
    BY <1>2, <2>1, <2>2, <2>3, <2>4, <2>5, <2>6 DEF IInv
<1>6. CASE /\ s \in LoggedOn /\ p # None /\ ready /\ id \in RequestIds
           /\ next_request_id' = id
           /\ pending' = pending \cup {[id |-> id, type |-> "LOG_OFF_USER", username |-> p]}
           /\ user' = RecordLogOff(Release(user, p, s), s, id)
  <2>1. p \in Parties /\ user \in UserMaps
    BY <1>2, <1>3, <1>6 DEF TypeOK, UserMaps
  <2>2. /\ user' \in UserMaps
        /\ user'.client_to_session = [user.client_to_session EXCEPT ![p] = None]
        /\ user'.session_to_client = [user.session_to_client EXCEPT ![s] = None]
        /\ user'.server_to_client = [user.server_to_client EXCEPT ![id] = s]
        /\ \A t \in Sessions : t # s => user'.client_to_server[t] = user.client_to_server[t]
    <3> DEFINE v == RecordLogOff(Release(user, p, s), s, id)
    <3>1. /\ v \in UserMaps
          /\ v.client_to_session = [user.client_to_session EXCEPT ![p] = None]
          /\ v.session_to_client = [user.session_to_client EXCEPT ![s] = None]
          /\ v.server_to_client = [user.server_to_client EXCEPT ![id] = s]
          /\ \A t \in Sessions : t # s => v.client_to_server[t] = user.client_to_server[t]
      <4>1. id \in RequestIds /\ s \in Sessions /\ p \in Parties /\ user \in UserMaps
        BY <1>2, <1>6, <2>1
      <4> HIDE DEF id, p
      <4> QED
        BY <4>1, LogOffMaps
    <3>2. user' = v
      BY <1>6
    <3> HIDE DEF v
    <3> QED
      BY <3>1, <3>2
  <2>3. [id |-> id, type |-> "LOG_OFF_USER", username |-> p] \in UserRequest
    BY <1>6, <2>1 DEF UserRequest
  <2>4. TypeOK'
    BY <1>1, <1>2, <1>3, <1>6, <2>2, <2>3 DEF TypeOK, States, RequestIds
  <2>5. user'.server_to_client[id] = s
    BY <1>6, <2>1, <2>2 DEF UserMaps
  <2>6. \A i \in RequestIds : i # id => user'.server_to_client[i] = user.server_to_client[i]
    BY <1>6, <2>1, <2>2 DEF UserMaps
  <2>7. \A r \in pending : user'.server_to_client[r.id] = user.server_to_client[r.id]
    BY <2>6, PendingFacts
  <2> QED
    BY <1>1, <1>2, <1>6, <2>1, <2>2, <2>4, <2>5, <2>6, <2>7, LogOffStep
<1> QED
  <2>1. CASE s \notin LoggedOn
    BY <2>1, <1>5 DEF make_zombie, make_zombie_with
  <2>2. CASE s \in LoggedOn /\ p = None
    BY <2>2, <1>5 DEF make_zombie, make_zombie_with, Disconnected, LoggedOn
  <2>3. CASE s \in LoggedOn /\ p # None
    <3>1. ready
      BY <2>3 DEF IInv, BridgeDownDropsSessions
    <3> QED
      BY <2>3, <3>1, <1>6 DEF make_zombie, make_zombie_with, Disconnected, LoggedOn
  <2> QED
    BY <2>1, <2>2, <2>3

\* A logon that the Controller refuses leaves at most a request on record, which
\* the bridge never saw.
LEMMA LogonNotReadyStep ==
    ASSUME IInv, NEW s \in Sessions, NEW u \in Users, LogonNotReady(s, u)
    PROVE  IInv'
<1> DEFINE id == next_request_id + 1
<1>0. /\ None \notin Sessions /\ None \notin Parties /\ TypeOK /\ next_request_id \in Nat
      /\ RequestIds \subseteq Nat /\ credentials[u] \in Parties
    BY NoneAssumption, BoundsAssumption DEF IInv, Sessions, RequestIds, TypeOK,
       LogonNotReady, session_logon_helper
<1>1. /\ state[s] = "WAITING_LOGON" /\ id \in RequestIds /\ next_request_id' = id
      /\ party_id' = [party_id EXCEPT ![s] = credentials[u]]
      /\ state' = [state EXCEPT ![s] = "ZOMBIE"]
      /\ UNCHANGED <<credentials, username_to_session, session_to_username,
                       next_session_id, waiting_for_heartbeat, server_state, ready, pending, fatal>>
    BY DEF LogonNotReady, server
<1>2. /\ user' \in UserMaps
      /\ user'.client_to_session = user.client_to_session
      /\ user'.session_to_client = user.session_to_client
      /\ \/ user'.server_to_client = [user.server_to_client EXCEPT ![id] = s]
         \/ user'.server_to_client = user.server_to_client
      /\ \A t \in Sessions : t # s => user'.client_to_server[t] = user.client_to_server[t]
  <2>1. CASE user' = user
    BY <2>1, <1>0 DEF TypeOK
  <2>2. CASE user' = RecordRequest(s, id)
    <3>1. /\ user' \in UserMaps
          /\ user'.client_to_session = user.client_to_session
          /\ user'.session_to_client = user.session_to_client
          /\ user'.server_to_client = [user.server_to_client EXCEPT ![id] = s]
          /\ user'.client_to_server = [user.client_to_server EXCEPT ![s] = id]
      BY <2>2, <1>0, <1>1, RecordRequestFacts
    <3> QED
      BY <3>1, <1>0 DEF TypeOK, UserMaps
  <2> QED
    BY <2>1, <2>2 DEF LogonNotReady
<1>3. LoggedOn' = LoggedOn /\ s \notin LoggedOn
    BY <1>0, <1>1 DEF LoggedOn, TypeOK
<1>4. \A r \in pending : user'.server_to_client[r.id] = user.server_to_client[r.id]
    BY <1>0, <1>1, <1>2, PendingFacts DEF TypeOK, UserMaps
<1>5. TypeOK'
    BY <1>0, <1>1, <1>2 DEF TypeOK, States, RequestIds
<1>6. RegistryExact' /\ RoutesInverse' /\ BridgeDownDropsSessions' /\ OnlyUserAddAborts'
    BY <1>1, <1>2, <1>3 DEF IInv, RegistryExact, RoutesInverse, BridgeDownDropsSessions,
                            OnlyUserAddAborts
<1>7. FreshIds'
    BY <1>0, <1>1, <1>2 DEF IInv, TypeOK, FreshIds, UserMaps
<1>8. PartyOfUser'
    BY <1>0, <1>1, <1>3 DEF IInv, PartyOfUser, TypeOK, LoggedOn
<1>9. PendingKnown'
    BY <1>0, <1>1, <1>3, <1>4, PendingFacts DEF IInv, PendingKnown, TypeOK
<1>10. LogOnOnce'
    BY <1>1, <1>2, <1>4 DEF IInv, LogOnOnce
<1>11. ReadyOwnsRoute' /\ ReadyIsQuiet' /\ RemoveIsAlone'
    BY <1>0, <1>1, <1>2, <1>4 DEF IInv, TypeOK, ReadyOwnsRoute, ReadyIsQuiet, RemoveIsAlone
<1>12. CreateIsYoungest'
    BY <1>0, <1>1, <1>2, <1>4 DEF IInv, TypeOK, CreateIsYoungest
<1>13. OwnRequests' /\ OwnRoute'
    BY <1>0, <1>1, <1>2, <1>3, <1>4, PendingFacts DEF IInv, TypeOK, OwnRequests, OwnRoute, LoggedOn
<1> QED
    BY <1>5, <1>6, <1>7, <1>8, <1>9, <1>10, <1>11, <1>12, <1>13 DEF IInv

\* The logon is accepted: its request is younger than any other.
LEMMA LogonStep ==
    ASSUME IInv, NEW s \in Sessions, NEW u \in Users, Logon(s, u)
    PROVE  IInv'
<1> DEFINE id == next_request_id + 1
           p  == credentials[u]
           m  == [id |-> id, type |-> "LOG_ON_USER", username |-> p]
<1>0. /\ None \notin Sessions /\ None \notin Parties /\ None \notin Users
      /\ TypeOK /\ next_request_id \in Nat
      /\ RequestIds \subseteq Nat /\ p \in Parties /\ p \in Strategies[u]
    BY NoneAssumption, BoundsAssumption DEF IInv, Sessions, RequestIds, TypeOK,
       Logon, session_logon_helper
<1>1. /\ state[s] = "WAITING_LOGON" /\ id \in RequestIds /\ next_request_id' = id
      /\ ready /\ user.client_to_session[p] = None /\ username_to_session[u] = None
      /\ username_to_session' = [username_to_session EXCEPT ![u] = s]
      /\ session_to_username' = [session_to_username EXCEPT ![s] = u]
      /\ party_id' = [party_id EXCEPT ![s] = p]
      /\ UNCHANGED <<credentials, next_session_id, waiting_for_heartbeat, server_state, ready>>
    BY DEF Logon, SendUserRequest, server, user_is_locked, session_logon_helper
<1>2. user.client_to_server[s] = None /\ user.session_to_client[s] = None
      /\ \A i \in RequestIds : user.server_to_client[i] # s
    BY <1>1 DEF IInv, FreshIds
<1>3. /\ user' = RecordRequest(s, id)
      /\ pending' = pending \cup {m}
      /\ state' = [state EXCEPT ![s] = "WAITING_CREATE_ROUTE"]
      /\ UNCHANGED fatal
    BY <1>2 DEF Logon, SendUserRequest
<1>4. /\ user' \in UserMaps
      /\ user'.client_to_session = user.client_to_session
      /\ user'.session_to_client = user.session_to_client
      /\ user'.server_to_client = [user.server_to_client EXCEPT ![id] = s]
      /\ user'.client_to_server = [user.client_to_server EXCEPT ![s] = id]
    BY <1>0, <1>1, <1>3, RecordRequestFacts
<1>5. LoggedOn' = LoggedOn \cup {s} /\ s \notin LoggedOn
    BY <1>0, <1>1, <1>3 DEF LoggedOn, TypeOK
<1>6. m \in UserRequest /\ m.id = id /\ m.type = "LOG_ON_USER" /\ m.username = p
    BY <1>0, <1>1 DEF UserRequest
<1>7. /\ \A r \in pending : user'.server_to_client[r.id] = user.server_to_client[r.id]
                            /\ user.server_to_client[r.id] # s
      /\ user'.server_to_client[id] = s
    BY <1>0, <1>1, <1>2, <1>4, PendingFacts DEF TypeOK, UserMaps
<1>8. TypeOK'
    BY <1>0, <1>1, <1>3, <1>4, <1>6 DEF TypeOK, States, RequestIds
<1>9. RegistryExact'
    BY <1>0, <1>1, <1>5 DEF IInv, RegistryExact, TypeOK
<1>10. RoutesInverse' /\ BridgeDownDropsSessions' /\ OnlyUserAddAborts'
    BY <1>1, <1>3, <1>4 DEF IInv, RoutesInverse, BridgeDownDropsSessions, OnlyUserAddAborts
<1>11. FreshIds'
    BY <1>0, <1>1, <1>3, <1>4 DEF IInv, TypeOK, FreshIds, UserMaps
<1>12. PartyOfUser'
    BY <1>0, <1>1, <1>5 DEF IInv, PartyOfUser, TypeOK, LoggedOn
<1>13. \A t \in LoggedOn : party_id[t] \in Sole => party_id[t] # p
  <2> TAKE t \in LoggedOn
  <2>1. session_to_username[t] \in Users /\ username_to_session[session_to_username[t]] = t
    BY PartiesDiffer
  <2>2. t \in Sessions /\ party_id[t] \in Strategies[session_to_username[t]]
    BY DEF IInv, PartyOfUser, LoggedOn
  <2> QED
    BY <1>0, <1>1, <2>1, <2>2, StrategiesAssumption DEF Sole
<1>14. PendingKnown'
  <2> SUFFICES ASSUME NEW r \in pending'
               PROVE  /\ r.id <= next_request_id'
                      /\ user'.server_to_client[r.id] # None
                      /\ \A q \in pending' : q.id = r.id => q = r
                      /\ user'.server_to_client[r.id] \in LoggedOn' =>
                           r.username = party_id'[user'.server_to_client[r.id]]
    BY DEF PendingKnown
  <2>1. CASE r = m
    BY <2>1, <1>0, <1>1, <1>3, <1>6, <1>7, PendingFacts DEF TypeOK
  <2>2. CASE r \in pending
    BY <2>2, <1>0, <1>1, <1>3, <1>5, <1>6, <1>7, PendingFacts DEF IInv, PendingKnown, TypeOK, LoggedOn
  <2> QED
    BY <2>1, <2>2, <1>3
<1>15. LogOnOnce'
    BY <1>1, <1>2, <1>3, <1>4, <1>6, <1>7 DEF IInv, LogOnOnce
<1>16. ReadyOwnsRoute'
    BY <1>0, <1>1, <1>3, <1>4 DEF IInv, TypeOK, ReadyOwnsRoute
<1>17. CreateIsYoungest'
  <2> SUFFICES ASSUME NEW t \in Sessions, state'[t] = "WAITING_CREATE_ROUTE"
               PROVE  /\ user'.session_to_client[t] = None
                      /\ \E r \in pending' :
                           /\ r.type = "LOG_ON_USER"
                           /\ user'.server_to_client[r.id] = t
                           /\ party_id'[t] \in Sole =>
                                \A q \in pending' : q.username = party_id'[t] => q.id <= r.id
    BY DEF CreateIsYoungest
  <2>1. CASE t = s
    <3>1. \A q \in pending' : q.id <= m.id
      BY <1>0, <1>1, <1>3, <1>6, PendingFacts
    <3> QED
      BY <2>1, <3>1, <1>2, <1>3, <1>4, <1>6, <1>7
  <2>2. CASE t # s
    <3>1. state[t] = "WAITING_CREATE_ROUTE" /\ t \in LoggedOn /\ party_id'[t] = party_id[t]
      BY <2>2, <1>0, <1>1, <1>3 DEF TypeOK, LoggedOn
    <3>2. user.session_to_client[t] = None
      BY <3>1 DEF IInv, CreateIsYoungest
    <3>3. PICK r \in pending : /\ r.type = "LOG_ON_USER" /\ user.server_to_client[r.id] = t
                               /\ party_id[t] \in Sole =>
                                    \A q \in pending : q.username = party_id[t] => q.id <= r.id
      BY <3>1 DEF IInv, CreateIsYoungest
    <3> QED
      BY <3>1, <3>2, <3>3, <1>3, <1>4, <1>6, <1>7, <1>13
  <2> QED
    BY <2>1, <2>2
<1>18. ReadyIsQuiet'
  <2> SUFFICES ASSUME NEW t \in Sessions, state'[t] = "READY"
               PROVE  /\ user'.client_to_server[t] = None
                      /\ party_id'[t] \in Sole => \A q \in pending' : q.username # party_id'[t]
    BY DEF ReadyIsQuiet
  <2>1. t # s /\ state[t] = "READY" /\ t \in LoggedOn /\ party_id'[t] = party_id[t]
    BY <1>0, <1>1, <1>3 DEF TypeOK, LoggedOn
  <2> QED
    BY <2>1, <1>0, <1>3, <1>4, <1>6, <1>13 DEF IInv, ReadyIsQuiet, TypeOK, UserMaps
<1>19. RemoveIsAlone'
  <2> SUFFICES ASSUME NEW t \in Sessions, state'[t] = "WAITING_REMOVE_ROUTE",
                      party_id'[t] \in Sole, NEW q \in pending', q.username = party_id'[t]
               PROVE  q.type = "LOG_OFF_USER" /\ user'.server_to_client[q.id] = t
    BY DEF RemoveIsAlone
  <2>1. t # s /\ state[t] = "WAITING_REMOVE_ROUTE" /\ t \in LoggedOn /\ party_id'[t] = party_id[t]
    BY <1>0, <1>1, <1>3 DEF TypeOK, LoggedOn
  <2> QED
    BY <2>1, <1>3, <1>6, <1>7, <1>13 DEF IInv, RemoveIsAlone
<1>20. OwnRequests' /\ OwnRoute'
    BY <1>0, <1>1, <1>2, <1>3, <1>4, <1>5, <1>6, <1>7, PendingFacts
       DEF IInv, TypeOK, OwnRequests, OwnRoute, LoggedOn
<1> QED
    BY <1>8, <1>9, <1>10, <1>11, <1>12, <1>14, <1>15, <1>16, <1>17, <1>18, <1>19, <1>20 DEF IInv

\* A READY session asks for its release: the request is the only one for its party.
LEMMA LogoutStep ==
    ASSUME IInv, NEW s \in Sessions, state[s] = "READY", Logout(s)
    PROVE  IInv'
<1> DEFINE id == next_request_id + 1
           p  == party_id[s]
           m  == [id |-> id, type |-> "LOG_OFF_USER", username |-> p]
<1>0. /\ None \notin Sessions /\ None \notin Parties /\ TypeOK /\ next_request_id \in Nat
      /\ RequestIds \subseteq Nat
    BY NoneAssumption, BoundsAssumption DEF IInv, Sessions, RequestIds, TypeOK
<1>1. s \in LoggedOn /\ p \in Parties /\ user.client_to_server[s] = None
    BY <1>0, PartiesDiffer DEF LoggedOn, IInv, ReadyIsQuiet
<1>2. /\ id \in RequestIds /\ next_request_id' = id
      /\ user' = RecordRequest(s, id)
      /\ pending' = pending \cup {m}
      /\ state' = [state EXCEPT ![s] = "WAITING_REMOVE_ROUTE"]
      /\ UNCHANGED <<credentials, username_to_session, session_to_username,
                     next_session_id, party_id, waiting_for_heartbeat, server_state, ready, fatal>>
      /\ ready
    BY <1>1 DEF Logout, SendUserRequest, server
<1>4. /\ user' \in UserMaps
      /\ user'.client_to_session = user.client_to_session
      /\ user'.session_to_client = user.session_to_client
      /\ user'.server_to_client = [user.server_to_client EXCEPT ![id] = s]
      /\ user'.client_to_server = [user.client_to_server EXCEPT ![s] = id]
    BY <1>0, <1>2, RecordRequestFacts
<1>5. LoggedOn' = LoggedOn
    BY <1>0, <1>2, <1>1 DEF LoggedOn, TypeOK
<1>6. m \in UserRequest /\ m.id = id /\ m.type = "LOG_OFF_USER" /\ m.username = p
    BY <1>0, <1>1, <1>2 DEF UserRequest
<1>7. /\ \A r \in pending : user'.server_to_client[r.id] = user.server_to_client[r.id]
      /\ user'.server_to_client[id] = s
    BY <1>0, <1>2, <1>4, PendingFacts DEF TypeOK, UserMaps
<1>13. \A r \in pending : /\ user.server_to_client[r.id] # s
                          /\ p \in Sole => r.username # p
    BY DEF IInv, ReadyIsQuiet, OwnRequests
<1>8. TypeOK'
    BY <1>0, <1>2, <1>4, <1>6 DEF TypeOK, States, RequestIds
<1>9. RegistryExact'
    BY <1>2, <1>5 DEF IInv, RegistryExact
<1>10. RoutesInverse' /\ BridgeDownDropsSessions' /\ OnlyUserAddAborts' /\ PartyOfUser'
    BY <1>2, <1>4, <1>5 DEF IInv, RoutesInverse, BridgeDownDropsSessions, OnlyUserAddAborts,
                            PartyOfUser
<1>11. FreshIds'
  <2>1. s <= next_session_id
    BY BoundsAssumption DEF IInv, FreshIds, TypeOK, Sessions
  <2>2. next_session_id \in Nat /\ Sessions \subseteq Nat
    BY <1>0, BoundsAssumption DEF TypeOK, Sessions
  <2>3. ASSUME NEW t \in Sessions, t > next_session_id \/ state'[t] = "WAITING_LOGON"
        PROVE  t # s /\ (t > next_session_id \/ state[t] = "WAITING_LOGON")
    BY <2>1, <2>2, <2>3, <1>0, <1>2 DEF TypeOK
  <2>4. \A t \in Sessions : t > next_session_id => state'[t] = "ABSENT"
    BY <2>3, <1>0, <1>2 DEF IInv, FreshIds, TypeOK
  <2>5. ASSUME NEW t \in Sessions, t > next_session_id \/ state'[t] = "WAITING_LOGON"
        PROVE  /\ user'.session_to_client[t] = None
               /\ user'.client_to_server[t] = None
               /\ \A i \in RequestIds : user'.server_to_client[i] # t
    BY <2>3, <2>5, <1>0, <1>4 DEF IInv, FreshIds, TypeOK, UserMaps
  <2>6. \A i \in RequestIds : i > next_request_id' => user'.server_to_client[i] = None
    BY <1>0, <1>2, <1>4 DEF IInv, FreshIds, TypeOK, UserMaps
  <2> QED
    BY <1>2, <2>4, <2>5, <2>6 DEF FreshIds
<1>12. \A t \in LoggedOn : t # s /\ party_id[t] \in Sole => party_id[t] # p
    BY <1>1, PartiesDiffer
<1>14. PendingKnown'
  <2> SUFFICES ASSUME NEW r \in pending'
               PROVE  /\ r.id <= next_request_id'
                      /\ user'.server_to_client[r.id] # None
                      /\ \A q \in pending' : q.id = r.id => q = r
                      /\ user'.server_to_client[r.id] \in LoggedOn' =>
                           r.username = party_id'[user'.server_to_client[r.id]]
    BY DEF PendingKnown
  <2>1. CASE r = m
    BY <2>1, <1>0, <1>2, <1>6, <1>7, PendingFacts
  <2>2. CASE r \in pending
    BY <2>2, <1>0, <1>2, <1>5, <1>6, <1>7, PendingFacts DEF IInv, PendingKnown
  <2> QED
    BY <2>1, <2>2, <1>2
<1>15. LogOnOnce'
    BY <1>2, <1>4, <1>6, <1>7 DEF IInv, LogOnOnce
<1>16. ReadyOwnsRoute'
    BY <1>0, <1>2, <1>4 DEF IInv, TypeOK, ReadyOwnsRoute
<1>17. CreateIsYoungest'
  <2> SUFFICES ASSUME NEW t \in Sessions, state'[t] = "WAITING_CREATE_ROUTE"
               PROVE  /\ user'.session_to_client[t] = None
                      /\ \E r \in pending' :
                           /\ r.type = "LOG_ON_USER"
                           /\ user'.server_to_client[r.id] = t
                           /\ party_id'[t] \in Sole =>
                                \A q \in pending' : q.username = party_id'[t] => q.id <= r.id
    BY DEF CreateIsYoungest
  <2>1. t # s /\ state[t] = "WAITING_CREATE_ROUTE" /\ t \in LoggedOn
    BY <1>0, <1>2 DEF TypeOK, LoggedOn
  <2>2. user.session_to_client[t] = None
    BY <2>1 DEF IInv, CreateIsYoungest
  <2>3. PICK r \in pending : /\ r.type = "LOG_ON_USER" /\ user.server_to_client[r.id] = t
                             /\ party_id[t] \in Sole =>
                                  \A q \in pending : q.username = party_id[t] => q.id <= r.id
    BY <2>1 DEF IInv, CreateIsYoungest
  <2> QED
    <3>1. r \in pending' /\ user'.server_to_client[r.id] = t
      BY <2>3, <1>2, <1>7
    <3>2. user'.session_to_client[t] = None
      BY <2>2, <1>4
    <3>3. party_id'[t] \in Sole =>
            \A q \in pending' : q.username = party_id'[t] => q.id <= r.id
      BY <2>1, <2>3, <1>2, <1>6, <1>12
    <3> QED
      BY <2>3, <3>1, <3>2, <3>3
<1>18. ReadyIsQuiet'
  <2> SUFFICES ASSUME NEW t \in Sessions, state'[t] = "READY"
               PROVE  /\ user'.client_to_server[t] = None
                      /\ party_id'[t] \in Sole => \A q \in pending' : q.username # party_id'[t]
    BY DEF ReadyIsQuiet
  <2>1. t # s /\ state[t] = "READY" /\ t \in LoggedOn
    BY <1>0, <1>2 DEF TypeOK, LoggedOn
  <2> QED
    <3>1. user'.client_to_server[t] = None
      BY <2>1, <1>0, <1>4 DEF IInv, ReadyIsQuiet, TypeOK, UserMaps
    <3>2. party_id[t] \in Sole => \A q \in pending : q.username # party_id[t]
      BY <2>1 DEF IInv, ReadyIsQuiet
    <3> QED
      BY <2>1, <3>1, <3>2, <1>2, <1>6, <1>12
<1>19. RemoveIsAlone'
  <2> SUFFICES ASSUME NEW t \in Sessions, state'[t] = "WAITING_REMOVE_ROUTE",
                      party_id'[t] \in Sole, NEW q \in pending', q.username = party_id'[t]
               PROVE  q.type = "LOG_OFF_USER" /\ user'.server_to_client[q.id] = t
    BY DEF RemoveIsAlone
  <2>1. CASE t = s
    BY <2>1, <1>2, <1>6, <1>7, <1>13
  <2>2. CASE t # s
    <3>1. state[t] = "WAITING_REMOVE_ROUTE" /\ t \in LoggedOn
      BY <2>2, <1>0, <1>2 DEF TypeOK, LoggedOn
    <3> QED
      BY <2>2, <3>1, <1>2, <1>6, <1>7, <1>12 DEF IInv, RemoveIsAlone
  <2> QED
    BY <2>1, <2>2
<1>20. OwnRequests' /\ OwnRoute'
    BY <1>0, <1>1, <1>2, <1>4, <1>5, <1>6, <1>7, <1>13, PendingFacts
       DEF IInv, TypeOK, OwnRequests, OwnRoute, LoggedOn
<1> QED
    BY <1>8, <1>9, <1>10, <1>11, <1>14, <1>15, <1>16, <1>17, <1>18, <1>19, <1>20 DEF IInv

\* The bridge's logon changes only ready_ and the connection state.
LEMMA ServerUpStep ==
    ASSUME IInv, ServerConnected \/ ServerLogon
    PROVE  IInv'
<1>1. UNCHANGED <<credentials, username_to_session, session_to_username, next_session_id,
                  next_request_id, state, party_id, waiting_for_heartbeat, user, pending, fatal>>
    BY DEF ServerConnected, ServerLogon, shared, session
<1>2. LoggedOn' = LoggedOn
    BY <1>1 DEF LoggedOn
<1>3. BridgeDownDropsSessions' /\ TypeOK'
  <2>1. CASE ServerConnected
    <3>1. server_state = "DISCONNECTED" /\ server_state' = "LOGON_SENT" /\ ready' = ready
      BY <2>1 DEF ServerConnected
    <3>2. ready = FALSE /\ LoggedOn = {} /\ pending = {}
      BY <3>1 DEF IInv, TypeOK, BridgeDownDropsSessions
    <3> QED
      BY <1>1, <1>2, <3>1, <3>2 DEF IInv, TypeOK, BridgeDownDropsSessions
  <2>2. CASE ServerLogon
    <3>1. server_state' = "READY" /\ ready' = TRUE
      BY <2>2 DEF ServerLogon
    <3> QED
      BY <1>1, <1>2, <3>1 DEF IInv, TypeOK, BridgeDownDropsSessions
  <2> QED
    BY <2>1, <2>2
<1>4. RegistryExact' /\ RoutesInverse' /\ ReadyOwnsRoute' /\ OnlyUserAddAborts' /\ FreshIds'
    BY <1>1, <1>2 DEF IInv, RegistryExact, RoutesInverse, ReadyOwnsRoute, OnlyUserAddAborts, FreshIds
<1>5. PartyOfUser' /\ PendingKnown' /\ LogOnOnce'
    BY <1>1, <1>2 DEF IInv, PartyOfUser, PendingKnown, LogOnOnce
<1>6. CreateIsYoungest' /\ ReadyIsQuiet' /\ RemoveIsAlone'
    BY <1>1, <1>2 DEF IInv, CreateIsYoungest, ReadyIsQuiet, RemoveIsAlone
<1>7. OwnRequests' /\ OwnRoute'
    BY <1>1, <1>2 DEF IInv, OwnRequests, OwnRoute
<1> QED
    BY <1>3, <1>4, <1>5, <1>6, <1>7 DEF IInv

\* The bridge is lost: nobody is past the logon any more.
LEMMA ServerDisconnectedStep == IInv /\ ServerDisconnected => IInv'
<1> SUFFICES ASSUME IInv, ServerDisconnected PROVE IInv'
    OBVIOUS
<1>0. /\ None \notin Sessions /\ None \notin Parties /\ None \notin Users /\ TypeOK
      /\ LoggedOn \subseteq Live /\ Live \subseteq Sessions
    BY NoneAssumption, BoundsAssumption DEF IInv, Sessions, Live, LoggedOn
<1>1. /\ server_state' = "DISCONNECTED" /\ ready' = FALSE /\ pending' = {}
      /\ state' = [s \in Sessions |-> IF s \in Live THEN "ZOMBIE" ELSE state[s]]
      /\ UNCHANGED <<credentials, next_session_id, next_request_id, party_id,
                     waiting_for_heartbeat, fatal>>
      /\ username_to_session' =
         [u \in Users |-> IF \E s \in Live : session_to_username[s] = u
                            THEN None ELSE username_to_session[u]]
      /\ session_to_username' =
         [s \in Sessions |-> IF s \in Live THEN None ELSE session_to_username[s]]
    BY DEF ServerDisconnected, session_remove_helper
<1>2. /\ user' \in UserMaps
      /\ user'.client_to_session = [p \in Parties |->
            IF \E s \in LoggedOn : user.session_to_client[s] = p
              THEN None ELSE user.client_to_session[p]]
      /\ user'.session_to_client =
            [s \in Sessions |-> IF s \in LoggedOn THEN None ELSE user.session_to_client[s]]
      /\ user'.server_to_client = user.server_to_client
      /\ user'.client_to_server = user.client_to_server
    BY <1>0 DEF ServerDisconnected, TypeOK, UserMaps
<1>3. LoggedOn' = {} /\ \A s \in Sessions : state'[s] \in {"ZOMBIE", "ABSENT"}
    BY <1>0, <1>1 DEF LoggedOn, TypeOK, Live, States
<1>4. TypeOK'
    BY <1>0, <1>1, <1>2 DEF TypeOK, States
<1>5. RegistryExact'
    BY <1>0, <1>1, <1>3 DEF IInv, RegistryExact, TypeOK
<1>6. RoutesInverse'
    BY <1>0, <1>2 DEF IInv, RoutesInverse, TypeOK, UserMaps
<1>7. BridgeDownDropsSessions' /\ OnlyUserAddAborts' /\ PartyOfUser' /\ PendingKnown' /\ LogOnOnce'
    BY <1>1, <1>3 DEF IInv, BridgeDownDropsSessions, OnlyUserAddAborts, PartyOfUser,
                      PendingKnown, LogOnOnce
<1>8. FreshIds'
    BY <1>0, <1>1, <1>2, <1>3 DEF IInv, FreshIds, TypeOK, Live, LoggedOn
<1>9. ReadyOwnsRoute' /\ CreateIsYoungest' /\ ReadyIsQuiet' /\ RemoveIsAlone'
    BY <1>3 DEF ReadyOwnsRoute, CreateIsYoungest, ReadyIsQuiet, RemoveIsAlone
<1>10. OwnRequests' /\ OwnRoute'
    BY <1>1, <1>3 DEF OwnRequests, OwnRoute
<1> QED
    BY <1>4, <1>5, <1>6, <1>7, <1>8, <1>9, <1>10 DEF IInv

\* Collecting the zombies frees nothing that is in use.
LEMMA CollectStep == IInv /\ remove_zombies => IInv'
<1> SUFFICES ASSUME IInv, remove_zombies PROVE IInv'
    OBVIOUS
<1>0. None \notin Sessions /\ None \notin Parties /\ None \notin Users /\ TypeOK
    BY NoneAssumption, BoundsAssumption DEF IInv, Sessions
<1>1. \A s \in Zombies : s \in Sessions /\ session_to_username[s] = None /\ s \notin LoggedOn
    BY DEF IInv, Zombies, RegistryExact, LoggedOn
<1>2. /\ state' = [s \in Sessions |-> IF s \in Zombies THEN "ABSENT" ELSE state[s]]
      /\ party_id' = [s \in Sessions |-> IF s \in Zombies THEN None ELSE party_id[s]]
      /\ waiting_for_heartbeat' =
           [s \in Sessions |-> IF s \in Zombies THEN FALSE ELSE waiting_for_heartbeat[s]]
      /\ UNCHANGED <<credentials, next_session_id, next_request_id, server_state, ready, user,
                     pending, fatal>>
    BY DEF remove_zombies, server
<1>3. UNCHANGED <<username_to_session, session_to_username>>
    BY <1>0, <1>1 DEF remove_zombies, session_remove_helper, TypeOK
<1>4. LoggedOn' = LoggedOn /\ \A s \in LoggedOn : s \in Sessions /\ party_id'[s] = party_id[s]
    BY <1>0, <1>1, <1>2 DEF LoggedOn, TypeOK, Zombies
<1>5. /\ \A s \in Sessions : state'[s] # "ABSENT" => state'[s] = state[s] /\ s \notin Zombies
      /\ \A s \in Sessions : state[s] = "ABSENT" => state'[s] = "ABSENT"
    BY <1>0, <1>2 DEF TypeOK, Zombies
<1>6. TypeOK'
  <2>1. waiting_for_heartbeat' \in [Sessions -> BOOLEAN]
    BY <1>0, <1>2 DEF TypeOK
  <2> QED
    BY <1>0, <1>2, <1>3, <2>1 DEF TypeOK, States
<1>7. RegistryExact' /\ RoutesInverse' /\ BridgeDownDropsSessions' /\ OnlyUserAddAborts'
    BY <1>2, <1>3, <1>4 DEF IInv, RegistryExact, RoutesInverse, BridgeDownDropsSessions,
                            OnlyUserAddAborts
<1>8. FreshIds' /\ PartyOfUser'
    BY <1>2, <1>3, <1>4, <1>5 DEF IInv, FreshIds, PartyOfUser
<1>9. PendingKnown' /\ LogOnOnce'
    BY <1>2, <1>4 DEF IInv, PendingKnown, LogOnOnce
<1>10. ReadyOwnsRoute' /\ ReadyIsQuiet' /\ RemoveIsAlone' /\ CreateIsYoungest'
    BY <1>2, <1>5 DEF IInv, ReadyOwnsRoute, ReadyIsQuiet, RemoveIsAlone, CreateIsYoungest
<1>11. OwnRequests' /\ OwnRoute'
    BY <1>2, <1>4, <1>5, PendingFacts DEF IInv, OwnRequests, OwnRoute
<1> QED
    BY <1>6, <1>7, <1>8, <1>9, <1>10, <1>11 DEF IInv

\* An answer is taken off the wire.  Its session is not past the logon any more
\* afterwards; the routes change at most for the answered party.
LEMMA AnswerStep ==
    ASSUME IInv, NEW r \in pending, NEW s \in Sessions,
           s = user.server_to_client[r.id],
           \A q \in pending : r.id <= q.id,
           pending' = pending \ {r},
           TypeOK', RegistryExact', RoutesInverse', OnlyUserAddAborts', PartyOfUser',
           LoggedOn' = LoggedOn \ {s}, state'[s] # "WAITING_LOGON",
           s <= next_session_id,
           \A t \in Sessions : t # s => state'[t] = state[t],
           \A p \in Parties : p # r.username =>
             user'.client_to_session[p] = user.client_to_session[p],
           \A t \in Sessions : t # s =>
             user'.session_to_client[t] \in {user.session_to_client[t], None},
           \A i \in RequestIds : i # r.id =>
             user'.server_to_client[i] = user.server_to_client[i],
           user'.server_to_client[r.id] \in {s, None},
           \A t \in Sessions : t # s => user'.client_to_server[t] = user.client_to_server[t],
           r.type = "LOG_OFF_USER" =>
             user'.session_to_client[s] \in {user.session_to_client[s], None},
           UNCHANGED <<next_session_id, next_request_id, party_id, server_state, ready>>
    PROVE  IInv'
<1>0. /\ TypeOK /\ None \notin Sessions /\ Sessions \subseteq Nat /\ next_session_id \in Nat
      /\ s # None
    BY NoneAssumption, BoundsAssumption DEF IInv, TypeOK, Sessions
<1>1. \A q \in pending : q # r =>
        q.id # r.id /\ user'.server_to_client[q.id] = user.server_to_client[q.id]
    BY PendingFacts DEF IInv, PendingKnown
<1>2. \A t \in Sessions : t # s /\ state[t] = "READY" /\ party_id[t] \in Sole =>
        party_id[t] # r.username
    BY DEF IInv, ReadyIsQuiet
<1>3. \A t \in Sessions : t # s /\ state[t] = "WAITING_REMOVE_ROUTE" /\ party_id[t] \in Sole =>
        party_id[t] # r.username
    BY DEF IInv, RemoveIsAlone
<1>4. s \notin LoggedOn' /\ \A t \in LoggedOn' : t \in LoggedOn /\ t \in Sessions
    BY DEF LoggedOn
<1>5. FreshIds'
  <2>1. state[s] # "WAITING_LOGON"
    BY PendingFacts DEF IInv, FreshIds
  <2>2. ASSUME NEW t \in Sessions, t > next_session_id \/ state'[t] = "WAITING_LOGON"
        PROVE  t # s /\ (t > next_session_id \/ state[t] = "WAITING_LOGON")
    BY <2>2, <1>0
  <2>3. \A t \in Sessions : t > next_session_id => state'[t] = "ABSENT"
    BY <2>2, <1>0 DEF IInv, FreshIds
  <2>4. ASSUME NEW t \in Sessions, t > next_session_id \/ state'[t] = "WAITING_LOGON"
        PROVE  /\ user'.session_to_client[t] = None
               /\ user'.client_to_server[t] = None
               /\ \A i \in RequestIds : user'.server_to_client[i] # t
    BY <2>2, <2>4, <1>0, PendingFacts DEF IInv, FreshIds
  <2>5. \A i \in RequestIds : i > next_request_id => user'.server_to_client[i] = None
    BY <1>0, PendingFacts DEF IInv, FreshIds
  <2> QED
    BY <2>3, <2>4, <2>5 DEF FreshIds
<1>6. BridgeDownDropsSessions'
    BY <1>4 DEF IInv, BridgeDownDropsSessions
<1>7. PendingKnown'
    BY <1>1, <1>4, PendingFacts DEF IInv, PendingKnown
<1>8. LogOnOnce'
  <2> SUFFICES ASSUME NEW x \in pending', x.type = "LOG_ON_USER"
               PROVE  /\ user'.session_to_client[user'.server_to_client[x.id]] = None
                      /\ \A q \in pending' :
                           (/\ q.type = "LOG_ON_USER"
                            /\ user'.server_to_client[q.id] = user'.server_to_client[x.id]) => q = x
    BY DEF LogOnOnce
  <2> DEFINE t == user.server_to_client[x.id]
  <2>1. /\ x \in pending /\ x # r /\ t \in Sessions /\ user'.server_to_client[x.id] = t
        /\ user.session_to_client[t] = None
    BY <1>1, PendingFacts DEF IInv, LogOnOnce
  <2>2. user'.session_to_client[t] = None
    <3>1. CASE t # s
      BY <3>1, <2>1
    <3>2. CASE t = s
      <4>1. r.type # "LOG_ON_USER"
        BY <3>2, <2>1 DEF IInv, LogOnOnce
      <4>2. r.type = "LOG_OFF_USER"
        BY <4>1, PendingFacts
      <4> QED
        BY <4>2, <3>2, <2>1
    <3> QED
      BY <3>1, <3>2
  <2> QED
    BY <2>1, <2>2, <1>1 DEF IInv, LogOnOnce
<1>9. \A t \in Sessions : state'[t] \in {"WAITING_CREATE_ROUTE", "READY", "WAITING_REMOVE_ROUTE"}
        => t # s /\ state[t] = state'[t] /\ t \in LoggedOn /\ party_id[t] \in Parties
    BY <1>4, PartiesDiffer DEF LoggedOn
<1>10. ReadyOwnsRoute'
    BY <1>0, <1>2, <1>3, <1>9 DEF IInv, ReadyOwnsRoute
<1>11. ReadyIsQuiet' /\ RemoveIsAlone'
    BY <1>1, <1>9 DEF IInv, ReadyIsQuiet, RemoveIsAlone
<1>12. CreateIsYoungest'
  <2> SUFFICES ASSUME NEW t \in Sessions, state'[t] = "WAITING_CREATE_ROUTE"
               PROVE  /\ user'.session_to_client[t] = None
                      /\ \E x \in pending' :
                           /\ x.type = "LOG_ON_USER"
                           /\ user'.server_to_client[x.id] = t
                           /\ party_id'[t] \in Sole =>
                                \A q \in pending' : q.username = party_id'[t] => q.id <= x.id
    BY DEF CreateIsYoungest
  <2>1. t # s /\ state[t] = "WAITING_CREATE_ROUTE" /\ user.session_to_client[t] = None
    BY <1>9 DEF IInv, CreateIsYoungest
  <2>2. PICK x \in pending : /\ x.type = "LOG_ON_USER" /\ user.server_to_client[x.id] = t
                             /\ party_id[t] \in Sole =>
                                  \A q \in pending : q.username = party_id[t] => q.id <= x.id
    BY <2>1 DEF IInv, CreateIsYoungest
  <2>3. x # r
    BY <2>1, <2>2
  <2>4. x \in pending' /\ user'.server_to_client[x.id] = t
    BY <2>2, <2>3, <1>1
  <2>5. user'.session_to_client[t] = None
    BY <2>1
  <2>6. party_id'[t] \in Sole => \A q \in pending' : q.username = party_id'[t] => q.id <= x.id
    <3> SUFFICES ASSUME party_id[t] \in Sole, NEW q \in pending, q.username = party_id[t]
                 PROVE  q.id <= x.id
      OBVIOUS
    <3> QED
      BY <2>2
  <2> QED
    BY <2>2, <2>4, <2>5, <2>6
<1>13. OwnRequests' /\ OwnRoute'
  <2>1. OwnRequests'
    BY <1>1, <1>9, PendingFacts DEF IInv, OwnRequests
  <2>2. OwnRoute'
    BY <1>4 DEF IInv, OwnRoute
  <2> QED
    BY <2>1, <2>2
<1> QED
    BY <1>5, <1>6, <1>7, <1>8, <1>10, <1>11, <1>12, <1>13 DEF IInv

\* The route maps after an answer: they stay inverse, and change at most for the
\* answered party and, with LOGGED_IN, for the answered session.
LEMMA RouteFacts ==
    ASSUME IInv, NEW r \in pending, NEW s \in Sessions, s = user.server_to_client[r.id],
           NEW status \in {"LOGGED_IN", "NOT_LOGGED_IN", "OTHER"},
           status \in BridgeAnswers(r.type),
           UserResponseFatal(r, s, status) = "no", state[s] # "ABSENT",
           NEW u, u = EraseRequest(UserResponseRoute(r, s, status), s, r.id)
    PROVE  /\ u \in UserMaps
           /\ \A t \in Sessions, p \in Parties :
                (u.session_to_client[t] = p) <=> (u.client_to_session[p] = t)
           /\ \A p \in Parties : p # r.username =>
                u.client_to_session[p] = user.client_to_session[p]
           /\ \A t \in Sessions : t # s =>
                u.session_to_client[t] \in {user.session_to_client[t], None}
           /\ u.server_to_client = [user.server_to_client EXCEPT ![r.id] = None]
           /\ u.client_to_server = [user.client_to_server EXCEPT ![s] = None]
           /\ status # "LOGGED_IN" =>
                u.session_to_client[s] \in {user.session_to_client[s], None}
           /\ status = "LOGGED_IN" =>
                /\ r.type = "LOG_ON_USER"
                /\ u.client_to_session[r.username] = s
           /\ status = "OTHER" =>
                /\ u.client_to_session = user.client_to_session
                /\ u.session_to_client = user.session_to_client
<1> DEFINE v == UserResponseRoute(r, s, status)
           p == r.username
<1>0. /\ None \notin Sessions /\ None \notin Parties /\ user \in UserMaps
      /\ p \in Parties /\ r.id \in RequestIds
    BY NoneAssumption, BoundsAssumption, PendingFacts DEF IInv, TypeOK, Sessions
<1>1. status = "LOGGED_IN" =>
        /\ r.type = "LOG_ON_USER"
        /\ user.client_to_session[p] = None /\ user.session_to_client[s] = None
    BY <1>0 DEF BridgeAnswers, UserResponseFatal
<1>2. v = IF status = "LOGGED_IN" THEN user_add(user, p, s)
          ELSE IF status = "NOT_LOGGED_IN" THEN user_remove(user, p) ELSE user
    BY DEF UserResponseRoute
<1>3. /\ v \in UserMaps
      /\ v.server_to_client = user.server_to_client
      /\ v.client_to_server = user.client_to_server
  <2>1. CASE status = "LOGGED_IN"
    <3>1. v = user_add(user, p, s)
      BY <1>2, <2>1
    <3> HIDE DEF v, p
    <3> QED
      BY <1>0, <3>1, UserAddFacts
  <2>2. CASE status = "NOT_LOGGED_IN"
    <3>1. v = user_remove(user, p)
      BY <1>2, <2>2
    <3> HIDE DEF v, p
    <3> QED
      BY <1>0, <3>1, UserRemoveFacts
  <2>3. CASE status = "OTHER"
    BY <1>0, <1>2, <2>3
  <2> QED
    BY <2>1, <2>2, <2>3
<1>4. CASE status = "LOGGED_IN"
  <2>1. /\ v.client_to_session = [user.client_to_session EXCEPT ![p] = s]
        /\ v.session_to_client = [user.session_to_client EXCEPT ![s] = p]
    <3>1. v = user_add(user, p, s)
      BY <1>2, <1>4
    <3> HIDE DEF v, p
    <3> QED
      BY <1>0, <3>1, UserAddFacts
  <2> HIDE DEF v
  <2>2. /\ u.client_to_session = v.client_to_session
        /\ u.session_to_client = v.session_to_client
        /\ u.server_to_client = [user.server_to_client EXCEPT ![r.id] = None]
        /\ u.client_to_server = [user.client_to_server EXCEPT ![s] = None]
        /\ u \in UserMaps
    BY <1>0, <1>3, EraseRequestFacts DEF v
  <2>3. \A t \in Sessions, x \in Parties :
          (u.session_to_client[t] = x) <=> (u.client_to_session[x] = t)
    BY <1>0, <1>1, <1>4, <2>1, <2>2 DEF IInv, RoutesInverse, UserMaps
  <2>4. \A x \in Parties : x # p => u.client_to_session[x] = user.client_to_session[x]
    BY <1>0, <2>1, <2>2 DEF UserMaps
  <2>5. \A t \in Sessions : t # s =>
          u.session_to_client[t] \in {user.session_to_client[t], None}
    BY <1>0, <2>1, <2>2 DEF UserMaps
  <2>6. u.client_to_session[p] = s
    BY <1>0, <2>1, <2>2 DEF UserMaps
  <2> QED
    BY <1>1, <1>4, <2>2, <2>3, <2>4, <2>5, <2>6
<1>5. CASE status = "NOT_LOGGED_IN"
  <2>1. /\ v.client_to_session = [user.client_to_session EXCEPT ![p] = None]
        /\ user.client_to_session[p] = None => v.session_to_client = user.session_to_client
        /\ user.client_to_session[p] # None =>
             v.session_to_client = [user.session_to_client EXCEPT ![user.client_to_session[p]] = None]
    <3>1. v = user_remove(user, p)
      BY <1>2, <1>5
    <3> HIDE DEF v, p
    <3> QED
      BY <1>0, <3>1, UserRemoveFacts
  <2> HIDE DEF v
  <2>2. /\ u.client_to_session = v.client_to_session
        /\ u.session_to_client = v.session_to_client
        /\ u.server_to_client = [user.server_to_client EXCEPT ![r.id] = None]
        /\ u.client_to_server = [user.client_to_server EXCEPT ![s] = None]
        /\ u \in UserMaps
    BY <1>0, <1>3, EraseRequestFacts DEF v
  <2>3. \A t \in Sessions, x \in Parties :
          (u.session_to_client[t] = x) <=> (u.client_to_session[x] = t)
    BY <1>0, <2>1, <2>2 DEF IInv, RoutesInverse, UserMaps
  <2>4. \A x \in Parties : x # p => u.client_to_session[x] = user.client_to_session[x]
    BY <1>0, <2>1, <2>2 DEF UserMaps
  <2>5. \A t \in Sessions : u.session_to_client[t] \in {user.session_to_client[t], None}
    <3>1. CASE user.client_to_session[p] = None
      BY <2>1, <2>2, <3>1
    <3>2. CASE user.client_to_session[p] # None
      BY <1>0, <2>1, <2>2, <3>2 DEF UserMaps
    <3> QED
      BY <3>1, <3>2
  <2> QED
    BY <1>5, <2>2, <2>3, <2>4, <2>5
<1>6. CASE status = "OTHER"
  <2>1. v = user
    BY <1>2, <1>6
  <2>2. /\ u.client_to_session = user.client_to_session
        /\ u.session_to_client = user.session_to_client
        /\ u.server_to_client = [user.server_to_client EXCEPT ![r.id] = None]
        /\ u.client_to_server = [user.client_to_server EXCEPT ![s] = None]
        /\ u \in UserMaps
    BY <1>0, <2>1, EraseRequestFacts
  <2>3. \A t \in Sessions, x \in Parties :
          (u.session_to_client[t] = x) <=> (u.client_to_session[x] = t)
    BY <2>2 DEF IInv, RoutesInverse
  <2> QED
    BY <1>6, <2>2, <2>3
<1> QED
    BY <1>4, <1>5, <1>6

\* The only log::fatal an answer can run into is user_add's first.
LEMMA UserResponseFatalStep ==
    ASSUME IInv, NEW r \in pending, NEW s, s = user.server_to_client[r.id],
           NEW status, status \in BridgeAnswers(r.type)
    PROVE  UserResponseFatal(r, s, status) \in {"no", "user_add"}
<1>1. s \in Sessions /\ s # None /\ r.type \in {"LOG_ON_USER", "LOG_OFF_USER"}
    BY PendingFacts, NoneAssumption, BoundsAssumption DEF Sessions
<1>2. status = "LOGGED_IN" => user.session_to_client[s] = None
    BY <1>1 DEF BridgeAnswers, IInv, LogOnOnce
<1>3. state[s] # "READY"
    BY <1>1 DEF IInv, OwnRequests
<1> QED
    BY <1>1, <1>2, <1>3 DEF UserResponseFatal

\* The bridge's answer to the oldest request.
LEMMA UserResponseStep ==
    ASSUME IInv, NEW r \in pending, NEW status \in {"LOGGED_IN", "NOT_LOGGED_IN", "OTHER"},
           UserResponse(r, status)
    PROVE  IInv'
<1> DEFINE s == user.server_to_client[r.id]
           q == pending \ {r}
           u == EraseRequest(UserResponseRoute(r, s, status), s, r.id)
<1>0. /\ None \notin Sessions /\ None \notin Parties /\ TypeOK /\ user \in UserMaps
      /\ s \in Sessions /\ r.username \in Parties /\ r.id \in RequestIds
      /\ \A other \in pending : r.id <= other.id
      /\ status \in BridgeAnswers(r.type)
      /\ s <= next_session_id /\ state[s] # "WAITING_LOGON" /\ state[s] # "READY"
  <2>1. s \in Sessions /\ r.username \in Parties /\ r.id \in RequestIds
    BY PendingFacts
  <2>2. next_session_id \in Nat /\ s \in Nat
    BY <2>1, BoundsAssumption DEF IInv, TypeOK, Sessions
  <2>3. s <= next_session_id /\ state[s] # "WAITING_LOGON"
    <3>1. ~(s > next_session_id \/ state[s] = "WAITING_LOGON")
      BY <2>1 DEF IInv, FreshIds
    <3> HIDE DEF s
    <3> QED
      BY <2>2, <3>1
  <2>4. state[s] # "READY"
    BY DEF IInv, OwnRequests
  <2> QED
    BY <2>1, <2>3, <2>4, NoneAssumption, BoundsAssumption DEF UserResponse, IInv, TypeOK, Sessions
<1>1. CASE UserResponseFatal(r, s, status) # "no"
  <2>1. fatal' = "user_add"
    BY <1>0, <1>1, UserResponseFatalStep DEF UserResponse
  <2>2. UNCHANGED <<credentials, username_to_session, session_to_username, next_session_id,
                    next_request_id, state, party_id, waiting_for_heartbeat, server_state,
                    ready, user, pending>>
    BY <1>1 DEF UserResponse, shared, session, server
  <2>3. TypeOK' /\ OnlyUserAddAborts'
    BY <1>0, <2>1, <2>2 DEF TypeOK, OnlyUserAddAborts
  <2> QED
    BY <2>2, <2>3 DEF IInv, RegistryExact, RoutesInverse, ReadyOwnsRoute,
       BridgeDownDropsSessions, FreshIds, PartyOfUser, PendingKnown,
       LogOnOnce, OwnRequests, OwnRoute, CreateIsYoungest, ReadyIsQuiet, RemoveIsAlone,
       LoggedOn
<1>2. CASE /\ state[s] = "ABSENT"
           /\ user' = user_remove(user, r.username)
           /\ pending' = q
           /\ UNCHANGED <<shared, session, server, fatal>>
  <2>1. UNCHANGED <<credentials, username_to_session, session_to_username, next_session_id,
                    next_request_id, state, party_id, waiting_for_heartbeat, server_state,
                    ready, fatal>>
    BY <1>2 DEF shared, session, server
  <2>2. /\ user' \in UserMaps
        /\ user'.client_to_session = [user.client_to_session EXCEPT ![r.username] = None]
        /\ user.client_to_session[r.username] = None =>
             user'.session_to_client = user.session_to_client
        /\ user.client_to_session[r.username] # None =>
             user'.session_to_client =
               [user.session_to_client EXCEPT ![user.client_to_session[r.username]] = None]
        /\ user'.server_to_client = user.server_to_client
        /\ user'.client_to_server = user.client_to_server
    BY <1>0, <1>2, UserRemoveFacts
  <2>3. LoggedOn' = LoggedOn \ {s}
    BY <1>2, <2>1 DEF LoggedOn
  <2>4. TypeOK'
    BY <1>0, <1>2, <2>1, <2>2 DEF TypeOK
  <2>5. RegistryExact' /\ OnlyUserAddAborts' /\ PartyOfUser'
    BY <1>2, <2>1, <2>3 DEF IInv, RegistryExact, OnlyUserAddAborts, PartyOfUser, LoggedOn
  <2>6. RoutesInverse'
    BY <1>0, <2>2 DEF IInv, RoutesInverse, UserMaps
  <2>7. /\ \A p \in Parties : p # r.username =>
             user'.client_to_session[p] = user.client_to_session[p]
        /\ \A t \in Sessions : user'.session_to_client[t] \in {user.session_to_client[t], None}
    BY <1>0, <2>2 DEF UserMaps
  <2> QED
    BY <1>0, <1>2, <2>1, <2>2, <2>3, <2>4, <2>5, <2>6, <2>7, AnswerStep
<1>3. ASSUME UserResponseFatal(r, s, status) = "no", state[s] # "ABSENT"
      PROVE  /\ u \in UserMaps
             /\ \A t \in Sessions, p \in Parties :
                  (u.session_to_client[t] = p) <=> (u.client_to_session[p] = t)
             /\ \A p \in Parties : p # r.username =>
                  u.client_to_session[p] = user.client_to_session[p]
             /\ \A t \in Sessions : t # s =>
                  u.session_to_client[t] \in {user.session_to_client[t], None}
             /\ \A i \in RequestIds : i # r.id => u.server_to_client[i] = user.server_to_client[i]
             /\ u.server_to_client[r.id] = None
             /\ \A t \in Sessions : t # s => u.client_to_server[t] = user.client_to_server[t]
             /\ u.client_to_server[s] = None
             /\ r.type = "LOG_OFF_USER" =>
                  u.session_to_client[s] \in {user.session_to_client[s], None}
             /\ status # "LOGGED_IN" =>
                  u.session_to_client[s] \in {user.session_to_client[s], None}
             /\ status = "LOGGED_IN" =>
                  r.type = "LOG_ON_USER" /\ u.client_to_session[r.username] = s
             /\ status = "OTHER" =>
                  /\ u.client_to_session = user.client_to_session
                  /\ u.session_to_client = user.session_to_client
  <2>1. /\ u \in UserMaps
        /\ \A t \in Sessions, p \in Parties :
             (u.session_to_client[t] = p) <=> (u.client_to_session[p] = t)
        /\ \A p \in Parties : p # r.username =>
             u.client_to_session[p] = user.client_to_session[p]
        /\ \A t \in Sessions : t # s =>
             u.session_to_client[t] \in {user.session_to_client[t], None}
        /\ u.server_to_client = [user.server_to_client EXCEPT ![r.id] = None]
        /\ u.client_to_server = [user.client_to_server EXCEPT ![s] = None]
        /\ status # "LOGGED_IN" =>
             u.session_to_client[s] \in {user.session_to_client[s], None}
        /\ status = "LOGGED_IN" =>
             r.type = "LOG_ON_USER" /\ u.client_to_session[r.username] = s
        /\ status = "OTHER" =>
             /\ u.client_to_session = user.client_to_session
             /\ u.session_to_client = user.session_to_client
    BY <1>0, <1>3, RouteFacts
  <2> HIDE DEF u
  <2> QED
    BY <1>0, <2>1, SMTT(60) DEF UserMaps
<1> HIDE DEF u
<1>4. CASE /\ UserResponseFatal(r, s, status) = "no"
           /\ state[s] = "WAITING_CREATE_ROUTE"
           /\ status = "LOGGED_IN"
           /\ user' = u
           /\ pending' = q
           /\ state' = [state EXCEPT ![s] = "READY"]
           /\ UNCHANGED <<shared, party_id, waiting_for_heartbeat, server, fatal>>
  <2>1. UNCHANGED <<credentials, username_to_session, session_to_username, next_session_id,
                    next_request_id, party_id, waiting_for_heartbeat, server_state, ready, fatal>>
    BY <1>4 DEF shared, server
  <2>2. LoggedOn' = LoggedOn /\ s \in LoggedOn
    BY <1>0, <1>4 DEF LoggedOn, TypeOK
  <2>3. r.username = party_id[s]
    BY <1>0, <2>2 DEF IInv, PendingKnown
  <2>4. \A x \in pending : x # r =>
          /\ x.id # r.id /\ x.id \in RequestIds
          /\ party_id[s] \in Sole => x.username # party_id[s]
          /\ user.server_to_client[x.id] # s
          /\ user'.server_to_client[x.id] = user.server_to_client[x.id]
    <3>1. PICK y \in pending : /\ y.type = "LOG_ON_USER" /\ user.server_to_client[y.id] = s
                               /\ party_id[s] \in Sole =>
                                    \A x \in pending : x.username = party_id[s] => x.id <= y.id
      BY <1>0, <1>4 DEF IInv, CreateIsYoungest
    <3>2. r.type = "LOG_ON_USER"
      BY <1>0, <1>3, <1>4
    <3>3. y = r
      BY <3>1, <3>2 DEF IInv, LogOnOnce
    <3>4. \A x \in pending : x # r => x.id # r.id
      BY DEF IInv, PendingKnown
    <3>5. \A x \in pending : x.id \in RequestIds /\ x.id \in Nat
      BY PendingFacts
    <3>6. party_id[s] \in Sole => \A x \in pending : x.username = party_id[s] => x.id = r.id
      BY <1>0, <3>1, <3>3, <3>5
    <3>7. \A x \in pending : user.server_to_client[x.id] = s => x = r
      BY <1>4, <3>2 DEF IInv, OwnRequests, LogOnOnce
    <3> QED
      BY <1>3, <1>4, <3>4, <3>5, <3>6, <3>7
  <2>5. TypeOK'
    BY <1>0, <1>3, <1>4, <2>1 DEF TypeOK, States
  <2>6. RegistryExact' /\ BridgeDownDropsSessions' /\ OnlyUserAddAborts' /\ PartyOfUser'
    BY <1>0, <1>4, <2>1, <2>2
       DEF IInv, RegistryExact, BridgeDownDropsSessions, OnlyUserAddAborts, PartyOfUser
  <2>7. RoutesInverse'
    BY <1>3, <1>4 DEF RoutesInverse
  <2>8. FreshIds'
    <3>1. \A t \in Sessions : t > next_session_id \/ state'[t] = "WAITING_LOGON" =>
            t # s /\ (t > next_session_id \/ state[t] = "WAITING_LOGON")
      <4>1. next_session_id \in Nat /\ Sessions \subseteq Nat
        BY BoundsAssumption DEF IInv, TypeOK, Sessions
      <4> QED
        BY <4>1, <1>0, <1>4 DEF TypeOK
    <3>2. \A t \in Sessions : t > next_session_id => state'[t] = "ABSENT"
      BY <3>1, <1>0, <1>4 DEF IInv, FreshIds, TypeOK
    <3>3. ASSUME NEW t \in Sessions, t > next_session_id \/ state'[t] = "WAITING_LOGON"
          PROVE  /\ user'.session_to_client[t] = None
                 /\ user'.client_to_server[t] = None
                 /\ \A i \in RequestIds : user'.server_to_client[i] # t
      <4>1. t # s /\ user.session_to_client[t] = None /\ user.client_to_server[t] = None
            /\ \A i \in RequestIds : user.server_to_client[i] # t
        BY <3>1, <3>3 DEF IInv, FreshIds
      <4> QED
        BY <4>1, <1>0, <1>3, <1>4
    <3>4. \A i \in RequestIds : i > next_request_id => user'.server_to_client[i] = None
      BY <1>0, <1>3, <1>4 DEF IInv, FreshIds
    <3> QED
      BY <2>1, <3>2, <3>3, <3>4 DEF FreshIds
  <2>9. PendingKnown'
    BY <1>4, <2>1, <2>2, <2>4 DEF IInv, PendingKnown
  <2>10. LogOnOnce'
    <3>1. \A x \in pending' : x.type = "LOG_ON_USER" => user.server_to_client[x.id] # s
      BY <1>0, <1>3, <1>4 DEF IInv, LogOnOnce
    <3>2. \A x \in pending' : user.server_to_client[x.id] \in Sessions
      BY <1>4, PendingFacts
    <3> QED
      BY <1>3, <1>4, <2>4, <3>1, <3>2 DEF IInv, LogOnOnce
  <2>11. \A t \in LoggedOn :
           t \in Sessions /\ (t # s /\ party_id[t] \in Sole => party_id[t] # r.username)
    BY <2>2, <2>3, PartiesDiffer DEF LoggedOn
  <2>12. ReadyOwnsRoute'
    <3> SUFFICES ASSUME NEW t \in Sessions, state'[t] \in {"READY", "WAITING_REMOVE_ROUTE"}
                 PROVE  /\ party_id[t] # None
                        /\ party_id[t] \in Sole => user'.client_to_session[party_id[t]] = t
      BY <2>1 DEF ReadyOwnsRoute
    <3>1. CASE t = s
      BY <3>1, <1>0, <1>3, <1>4, <2>3
    <3>2. CASE t # s
      <4>1. state[t] \in {"READY", "WAITING_REMOVE_ROUTE"} /\ t \in LoggedOn
        BY <3>2, <1>0, <1>4 DEF TypeOK, LoggedOn
      <4>2. party_id[t] \in Parties /\ (party_id[t] \in Sole => party_id[t] # r.username)
        BY <4>1, <3>2, <2>11, PartiesDiffer
      <4> QED
        BY <4>1, <4>2, <1>0, <1>3, <1>4 DEF IInv, ReadyOwnsRoute
    <3> QED
      BY <3>1, <3>2
  <2>13. CreateIsYoungest'
    <3> SUFFICES ASSUME NEW t \in Sessions, state'[t] = "WAITING_CREATE_ROUTE"
                 PROVE  /\ user'.session_to_client[t] = None
                        /\ \E x \in pending' :
                             /\ x.type = "LOG_ON_USER"
                             /\ user'.server_to_client[x.id] = t
                             /\ party_id[t] \in Sole =>
                                  \A y \in pending' : y.username = party_id[t] => y.id <= x.id
      BY <2>1 DEF CreateIsYoungest
    <3>1. t # s /\ state[t] = "WAITING_CREATE_ROUTE"
      BY <1>0, <1>4 DEF TypeOK
    <3>2. PICK x \in pending : /\ x.type = "LOG_ON_USER" /\ user.server_to_client[x.id] = t
                               /\ party_id[t] \in Sole =>
                                    \A y \in pending : y.username = party_id[t] => y.id <= x.id
      BY <3>1 DEF IInv, CreateIsYoungest
    <3>3. user'.session_to_client[t] = None
      BY <3>1, <1>3, <1>4 DEF IInv, CreateIsYoungest
    <3> QED
      BY <3>1, <3>2, <3>3, <1>4, <2>4
  <2>14. ReadyIsQuiet'
    BY <1>0, <1>3, <1>4, <2>1, <2>4 DEF IInv, ReadyIsQuiet, TypeOK
  <2>15. RemoveIsAlone'
    BY <1>0, <1>4, <2>1, <2>4 DEF IInv, RemoveIsAlone, TypeOK
  <2>16. OwnRequests'
    <3>1. \A x \in pending' : user'.server_to_client[x.id] # s
      BY <1>4, <2>4
    <3> QED
      BY <1>0, <1>4, <2>4, <3>1 DEF IInv, OwnRequests, TypeOK
  <2>17. OwnRoute'
    <3>1. user'.session_to_client[s] = party_id[s]
      BY <1>0, <1>3, <1>4, <2>3
    <3>2. \A t \in LoggedOn : t # s =>
            user'.session_to_client[t] \in {user.session_to_client[t], None}
      BY <1>3, <1>4 DEF LoggedOn
    <3> QED
      BY <2>1, <2>2, <3>1, <3>2 DEF IInv, OwnRoute
  <2> QED
    BY <2>5, <2>6, <2>7, <2>8, <2>9, <2>10, <2>12, <2>13, <2>14, <2>15, <2>16, <2>17 DEF IInv
<1>5. CASE /\ UserResponseFatal(r, s, status) = "no"
           /\ state[s] \in {"WAITING_LOGON", "READY", "ZOMBIE"}
           /\ user' = u
           /\ pending' = q
           /\ UNCHANGED <<shared, session, server, fatal>>
  <2>1. UNCHANGED <<credentials, username_to_session, session_to_username, next_session_id,
                    next_request_id, state, party_id, waiting_for_heartbeat, server_state,
                    ready, fatal>>
    BY <1>5 DEF shared, session, server
  <2>2. state[s] = "ZOMBIE"
    BY <1>0, <1>5
  <2>3. LoggedOn' = LoggedOn \ {s}
    BY <2>1, <2>2 DEF LoggedOn
  <2>4. TypeOK'
    BY <1>0, <1>3, <1>5, <2>1, <2>2 DEF TypeOK
  <2>5. RegistryExact' /\ OnlyUserAddAborts' /\ PartyOfUser'
    BY <2>1, <2>2, <2>3 DEF IInv, RegistryExact, OnlyUserAddAborts, PartyOfUser, LoggedOn
  <2>6. RoutesInverse'
    BY <1>3, <1>5, <2>2 DEF RoutesInverse
  <2> QED
    BY <1>0, <1>3, <1>5, <2>1, <2>2, <2>3, <2>4, <2>5, <2>6, AnswerStep
<1>6. CASE /\ UserResponseFatal(r, s, status) = "no"
           /\ \/ state[s] = "WAITING_CREATE_ROUTE" /\ status # "LOGGED_IN"
              \/ state[s] = "WAITING_REMOVE_ROUTE"
           /\ make_zombie_with(s, u, q)
  <2>1. s \in LoggedOn /\ s \in Live
    BY <1>0, <1>6 DEF LoggedOn, Live
  <2>2. /\ state' = [state EXCEPT ![s] = "ZOMBIE"]
        /\ session_remove_helper({s})
        /\ UNCHANGED <<credentials, next_session_id, party_id, waiting_for_heartbeat,
                       server_state, ready, fatal>>
        /\ Disconnected(s, u, q)
    BY <1>6, <2>1 DEF make_zombie_with, server, LoggedOn
  <2>3. /\ LoggedOn' = LoggedOn \ {s}
        /\ username_to_session' \in [Users -> Sessions \cup {None}]
        /\ session_to_username' \in [Sessions -> Users \cup {None}]
        /\ RegistryExact' /\ OnlyUserAddAborts' /\ PartyOfUser'
    BY <2>1, <2>2, DeathFacts
  <2>4. CASE user' = u /\ pending' = q /\ UNCHANGED next_request_id
    <3>1. TypeOK'
      BY <1>0, <1>3, <1>6, <2>2, <2>3, <2>4 DEF TypeOK, States
    <3>2. RoutesInverse'
      BY <1>3, <1>6, <2>4 DEF RoutesInverse
    <3>3. state'[s] = "ZOMBIE" /\ \A t \in Sessions : t # s => state'[t] = state[t]
      BY <1>0, <2>2 DEF TypeOK
    <3> QED
      BY <1>0, <1>3, <1>6, <2>2, <2>3, <2>4, <3>1, <3>2, <3>3, AnswerStep, SMTT(60)
  <2>5. ready
    BY <2>1 DEF IInv, BridgeDownDropsSessions
  <2>6. CASE u.session_to_client[s] = None
    BY <2>6, <2>4, <2>2 DEF Disconnected
  <2>7. CASE u.session_to_client[s] # None
    <3> DEFINE p  == user.session_to_client[s]
               id == next_request_id + 1
               v  == RecordLogOff(Release(u, p, s), s, id)
               m  == [id |-> id, type |-> "LOG_OFF_USER", username |-> p]
    <3>1. /\ p = u.session_to_client[s] /\ p \in Parties /\ p # None
          /\ state[s] = "WAITING_REMOVE_ROUTE"
      <4>1. p \in Parties \cup {None}
        BY <1>0 DEF UserMaps
      <4>2. status # "LOGGED_IN"
        <5>1. CASE state[s] = "WAITING_REMOVE_ROUTE"
          <6>1. r.type = "LOG_OFF_USER"
            BY <5>1 DEF IInv, OwnRequests
          <6> QED
            BY <1>3, <1>6, <6>1, <1>0
        <5> QED
          BY <1>6, <5>1
      <4>3. u.session_to_client[s] \in {p, None}
        BY <1>3, <1>6, <4>2, <1>0
      <4>4. state[s] = "WAITING_CREATE_ROUTE" => p = None
        BY <1>0 DEF IInv, CreateIsYoungest
      <4> QED
        BY <1>6, <2>7, <4>1, <4>3, <4>4
    <3>2. /\ id \in RequestIds /\ next_request_id' = id
          /\ pending' = q \cup {m} /\ user' = v
      BY <2>2, <2>5, <2>7, <3>1 DEF Disconnected
    <3>3. r.username = p
      BY <1>0, <2>1, <3>1 DEF IInv, PendingKnown, OwnRoute
    <3>4. r.type = "LOG_OFF_USER"
      BY <3>1 DEF IInv, OwnRequests
    <3>5. status = "OTHER"
      <4>1. status # "NOT_LOGGED_IN"
        <5>1. u.client_to_session[p] = s
          BY <1>0, <1>3, <1>6, <3>1
        <5>2. status = "NOT_LOGGED_IN" => u.client_to_session[p] = None
          <6> SUFFICES ASSUME status = "NOT_LOGGED_IN" PROVE u.client_to_session[p] = None
            OBVIOUS
          <6> DEFINE w == user_remove(user, r.username)
          <6>1. u = EraseRequest(w, s, r.id)
            BY DEF u, UserResponseRoute
          <6>2. w \in UserMaps /\ w.client_to_session = [user.client_to_session EXCEPT ![r.username] = None]
            BY <1>0, UserRemoveFacts
          <6> HIDE DEF w, p, s
          <6>3. u.client_to_session = w.client_to_session
            <7>1. w \in UserMaps /\ s \in Sessions /\ r.id \in RequestIds
              BY <1>0, <6>2
            <7> QED
              BY <6>1, <7>1, EraseRequestFacts
          <6> QED
            BY <1>0, <3>1, <3>3, <6>2, <6>3 DEF UserMaps
        <5> QED
          BY <5>1, <5>2, <1>0
      <4> QED
        BY <1>0, <3>4, <4>1 DEF BridgeAnswers
    <3>6. /\ v \in UserMaps
          /\ v.client_to_session = [u.client_to_session EXCEPT ![p] = None]
          /\ v.session_to_client = [u.session_to_client EXCEPT ![s] = None]
          /\ v.server_to_client = [u.server_to_client EXCEPT ![id] = s]
          /\ \A t \in Sessions : t # s => v.client_to_server[t] = u.client_to_server[t]
      <4>1. id \in RequestIds /\ p \in Parties /\ u \in UserMaps /\ s \in Sessions
        BY <1>0, <1>3, <1>6, <3>1, <3>2
      <4> HIDE DEF id, p, s
      <4> QED
        BY <4>1, LogOffMaps
    <3> HIDE DEF v
    <3>7. /\ user'.client_to_session = [user.client_to_session EXCEPT ![p] = None]
          /\ user'.session_to_client = [user.session_to_client EXCEPT ![s] = None]
          /\ user'.server_to_client[id] = s
      BY <1>0, <1>3, <1>6, <3>2, <3>5, <3>6, SMTT(60) DEF UserMaps
    <3>8. \A i \in RequestIds : i # id /\ i # r.id =>
            user'.server_to_client[i] = user.server_to_client[i]
      BY <1>0, <1>3, <1>6, <3>2, <3>6 DEF UserMaps
    <3>9. user'.server_to_client[r.id] = None /\ r.id # id
      <4>1. r.id # id
        BY PendingFacts
      <4> QED
        BY <4>1, <1>0, <1>3, <1>6, <3>2, <3>6 DEF UserMaps
    <3>10. \A x \in q : user'.server_to_client[x.id] = user.server_to_client[x.id]
      BY <3>8, PendingFacts DEF IInv, PendingKnown
    <3>11. \A t \in Sessions : t # s => user'.client_to_server[t] = user.client_to_server[t]
      BY <1>3, <1>6, <3>2, <3>6
    <3>12. m \in UserRequest
      BY <3>1, <3>2 DEF UserRequest
    <3>13. TypeOK'
      <4>1. next_request_id' \in 0 .. MaxRequests
        BY <3>2, BoundsAssumption DEF RequestIds
      <4>2. pending' \subseteq UserRequest
        BY <1>0, <3>2, <3>12 DEF TypeOK
      <4>3. user' \in UserMaps
        BY <3>2, <3>6
      <4>4. state' \in [Sessions -> States]
        BY <1>0, <2>2 DEF TypeOK, States
      <4> HIDE DEF s, q, p, id, m
      <4> QED
        BY <1>0, <2>2, <2>3, <4>1, <4>2, <4>3, <4>4 DEF TypeOK
    <3>14. q \in SUBSET pending /\ \A x \in pending : x.type = "LOG_ON_USER" => x \in q
      BY <3>4
    <3>15. \A i \in RequestIds : i # id =>
             user'.server_to_client[i] \in {user.server_to_client[i], None}
      BY <3>8, <3>9
    <3>16. /\ s \in LoggedOn /\ p \in Parties /\ q \in SUBSET pending /\ TypeOK'
           /\ user.session_to_client[s] = p
           /\ next_request_id + 1 \in RequestIds /\ next_request_id' = next_request_id + 1
           /\ pending' = q \cup {[id |-> next_request_id + 1, type |-> "LOG_OFF_USER",
                                  username |-> p]}
           /\ user'.server_to_client[next_request_id + 1] = s
           /\ \A i \in RequestIds : i # next_request_id + 1 =>
                user'.server_to_client[i] \in {user.server_to_client[i], None}
      BY <2>1, <3>1, <3>2, <3>7, <3>13, <3>14, <3>15
    <3>17. UNCHANGED <<next_session_id, party_id, server_state, ready, fatal>>
      BY <2>2
    <3> HIDE DEF s, q, p, id, m
    <3> QED
      BY <2>2, <2>5, <3>7, <3>10, <3>11, <3>14, <3>16, <3>17, LogOffStep
  <2> QED
    BY <2>6, <2>7
<1> QED
    BY <1>1, <1>2, <1>4, <1>5, <1>6 DEF UserResponse, u

\* The flags that only a heartbeat or the deadline timer touches.
LEMMA HeartbeatFlagStep ==
    ASSUME IInv, NEW s \in Sessions, NEW b \in BOOLEAN,
           waiting_for_heartbeat' = [waiting_for_heartbeat EXCEPT ![s] = b],
           UNCHANGED <<shared, state, party_id, server, user, pending, fatal>>
    PROVE  IInv'
<1>1. UNCHANGED <<credentials, username_to_session, session_to_username, next_session_id,
                  next_request_id, state, party_id, server_state, ready, user, pending, fatal>>
    BY DEF shared, server
<1>2. waiting_for_heartbeat' \in [Sessions -> BOOLEAN]
    BY Zenon DEF IInv, TypeOK
<1>3. TypeOK'
    BY <1>1, <1>2 DEF IInv, TypeOK
<1> QED
    BY <1>1, <1>3, QuietStep

\* Whatever a client's bytes, or the lack of them, make its session do.
LEMMA ClientStepIInv ==
    ASSUME IInv, NEW s \in Sessions, ClientStep(s) \/ Timer(s)
    PROVE  IInv'
<1>1. s \in Live <=> state[s] \in {"WAITING_LOGON", "WAITING_CREATE_ROUTE", "READY",
                                   "WAITING_REMOVE_ROUTE"}
    BY DEF Live, LoggedOn
<1>2. CASE s \in Live /\ make_zombie(s)
    BY <1>2, ZombieStep
<1>3. CASE ClientDisconnected(s) \/ Reject(s) \/ ResendRequest(s)
    BY <1>2, <1>3 DEF ClientDisconnected, Reject, ResendRequest
<1>4. CASE TestRequest(s) \/ BusinessRequest(s)
    BY <1>1, <1>2, <1>4 DEF TestRequest, BusinessRequest
<1>5. CASE Heartbeat(s)
    BY <1>1, <1>2, <1>5, HeartbeatFlagStep DEF Heartbeat
<1>6. CASE \E u \in Users, valid \in BOOLEAN : LogonRejected(s, u, valid)
    BY <1>2, <1>6 DEF LogonRejected
<1>7. CASE \E u \in Users : LogonNotReady(s, u)
    BY <1>7, LogonNotReadyStep
<1>8. CASE \E u \in Users : Logon(s, u)
    BY <1>8, LogonStep
<1>9. CASE Logout(s)
  <2>1. CASE state[s] = "READY"
    BY <1>9, <2>1, LogoutStep
  <2>2. CASE state[s] # "READY"
    BY <1>2, <1>9, <2>2 DEF Logout
  <2> QED
    BY <2>1, <2>2
<1>10. CASE Timer(s)
    BY <1>1, <1>2, <1>10, HeartbeatFlagStep DEF Timer
<1> QED
    BY <1>3, <1>4, <1>5, <1>6, <1>7, <1>8, <1>9, <1>10 DEF ClientStep

\* Every step keeps the inductive invariant.
LEMMA NextIInv == IInv /\ [Next]_vars => IInv'
<1> SUFFICES ASSUME IInv, [Next]_vars PROVE IInv'
    OBVIOUS
<1>1. CASE AuthStep
  <2>1. UNCHANGED <<username_to_session, session_to_username, next_session_id,
                    next_request_id, session, server_state, ready, user, pending, fatal>>
    BY <1>1 DEF AuthStep, add_user, remove_user, server
  <2>2. /\ credentials' \in [Users -> Parties \cup {None}]
        /\ \A u \in Users : credentials'[u] \in Strategies[u] \cup {None}
    BY <1>1 DEF AuthStep, add_user, remove_user, IInv, TypeOK
  <2>3. TypeOK'
    BY <2>1, <2>2 DEF IInv, TypeOK, session
  <2> QED
    BY <2>1, <2>3, QuietStep DEF session
<1>2. CASE Accept
    BY <1>2, AcceptStep
<1>3. CASE \E s \in Sessions : ClientStep(s) \/ Timer(s)
    BY <1>3, ClientStepIInv
<1>4. CASE ServerStep
    BY <1>4, ServerUpStep, ServerDisconnectedStep, UserResponseStep DEF ServerStep
<1>5. CASE remove_zombies
    BY <1>5, CollectStep
<1>6. CASE UNCHANGED vars
  <2>1. UNCHANGED <<credentials, username_to_session, session_to_username, next_session_id,
                    next_request_id, session, server_state, ready, user, pending, fatal>>
    BY <1>6 DEF vars, shared, server
  <2>2. TypeOK'
    BY <2>1 DEF IInv, TypeOK, session
  <2> QED
    BY <2>1, <2>2, QuietStep DEF session
<1> QED
    BY <1>1, <1>2, <1>3, <1>4, <1>5, <1>6 DEF Next, TimerStep

-----------------------------------------------------------------------------
(* The theorems.                                                           *)

\* The inductive invariant is one: it holds in every reachable state, for any
\* number of users, sessions and requests.
THEOREM InductiveInvariant == Spec => []IInv
<1> QED
    BY InitIInv, NextIInv, PTL DEF Spec

\* Every variable keeps its type; in particular no map ever binds a session, a
\* request or a party that does not exist.
THEOREM TypeCorrect == Spec => []TypeOK
<1>1. IInv => TypeOK
    BY DEF IInv
<1> QED
    BY <1>1, InductiveInvariant, PTL

\* The registry of logged on users is exact: username_to_session_ and
\* session_to_username_ are inverse, and hold just the sessions between their
\* logon and their death.
THEOREM RegistryIsExact == Spec => []RegistryExact
<1>1. IInv => RegistryExact
    BY DEF IInv
<1> QED
    BY <1>1, InductiveInvariant, PTL

\* The Controller's two route maps stay inverse whatever late answers do to them.
THEOREM RoutesAreInverse == Spec => []RoutesInverse
<1>1. IInv => RoutesInverse
    BY DEF IInv
<1> QED
    BY <1>1, InductiveInvariant, PTL

\* A READY session owns the route of its party, if that is one user's only.
THEOREM ReadySessionsOwnTheirRoutes == Spec => []ReadyOwnsRoute
<1>1. IInv => ReadyOwnsRoute
    BY DEF IInv
<1> QED
    BY <1>1, InductiveInvariant, PTL

\* While the bridge is away nobody is past the logon and nothing is outstanding.
THEOREM BridgeLossDropsEverybody == Spec => []BridgeDownDropsSessions
<1>1. IInv => BridgeDownDropsSessions
    BY DEF IInv
<1> QED
    BY <1>1, InductiveInvariant, PTL

\* The only log::fatal of the logon protocol that can be reached is the first
\* check of user_add.
THEOREM OnlyUserAddCanAbort == Spec => []OnlyUserAddAborts
<1>1. IInv => OnlyUserAddAborts
    BY DEF IInv
<1> QED
    BY <1>1, InductiveInvariant, PTL

=============================================================================
