----------------------------- MODULE ServiceProofs -----------------------------
(***************************************************************************)
(* UserRouting implements LogonService: every step of the proxy is a step  *)
(* of the service under the refinement mapping (Phase, the registry,       *)
(* ready), or none that it sees.                                           *)
(***************************************************************************)
EXTENDS UserRoutingProofs

phases == [s \in Sessions |-> Phase(s)]

\* The phase of a session is a matter of its state, once it was accepted.
LEMMA PhaseFacts ==
    ASSUME IInv, NEW s \in Sessions
    PROVE  /\ phases[s] = Phase(s)
           /\ s > next_session_id => phases[s] = "new" /\ state[s] = "ABSENT"
           /\ state[s] = "WAITING_LOGON" => phases[s] = "new"
           /\ state[s] = "WAITING_CREATE_ROUTE" => phases[s] = "joining"
           /\ state[s] = "READY" => phases[s] = "active"
           /\ state[s] = "WAITING_REMOVE_ROUTE" => phases[s] = "leaving"
           /\ ~(s > next_session_id) /\ state[s] \in {"ABSENT", "ZOMBIE"} => phases[s] = "done"
BY DEF IInv, FreshIds, phases, Phase

\* The same after a step.
LEMMA PhaseFactsAfter ==
    ASSUME IInv', NEW s \in Sessions
    PROVE  /\ phases'[s] = Phase(s)'
           /\ s > next_session_id' => phases'[s] = "new" /\ state'[s] = "ABSENT"
           /\ state'[s] = "WAITING_LOGON" => phases'[s] = "new"
           /\ state'[s] = "WAITING_CREATE_ROUTE" => phases'[s] = "joining"
           /\ state'[s] = "READY" => phases'[s] = "active"
           /\ state'[s] = "WAITING_REMOVE_ROUTE" => phases'[s] = "leaving"
           /\ ~(s > next_session_id') /\ state'[s] \in {"ABSENT", "ZOMBIE"} => phases'[s] = "done"
BY DEF IInv, FreshIds, phases, Phase

\* A session whose state stays keeps its phase.
LEMMA PhaseStays ==
    ASSUME UNCHANGED next_session_id, NEW s \in Sessions, state'[s] = state[s]
    PROVE  phases'[s] = phases[s]
BY DEF phases, Phase

\* A step that leaves all states, the registry and ready alone is none to the service.
LEMMA NothingSeen ==
    ASSUME UNCHANGED <<ready, username_to_session, next_session_id>>,
           \A s \in Sessions : state'[s] = state[s]
    PROVE  UNCHANGED Service!vars
<1>1. \A s \in Sessions : phases'[s] = phases[s]
    BY PhaseStays
<1>2. phases' = phases
    BY <1>1 DEF phases
<1> QED
    BY <1>2 DEF Service!vars, phases

\* When sessions S die, exactly the users they held are free.
LEMMA HoldersFreed ==
    ASSUME IInv, NEW S \in SUBSET Sessions, session_remove_helper(S)
    PROVE  username_to_session' =
             [u \in Users |-> IF username_to_session[u] \in S THEN None ELSE username_to_session[u]]
<1>1. ASSUME NEW u \in Users
      PROVE  (\E s \in S : session_to_username[s] = u) <=> username_to_session[u] \in S
    BY DEF IInv, RegistryExact
<1> QED
    BY <1>1 DEF session_remove_helper

\* One session dies.
LEMMA DeathIsEnd ==
    ASSUME IInv, IInv', NEW s \in Sessions, state[s] \notin {"ABSENT", "ZOMBIE"},
           state' = [state EXCEPT ![s] = "ZOMBIE"],
           username_to_session' =
             [u \in Users |-> IF username_to_session[u] \in {s} THEN None ELSE username_to_session[u]],
           UNCHANGED <<ready, next_session_id>>
    PROVE  Service!End(s)
<1>1. /\ ~(s > next_session_id) /\ state[s] \in States
      /\ state'[s] = "ZOMBIE"
      /\ \A t \in Sessions : t # s => state'[t] = state[t]
    BY PhaseFacts DEF IInv, TypeOK
<1>2. phases[s] # "done"
    BY <1>1, PhaseFacts DEF States
<1>3. phases'[s] = "done"
    BY <1>1, PhaseFactsAfter
<1>4. \A t \in Sessions : phases'[t] = IF t \in {s} THEN "done" ELSE phases[t]
    BY <1>1, <1>3, PhaseStays
<1>5. phases' = [t \in Sessions |-> IF t \in {s} THEN "done" ELSE phases[t]]
    BY <1>4 DEF phases
<1> QED
    BY <1>2, <1>5 DEF Service!End, Service!Finish, phases

\* make_zombie, wherever it is called from.
LEMMA ZombieIsEnd ==
    ASSUME IInv, IInv', NEW s \in Sessions, NEW u, NEW q, make_zombie_with(s, u, q)
    PROVE  Service!End(s)
<1>1. /\ state[s] \notin {"ABSENT", "ZOMBIE"}
      /\ state' = [state EXCEPT ![s] = "ZOMBIE"]
      /\ session_remove_helper({s})
      /\ UNCHANGED <<ready, next_session_id>>
    BY DEF make_zombie_with, LoggedOn, server
<1> QED
    BY <1>1, HoldersFreed, DeathIsEnd

\* A session that moves from one phase to the next, alone.
LEMMA OneMoves ==
    ASSUME IInv, IInv', NEW s \in Sessions, NEW x \in States,
           state' = [state EXCEPT ![s] = x], UNCHANGED next_session_id
    PROVE  phases' = [phases EXCEPT ![s] = phases'[s]]
<1>1. \A t \in Sessions : t # s => phases'[t] = phases[t]
    BY PhaseStays DEF IInv, TypeOK
<1> QED
    BY <1>1 DEF phases

\* The accepted logon.
LEMMA LogonIsJoin ==
    ASSUME IInv, IInv', NEW s \in Sessions, NEW u \in Users, Logon(s, u)
    PROVE  Service!Join(s, u)
<1>1. user.client_to_server[s] = None
    BY DEF Logon, IInv, FreshIds
<1>2. /\ state[s] = "WAITING_LOGON" /\ ready /\ username_to_session[u] = None
      /\ state' = [state EXCEPT ![s] = "WAITING_CREATE_ROUTE"]
      /\ username_to_session' = [username_to_session EXCEPT ![u] = s]
      /\ UNCHANGED <<ready, next_session_id>>
    BY <1>1 DEF Logon, SendUserRequest, session_logon_helper, server
<1>3. phases[s] = "new" /\ phases'[s] = "joining"
    BY <1>2, PhaseFacts, PhaseFactsAfter DEF IInv, TypeOK
<1>4. phases' = [phases EXCEPT ![s] = "joining"]
    BY <1>2, <1>3, OneMoves DEF States
<1> QED
    BY <1>2, <1>3, <1>4 DEF Service!Join, phases

\* A client's message.
LEMMA ClientStepRefines ==
    ASSUME IInv, IInv', NEW s \in Sessions, ClientStep(s) \/ Timer(s)
    PROVE  Service!Next \/ UNCHANGED Service!vars
<1>1. ASSUME make_zombie(s) PROVE Service!Next
    BY <1>1, ZombieIsEnd DEF make_zombie, Service!Next
<1>2. ASSUME UNCHANGED <<state, ready, username_to_session, next_session_id>>
      PROVE  UNCHANGED Service!vars
    BY <1>2, NothingSeen
<1>3. CASE \E u \in Users : Logon(s, u)
    BY <1>3, LogonIsJoin DEF Service!Next
<1>4. CASE \E u \in Users : LogonNotReady(s, u)
  <2>1. /\ state[s] = "WAITING_LOGON"
        /\ state' = [state EXCEPT ![s] = "ZOMBIE"]
        /\ UNCHANGED <<ready, next_session_id, username_to_session>>
    BY <1>4 DEF LogonNotReady, server
  <2>2. \A u \in Users : username_to_session[u] # s
    BY <2>1, NoneAssumption DEF IInv, RegistryExact, LoggedOn
  <2>3. username_to_session' =
          [u \in Users |-> IF username_to_session[u] \in {s} THEN None ELSE username_to_session[u]]
    BY <2>1, <2>2 DEF IInv, TypeOK
  <2>4. Service!End(s)
    BY <2>1, <2>3, DeathIsEnd
  <2> QED
    BY <2>4 DEF Service!Next
<1>5. CASE Logout(s)
  <2>1. CASE make_zombie(s)
    BY <1>1, <2>1
  <2>2. CASE ~make_zombie(s)
    <3>1. /\ state[s] = "READY"
          /\ UNCHANGED <<ready, username_to_session, next_session_id>>
          /\ UNCHANGED state \/ state' = [state EXCEPT ![s] = "WAITING_REMOVE_ROUTE"]
      BY <1>5, <2>2 DEF Logout, SendUserRequest, server
    <3>2. CASE UNCHANGED state
      BY <1>2, <3>1, <3>2
    <3>3. CASE state' = [state EXCEPT ![s] = "WAITING_REMOVE_ROUTE"]
      <4>1. phases[s] = "active" /\ phases'[s] = "leaving"
        BY <3>1, <3>3, PhaseFacts, PhaseFactsAfter DEF IInv, TypeOK
      <4>2. phases' = [phases EXCEPT ![s] = "leaving"]
        BY <3>1, <3>3, <4>1, OneMoves DEF States
      <4>3. Service!Retract(s)
        BY <3>1, <4>1, <4>2 DEF Service!Retract, phases
      <4> QED
        BY <4>3 DEF Service!Next
    <3> QED
      BY <3>1, <3>2, <3>3
  <2> QED
    BY <2>1, <2>2
<1>6. CASE Heartbeat(s)
    BY <1>1, <1>2, <1>6 DEF Heartbeat, shared, server
<1>7. CASE Timer(s)
    BY <1>1, <1>2, <1>7 DEF Timer, shared, server
<1>8. CASE ClientDisconnected(s) \/ Reject(s) \/ TestRequest(s) \/ ResendRequest(s)
           \/ BusinessRequest(s) \/ (\E u \in Users, valid \in BOOLEAN : LogonRejected(s, u, valid))
    BY <1>1, <1>8 DEF ClientDisconnected, Reject, TestRequest, ResendRequest, BusinessRequest,
                      LogonRejected
<1> QED
    BY <1>3, <1>4, <1>5, <1>6, <1>7, <1>8 DEF ClientStep

\* The bridge's answer to a user request.
LEMMA UserResponseRefines ==
    ASSUME IInv, IInv', NEW r \in pending,
           NEW status \in {"LOGGED_IN", "NOT_LOGGED_IN", "OTHER"}, UserResponse(r, status)
    PROVE  Service!Next \/ UNCHANGED Service!vars
<1> DEFINE s == user.server_to_client[r.id]
           u == EraseRequest(UserResponseRoute(r, s, status), s, r.id)
<1>1. s \in Sessions
    BY PendingFacts
<1>2. \/ UNCHANGED <<shared, session, server>>
      \/ UNCHANGED <<state, username_to_session, next_session_id, server>>
      \/ /\ state[s] = "WAITING_CREATE_ROUTE" /\ state' = [state EXCEPT ![s] = "READY"]
         /\ UNCHANGED <<shared, server>>
      \/ make_zombie_with(s, u, pending \ {r})
    BY DEF UserResponse
<1>3. CASE UNCHANGED <<state, username_to_session, next_session_id, server>>
    BY <1>3, NothingSeen DEF server
<1>4. CASE UNCHANGED <<shared, session, server>>
    BY <1>4, NothingSeen DEF shared, session, server
<1>5. CASE /\ state[s] = "WAITING_CREATE_ROUTE" /\ state' = [state EXCEPT ![s] = "READY"]
           /\ UNCHANGED <<shared, server>>
  <2>1. ready /\ UNCHANGED <<ready, username_to_session, next_session_id>>
    BY <1>1, <1>5 DEF IInv, BridgeDownDropsSessions, LoggedOn, shared, server
  <2>2. phases[s] = "joining" /\ phases'[s] = "active"
    BY <1>1, <1>5, PhaseFacts, PhaseFactsAfter DEF IInv, TypeOK
  <2> HIDE DEF s
  <2>3. phases' = [phases EXCEPT ![s] = "active"]
    BY <1>1, <1>5, <2>1, <2>2, OneMoves DEF States
  <2>4. Service!Admit(s)
    BY <2>1, <2>2, <2>3 DEF Service!Admit, phases
  <2> QED
    BY <1>1, <2>4 DEF Service!Next
<1>6. CASE make_zombie_with(s, u, pending \ {r})
  <2> HIDE DEF s, u
  <2> QED
    BY <1>1, <1>6, ZombieIsEnd DEF Service!Next
<1> QED
    BY <1>2, <1>3, <1>4, <1>5, <1>6

\* The loss of the bridge.
LEMMA LossIsDrop ==
    ASSUME IInv, IInv', ServerDisconnected
    PROVE  Service!Drop
<1> DEFINE S == {s \in Sessions : state[s] = "WAITING_LOGON"}
           D == {s \in Sessions : phases[s] \in {"joining", "active", "leaving"}} \cup S
<1>1. /\ state' = [s \in Sessions |-> IF s \in Live THEN "ZOMBIE" ELSE state[s]]
      /\ session_remove_helper(Live) /\ ready' = FALSE /\ UNCHANGED next_session_id
    BY DEF ServerDisconnected
<1>2. /\ S \in SUBSET {s \in Sessions : phases[s] = "new"}
      /\ Live = D /\ Live \subseteq Sessions
  <2>1. \A s \in Sessions : phases[s] \in {"joining", "active", "leaving"} <=>
          state[s] \in {"WAITING_CREATE_ROUTE", "READY", "WAITING_REMOVE_ROUTE"}
    BY PhaseFacts DEF IInv, TypeOK, States
  <2>2. \A s \in S : phases[s] = "new"
    BY PhaseFacts
  <2> QED
    BY <2>1, <2>2 DEF Live, LoggedOn
<1>3. \A s \in Sessions : phases'[s] = IF s \in Live THEN "done" ELSE phases[s]
  <2> TAKE s \in Sessions
  <2>1. CASE s \in Live
    <3>1. ~(s > next_session_id')
      BY <1>1, <2>1, PhaseFacts DEF Live, LoggedOn
    <3> QED
      BY <1>1, <2>1, <3>1, PhaseFactsAfter
  <2>2. CASE s \notin Live
    BY <1>1, <2>2, PhaseStays
  <2> QED
    BY <2>1, <2>2
<1>4. phases' = [s \in Sessions |-> IF s \in D THEN "done" ELSE phases[s]]
    BY <1>2, <1>3 DEF phases
<1>5. username_to_session' =
        [u \in Users |-> IF username_to_session[u] \in D THEN None ELSE username_to_session[u]]
    BY <1>1, <1>2, HoldersFreed
<1>6. Service!Finish(D)
    BY <1>4, <1>5 DEF Service!Finish, phases
<1>7. D = Service!Inside \cup S
    BY DEF Service!Inside, phases
<1> QED
    BY <1>1, <1>2, <1>6, <1>7 DEF Service!Drop, phases

\* Every step of the proxy is one of the service or none: one case per kind of step.
LEMMA NextRefines == IInv /\ [Next]_vars => [Service!Next]_(Service!vars)
<1> SUFFICES ASSUME IInv, [Next]_vars PROVE Service!Next \/ UNCHANGED Service!vars
    OBVIOUS
<1>1. IInv'
    BY NextIInv
<1>2. CASE UNCHANGED vars \/ AuthStep
    BY <1>2, NothingSeen DEF AuthStep, add_user, remove_user, vars, shared, session, server
<1>3. CASE Accept
  <2> DEFINE n == next_session_id + 1
  <2>1. /\ next_session_id \in Nat /\ next_session_id' = n
        /\ state' = [state EXCEPT ![n] = "WAITING_LOGON"]
        /\ UNCHANGED <<ready, username_to_session>>
    BY <1>3, BoundsAssumption DEF Accept, IInv, TypeOK, server
  <2>2. ASSUME NEW s \in Sessions PROVE phases'[s] = phases[s]
    <3>1. CASE s = n
      BY <1>1, <2>1, <3>1, PhaseFacts, PhaseFactsAfter DEF Sessions, IInv, TypeOK
    <3>2. CASE s # n
      <4>1. state'[s] = state[s] /\ (s > next_session_id' <=> s > next_session_id)
        BY <2>1, <3>2, BoundsAssumption DEF Sessions, IInv, TypeOK
      <4> QED
        BY <4>1 DEF phases, Phase
    <3> QED
      BY <3>1, <3>2
  <2>3. phases' = phases
    BY <2>2 DEF phases
  <2> QED
    BY <2>1, <2>3 DEF Service!vars, phases
<1>4. CASE \E s \in Sessions : ClientStep(s) \/ Timer(s)
    BY <1>1, <1>4, ClientStepRefines
<1>5. CASE ServerConnected
    BY <1>5, NothingSeen DEF ServerConnected, shared, session
<1>6. CASE ServerLogon
  <2>1. /\ ~ready /\ ready' = TRUE
        /\ UNCHANGED <<state, username_to_session, next_session_id>>
    BY <1>6 DEF ServerLogon, shared, session, IInv, BridgeDownDropsSessions
  <2>2. phases' = phases
    BY <2>1, PhaseStays DEF phases
  <2> QED
    BY <2>1, <2>2 DEF Service!Next, Service!Raise, phases
<1>7. CASE ServerDisconnected
    BY <1>1, <1>7, LossIsDrop DEF Service!Next
<1>8. CASE \E r \in pending, status \in {"LOGGED_IN", "NOT_LOGGED_IN", "OTHER"} :
             UserResponse(r, status)
    BY <1>1, <1>8, UserResponseRefines
<1>9. CASE remove_zombies
  <2>1. /\ state' = [s \in Sessions |-> IF s \in Zombies THEN "ABSENT" ELSE state[s]]
        /\ session_remove_helper(Zombies)
        /\ UNCHANGED <<ready, next_session_id>>
    BY <1>9 DEF remove_zombies, server
  <2>2. Zombies \subseteq Sessions /\ \A u \in Users : username_to_session[u] \notin Zombies
    BY NoneAssumption DEF Zombies, IInv, RegistryExact, LoggedOn
  <2>3. username_to_session' = username_to_session
    BY <2>1, <2>2, HoldersFreed DEF IInv, TypeOK
  <2>4. ASSUME NEW s \in Sessions PROVE phases'[s] = phases[s]
    <3>1. CASE s \in Zombies
      BY <1>1, <2>1, <3>1, PhaseFacts, PhaseFactsAfter DEF Zombies
    <3>2. CASE s \notin Zombies
      BY <2>1, <3>2, PhaseStays
    <3> QED
      BY <3>1, <3>2
  <2>5. phases' = phases
    BY <2>4 DEF phases
  <2> QED
    BY <2>1, <2>3, <2>5 DEF Service!vars, phases
<1> QED
    BY <1>2, <1>3, <1>4, <1>5, <1>6, <1>7, <1>8, <1>9 DEF Next, ServerStep, TimerStep

\* Whatever the clients, the bridge and the timer do, the proxy behaves as
\* LogonService says.
THEOREM ServiceIsImplemented == Spec => ImplementsLogonService
<1>1. Init => Service!Init
  <2> SUFFICES ASSUME Init PROVE Service!Init
    OBVIOUS
  <2>1. \A s \in Sessions : Phase(s) = "new"
    BY BoundsAssumption DEF Init, Phase, Sessions
  <2> QED
    BY <2>1 DEF Init, Service!Init
<1> QED
    BY <1>1, NextRefines, InductiveInvariant, PTL DEF Spec, ImplementsLogonService, Service!Spec

=============================================================================
