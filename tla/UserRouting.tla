----------------------------- MODULE UserRouting -----------------------------
(***************************************************************************)
(* How a FIX client obtains, uses and loses its route through the proxy.   *)
(*                                                                         *)
(* The proxy is one process with one event loop: every callback (a timer   *)
(* tick, bytes from a client, bytes from the FIX bridge, a connect or a    *)
(* disconnect) runs to completion, so each is one action here.  The        *)
(* module holds the four parts that take part in a logon:                  *)
(*   - client::Session, its state machine (client/session.cpp);            *)
(*   - client::Manager, the table of sessions and its garbage collection;  *)
(*   - Shared, who is logged on (username_to_session_ and its inverse);    *)
(*   - Controller.subscriptions_.user, the routes (client_to_session and   *)
(*     its inverse) and the user requests awaiting the bridge's answer;    *)
(* and the connection state of server::Session.  The FIX bridge is outside *)
(* the repository: it is the set of user requests it has not answered yet, *)
(* which it answers oldest first, once each, with a status of its choice.  *)
(***************************************************************************)
EXTENDS Naturals

CONSTANTS
    Users,        \* usernames of the clients
    Parties,      \* strategy ids: the name under which the bridge knows a user
    Strategies,   \* username -> the strategy ids that it may be given
    None,         \* an absent map entry
    MaxSessions,  \* bound on connections accepted in one behaviour
    MaxRequests   \* bound on user requests sent in one behaviour

ASSUME StrategiesAssumption == Strategies \in [Users -> SUBSET Parties]
ASSUME NoneAssumption == None \notin Users \cup Parties \cup Nat
ASSUME BoundsAssumption == MaxSessions \in Nat /\ MaxRequests \in Nat

\* The strategies that only one user can be given.  Nothing keeps the configuration or the
\* auth service from giving one to several users, who then get into each other's way.
Sole == {p \in Parties : \A u, v \in Users : p \in Strategies[u] \cap Strategies[v] => u = v}

Sessions   == 1 .. MaxSessions
RequestIds == 1 .. MaxRequests

VARIABLES
    \* Shared
    credentials,          \* username_to_password_and_strategy_id_, without the password
    username_to_session,
    session_to_username,
    next_session_id,
    next_request_id,
    \* client::Session and client::Manager.sessions_
    state,                \* "ABSENT" when the id is not in sessions_
    party_id,
    waiting_for_heartbeat,
    \* server::Session
    server_state,
    \* Controller
    ready,
    user,                 \* subscriptions_.user
    \* the FIX bridge (external) and the process
    pending,              \* user requests the bridge has not answered
    fatal                 \* the log::fatal that ended the process

shared  == <<credentials, username_to_session, session_to_username,
             next_session_id, next_request_id>>
session == <<state, party_id, waiting_for_heartbeat>>
server  == <<server_state, ready>>
vars    == <<shared, session, server, user, pending, fatal>>

States == {"ABSENT", "WAITING_LOGON", "WAITING_CREATE_ROUTE", "READY",
           "WAITING_REMOVE_ROUTE", "ZOMBIE"}

\* Sessions that have passed Shared::session_logon_helper and not yet died.
LoggedOn == {s \in Sessions :
               state[s] \in {"WAITING_CREATE_ROUTE", "READY", "WAITING_REMOVE_ROUTE"}}
\* Fault: a session that awaits its route is forgotten when all are closed.
LiveButJoining ==
    {s \in Sessions : state[s] \in {"WAITING_LOGON", "READY", "WAITING_REMOVE_ROUTE"}}

\* Sessions the event loop still reads from.
Live == {s \in Sessions : state[s] = "WAITING_LOGON"} \cup LoggedOn

UserRequest == [id : RequestIds, type : {"LOG_ON_USER", "LOG_OFF_USER"}, username : Parties]

UserMaps ==
    [client_to_session : [Parties -> Sessions \cup {None}],
     session_to_client : [Sessions -> Parties \cup {None}],
     server_to_client  : [RequestIds -> Sessions \cup {None}],
     client_to_server  : [Sessions -> RequestIds \cup {None}]]

TypeOK ==
    /\ credentials \in [Users -> Parties \cup {None}]
    /\ \A u \in Users : credentials[u] \in Strategies[u] \cup {None}
    /\ username_to_session \in [Users -> Sessions \cup {None}]
    /\ session_to_username \in [Sessions -> Users \cup {None}]
    /\ next_session_id \in 0 .. MaxSessions
    /\ next_request_id \in 0 .. MaxRequests
    /\ state \in [Sessions -> States]
    /\ party_id \in [Sessions -> Parties \cup {None}]
    /\ waiting_for_heartbeat \in [Sessions -> BOOLEAN]
    /\ server_state \in {"DISCONNECTED", "LOGON_SENT", "READY"}
    /\ ready \in BOOLEAN
    /\ user \in UserMaps
    /\ pending \subseteq UserRequest
    /\ fatal \in {"no", "UserResponse", "UserRequest", "user_add",
                  "user_add_session", "user_remove"}

Init ==
    /\ credentials \in [Users -> Parties]
    /\ \A u \in Users : credentials[u] \in Strategies[u]
    /\ username_to_session = [u \in Users |-> None]
    /\ session_to_username = [s \in Sessions |-> None]
    /\ next_session_id = 0
    /\ next_request_id = 0
    /\ state = [s \in Sessions |-> "ABSENT"]
    /\ party_id = [s \in Sessions |-> None]
    /\ waiting_for_heartbeat = [s \in Sessions |-> FALSE]
    /\ server_state = "DISCONNECTED"
    /\ ready = FALSE
    /\ user = [client_to_session |-> [p \in Parties |-> None],
               session_to_client |-> [s \in Sessions |-> None],
               server_to_client  |-> [r \in RequestIds |-> None],
               client_to_server  |-> [s \in Sessions |-> None]]
    /\ pending = {}
    /\ fatal = "no"

\* After a log::fatal there is no process.
Running == fatal = "no"

-----------------------------------------------------------------------------
(* Controller.subscriptions_.user: operations on the four maps.            *)

\* user_add when neither try_emplace fails; the failures are in UserResponse.
user_add(u, p, s) ==
    [u EXCEPT !.client_to_session[p] = s, !.session_to_client[s] = p]

\* user_remove: by party, whichever session holds it; nothing if none does.
user_remove(u, p) ==
    IF u.client_to_session[p] = None
      THEN u
      ELSE [u EXCEPT !.session_to_client[u.client_to_session[p]] = None,
                     !.client_to_session[p] = None]

user_is_locked(p) == user.client_to_session[p] # None

\* Faults: client_to_server is cleared by storing 0, or not cleared at all.
EraseRequestByZero(u, s, id) ==
    [u EXCEPT !.client_to_server[s] = 0, !.server_to_client[id] = None]
EraseRequestOneWay(u, s, id) ==
    [u EXCEPT !.server_to_client[id] = None]

\* The answered request is forgotten before the session sees the answer.
EraseRequest(u, s, id) ==
    [u EXCEPT !.client_to_server[s] = None, !.server_to_client[id] = None]

\* Fault: only one of the two maps is cleaned.
ReleaseOneWay(u, p, s) ==
    [u EXCEPT !.client_to_session[p] = None]

\* The route of session s, which is p, is given up.
Release(u, p, s) ==
    [u EXCEPT !.client_to_session[p] = None, !.session_to_client[s] = None]

\* A LOG_OFF sent for a dying session: an older request keeps its place.
RecordLogOff(u, s, id) ==
    [u EXCEPT !.server_to_client[id] = s,
              !.client_to_server[s] = IF @ = None THEN id ELSE @]

\* Controller, client::Session::Disconnected: what is released when a logged
\* on session s dies.  u and q are the user maps and the unanswered requests
\* at that point of the handler.
Disconnected(s, u, q) ==
    LET p  == u.session_to_client[s]
        id == next_request_id + 1
    IN  \/ /\ p = None
           /\ user' = u
           /\ pending' = q
           /\ UNCHANGED next_request_id
        \/ /\ p # None
           /\ ~ready
           /\ user' = Release(u, p, s)
           /\ pending' = q
           /\ UNCHANGED next_request_id
        \/ /\ p # None
           /\ ready
           /\ id \in RequestIds
           /\ next_request_id' = id
           /\ pending' = q \cup {[id |-> id, type |-> "LOG_OFF_USER", username |-> p]}
           /\ user' = RecordLogOff(Release(u, p, s), s, id)

-----------------------------------------------------------------------------
(* Shared: the registry of logged on users.                                *)

\* Fault: the username stays taken.
session_remove_helper_one_way(S) ==
    /\ session_to_username' =
         [s \in Sessions |-> IF s \in S THEN None ELSE session_to_username[s]]
    /\ UNCHANGED username_to_session

\* session_remove_helper for every session of S.
session_remove_helper(S) ==
    /\ username_to_session' =
         [u \in Users |-> IF \E s \in S : session_to_username[s] = u
                            THEN None ELSE username_to_session[u]]
    /\ session_to_username' =
         [s \in Sessions |-> IF s \in S THEN None ELSE session_to_username[s]]

\* Fault: a username that is already logged on is not refused.
session_logon_helper_twice(u, valid) ==
    /\ valid
    /\ credentials[u] # None

\* session_logon_helper accepts: valid stands for the checks of the logon's own
\* fields and of its password.
session_logon_helper(u, valid) ==
    /\ valid
    /\ credentials[u] # None
    /\ username_to_session[u] = None

\* auth::Session tells of a user: a new one, or a strategy for one that is known.  A
\* session that the user has keeps the party it logged on with.
add_user(u, p) ==
    /\ Running
    /\ p \in Strategies[u]
    /\ credentials' = [credentials EXCEPT ![u] = p]
    /\ UNCHANGED <<username_to_session, session_to_username, next_session_id,
                   next_request_id, session, server, user, pending, fatal>>

\* A user that is removed keeps the session it has.
remove_user(u) ==
    /\ Running
    /\ credentials' = [credentials EXCEPT ![u] = None]
    /\ UNCHANGED <<username_to_session, session_to_username, next_session_id,
                   next_request_id, session, server, user, pending, fatal>>

\* A text from the auth service inserts and removes users, one after the other; each is
\* a step here.
AuthStep == \E u \in Users : remove_user(u) \/ \E p \in Parties : add_user(u, p)

-----------------------------------------------------------------------------
(* client::Manager.                                                        *)

\* A new TCP connection.
Accept ==
    /\ Running
    /\ next_session_id < MaxSessions
    /\ next_session_id' = next_session_id + 1
    /\ state' = [state EXCEPT ![next_session_id + 1] = "WAITING_LOGON"]
    /\ UNCHANGED <<credentials, username_to_session, session_to_username, next_request_id,
                   party_id, waiting_for_heartbeat, server, user, pending, fatal>>

\* shared_.sessions_to_remove_: whoever became ZOMBIE since the last collection.
Zombies == {s \in Sessions : state[s] = "ZOMBIE"}

\* The end of a timer tick, once a second: the collected session objects are
\* destroyed.
remove_zombies ==
    /\ Running
    /\ Zombies # {}
    /\ session_remove_helper(Zombies)
    /\ state' = [s \in Sessions |-> IF s \in Zombies THEN "ABSENT" ELSE state[s]]
    /\ party_id' = [s \in Sessions |-> IF s \in Zombies THEN None ELSE party_id[s]]
    /\ waiting_for_heartbeat' =
         [s \in Sessions |-> IF s \in Zombies THEN FALSE ELSE waiting_for_heartbeat[s]]
    /\ UNCHANGED <<credentials, next_session_id, next_request_id, server, user,
                   pending, fatal>>

-----------------------------------------------------------------------------
(* client::Session.                                                        *)

\* make_zombie (also reached by close, send_and_close, force_disconnect) of a
\* live session s, inside a handler that has brought the user maps to u and the
\* unanswered requests to q.
make_zombie_with(s, u, q) ==
    /\ \/ /\ state[s] = "WAITING_LOGON"
          /\ user' = u
          /\ pending' = q
          /\ UNCHANGED next_request_id
       \/ /\ s \in LoggedOn
          /\ Disconnected(s, u, q)
    /\ state' = [state EXCEPT ![s] = "ZOMBIE"]
    /\ session_remove_helper({s})
    /\ UNCHANGED <<credentials, next_session_id, party_id, waiting_for_heartbeat,
                   server, fatal>>

make_zombie(s) == make_zombie_with(s, user, pending)

\* The connection broke.
ClientDisconnected(s) ==
    /\ Running
    /\ s \in Live
    /\ make_zombie(s)

\* A Reject, or bytes whose handling throws: the connection is closed.
Reject(s) ==
    /\ Running
    /\ s \in Live
    /\ make_zombie(s)

\* A TestRequest is answered, or ignored, except before the logon.
TestRequest(s) ==
    /\ Running
    /\ state[s] = "WAITING_LOGON"
    /\ make_zombie(s)

\* A ResendRequest is never honoured.
ResendRequest(s) ==
    /\ Running
    /\ s \in Live
    /\ make_zombie(s)

Heartbeat(s) ==
    /\ Running
    /\ \/ /\ state[s] \in {"WAITING_LOGON", "WAITING_CREATE_ROUTE"}
          /\ make_zombie(s)
       \/ /\ state[s] = "READY"
          /\ waiting_for_heartbeat' = [waiting_for_heartbeat EXCEPT ![s] = FALSE]
          /\ UNCHANGED <<shared, state, party_id, server, user, pending, fatal>>

\* Any business request.  Once READY it is passed on, which leaves this
\* module's state alone; a session on its way out is dropped.
BusinessRequest(s) ==
    /\ Running
    /\ state[s] \in {"WAITING_LOGON", "WAITING_CREATE_ROUTE", "WAITING_REMOVE_ROUTE"}
    /\ make_zombie(s)

\* Controller, UserRequest: the request id is recorded both ways.
RecordRequest(s, id) ==
    [user EXCEPT !.client_to_server[s] = id, !.server_to_client[id] = s]

\* The logon is refused: a second logon, or one that fails a check.
LogonRejected(s, u, valid) ==
    /\ Running
    /\ s \in Live
    /\ s \in LoggedOn \/ ~session_logon_helper(u, valid)
    /\ make_zombie(s)

\* The user was entered in the registry, but the Controller threw NotReady:
\* "locked" before it recorded the request, "not ready" (the bridge is not
\* connected) after.  The session closes, which clears the registry again, and
\* as it is still WAITING_LOGON the Controller is not told.
LogonNotReady(s, u) ==
    LET id == next_request_id + 1
        p  == credentials[u]
    IN  /\ Running
        /\ state[s] = "WAITING_LOGON"
        /\ session_logon_helper(u, TRUE)
        /\ id \in RequestIds
        /\ user_is_locked(p) \/ ~ready
        /\ next_request_id' = id
        /\ party_id' = [party_id EXCEPT ![s] = p]
        /\ state' = [state EXCEPT ![s] = "ZOMBIE"]
        /\ user' = IF user_is_locked(p) THEN user ELSE RecordRequest(s, id)
        /\ UNCHANGED <<credentials, username_to_session, session_to_username,
                       next_session_id, waiting_for_heartbeat, server, pending, fatal>>

\* A user request reaches the bridge, or the process ends because session s has
\* one outstanding already.  st: the state the session then enters.
SendUserRequest(s, type, p, st) ==
    LET id == next_request_id + 1
    IN  /\ id \in RequestIds
        /\ next_request_id' = id
        /\ IF user.client_to_server[s] = None
             THEN /\ user' = RecordRequest(s, id)
                  /\ pending' = pending \cup {[id |-> id, type |-> type, username |-> p]}
                  /\ state' = [state EXCEPT ![s] = st]
                  /\ UNCHANGED fatal
             ELSE /\ fatal' = "UserRequest"
                  /\ UNCHANGED <<user, pending, state>>

\* The logon is accepted and the bridge is asked for a route.
Logon(s, u) ==
    /\ Running
    /\ state[s] = "WAITING_LOGON"
    /\ session_logon_helper(u, TRUE)
    /\ ready
    /\ ~user_is_locked(credentials[u])
    /\ username_to_session' = [username_to_session EXCEPT ![u] = s]
    /\ session_to_username' = [session_to_username EXCEPT ![s] = u]
    /\ party_id' = [party_id EXCEPT ![s] = credentials[u]]
    /\ SendUserRequest(s, "LOG_ON_USER", credentials[u], "WAITING_CREATE_ROUTE")
    /\ UNCHANGED <<credentials, next_session_id, waiting_for_heartbeat, server>>

\* Fault: the route is released under the strategy that the user has now.
LogoutAsNow(s) ==
    /\ Running
    /\ \/ /\ state[s] = "READY"
          /\ ready
          /\ \E p \in Parties :
               /\ p = credentials[session_to_username[s]]
               /\ SendUserRequest(s, "LOG_OFF_USER", p, "WAITING_REMOVE_ROUTE")
          /\ UNCHANGED <<credentials, username_to_session, session_to_username,
                         next_session_id, party_id, waiting_for_heartbeat, server>>
       \/ /\ s \in Live
          /\ state[s] # "READY"
          /\ make_zombie(s)

\* A READY session asks the bridge to release its route (a READY session has
\* the bridge connected, BridgeDownDropsSessions, so this cannot throw); in any
\* other state the session just dies.
Logout(s) ==
    /\ Running
    /\ \/ /\ state[s] = "READY"
          /\ ready
          /\ SendUserRequest(s, "LOG_OFF_USER", party_id[s], "WAITING_REMOVE_ROUTE")
          /\ UNCHANGED <<credentials, username_to_session, session_to_username,
                         next_session_id, party_id, waiting_for_heartbeat, server>>
       \/ /\ s \in Live
          /\ state[s] # "READY"
          /\ make_zombie(s)

-----------------------------------------------------------------------------
(* Controller, on events of server::Session.                               *)

\* server::Session: the TCP connection to the bridge is up, the logon goes out.
ServerConnected ==
    /\ Running
    /\ server_state = "DISCONNECTED"
    /\ server_state' = "LOGON_SENT"
    /\ UNCHANGED <<shared, session, ready, user, pending, fatal>>

\* server::Session: the bridge answers the logon (Controller: Ready).
ServerLogon ==
    /\ Running
    /\ server_state = "LOGON_SENT"
    /\ server_state' = "READY"
    /\ ready' = TRUE
    /\ UNCHANGED <<shared, session, user, pending, fatal>>

\* server::Session: the connection to the bridge broke.  The Controller closes
\* every client; being not ready it releases their routes without a LOG_OFF.
\* What was on the wire is lost.
ServerDisconnected ==
    /\ Running
    /\ server_state # "DISCONNECTED"
    /\ server_state' = "DISCONNECTED"
    /\ ready' = FALSE
    /\ pending' = {}
    /\ state' = [s \in Sessions |-> IF s \in Live THEN "ZOMBIE" ELSE state[s]]
    /\ session_remove_helper(Live)
    /\ user' = [user EXCEPT
         !.client_to_session = [p \in Parties |->
            IF \E s \in LoggedOn : user.session_to_client[s] = p THEN None ELSE @[p]],
         !.session_to_client = [s \in Sessions |-> IF s \in LoggedOn THEN None ELSE @[s]]]
    /\ UNCHANGED <<credentials, next_session_id, next_request_id, party_id,
                   waiting_for_heartbeat, fatal>>

\* The statuses with which the bridge may answer a user request.
BridgeAnswers(type) ==
    IF type = "LOG_ON_USER" THEN {"LOGGED_IN", "NOT_LOGGED_IN", "OTHER"}
                            ELSE {"NOT_LOGGED_IN", "OTHER"}

\* The log::fatal that the answer `status` to request r of session s runs into.
UserResponseFatal(r, s, status) ==
    CASE s = None -> "UserResponse"
      [] s # None /\ state[s] # "ABSENT" /\ status = "LOGGED_IN"
           /\ user.client_to_session[r.username] # None -> "user_add"
      [] s # None /\ state[s] # "ABSENT" /\ status = "LOGGED_IN"
           /\ user.client_to_session[r.username] = None
           /\ user.session_to_client[s] # None -> "user_add_session"
      [] s # None /\ state[s] = "READY" /\ status = "NOT_LOGGED_IN"
           /\ user.client_to_session[r.username] = None -> "user_remove"
      [] OTHER -> "no"

\* The route changes an answer makes before the session is told of it.
UserResponseRoute(r, s, status) ==
    CASE status = "LOGGED_IN"     -> user_add(user, r.username, s)
      [] status = "NOT_LOGGED_IN" -> user_remove(user, r.username)
      [] OTHER                    -> user

\* Controller and client::Session, UserResponse: the answer to r.
UserResponse(r, status) ==
    LET s == user.server_to_client[r.id]
        q == pending \ {r}
        u == EraseRequest(UserResponseRoute(r, s, status), s, r.id)
    IN  /\ Running
        /\ \A other \in pending : r.id <= other.id
        /\ status \in BridgeAnswers(r.type)
        /\ \/ /\ UserResponseFatal(r, s, status) # "no"
              /\ fatal' = UserResponseFatal(r, s, status)
              /\ UNCHANGED <<shared, session, server, user, pending>>
           \/ /\ UserResponseFatal(r, s, status) = "no"
              /\ \/ /\ state[s] = "ABSENT"
                    /\ user' = user_remove(user, r.username)
                    /\ pending' = q
                    /\ UNCHANGED <<shared, session, server, fatal>>
                 \/ /\ state[s] = "WAITING_CREATE_ROUTE"
                    /\ status = "LOGGED_IN"
                    /\ user' = u
                    /\ pending' = q
                    /\ state' = [state EXCEPT ![s] = "READY"]
                    /\ UNCHANGED <<shared, party_id, waiting_for_heartbeat, server, fatal>>
                 \/ /\ \/ state[s] = "WAITING_CREATE_ROUTE" /\ status # "LOGGED_IN"
                       \/ state[s] = "WAITING_REMOVE_ROUTE"
                    /\ make_zombie_with(s, u, q)
                 \/ /\ state[s] \in {"WAITING_LOGON", "READY", "ZOMBIE"}
                    /\ user' = u
                    /\ pending' = q
                    /\ UNCHANGED <<shared, session, server, fatal>>

-----------------------------------------------------------------------------
(* The timer.  A tick visits every session and then collects the zombies    *)
(* (remove_zombies) if a second has passed since it last did.  Each visit   *)
(* and the collection is a step here: a tick is one after the other.        *)

\* Fault: there is no deadline for the bridge's answer.
TimerLogonOnly(s) ==
    /\ Running
    /\ state[s] = "WAITING_LOGON"
    /\ make_zombie(s)

\* The logon, user response or heartbeat deadline of session s has passed.
Timer(s) ==
    /\ Running
    /\ \/ /\ \/ state[s] \in {"WAITING_LOGON", "WAITING_CREATE_ROUTE", "WAITING_REMOVE_ROUTE"}
             \/ state[s] = "READY" /\ waiting_for_heartbeat[s]
          /\ make_zombie(s)
       \/ /\ state[s] = "READY"
          /\ ~waiting_for_heartbeat[s]
          /\ waiting_for_heartbeat' = [waiting_for_heartbeat EXCEPT ![s] = TRUE]
          /\ UNCHANGED <<shared, state, party_id, server, user, pending, fatal>>

-----------------------------------------------------------------------------
ClientStep(s) ==
    \/ ClientDisconnected(s)
    \/ Reject(s)
    \/ TestRequest(s)
    \/ ResendRequest(s)
    \/ Heartbeat(s)
    \/ BusinessRequest(s)
    \/ \E u \in Users, valid \in BOOLEAN : LogonRejected(s, u, valid)
    \/ \E u \in Users : LogonNotReady(s, u)
    \/ \E u \in Users : Logon(s, u)
    \/ Logout(s)

ServerStep ==
    \/ ServerConnected
    \/ ServerLogon
    \/ ServerDisconnected
    \/ \E r \in pending, status \in {"LOGGED_IN", "NOT_LOGGED_IN", "OTHER"} :
         UserResponse(r, status)

TimerStep ==
    \/ \E s \in Sessions : Timer(s)
    \/ remove_zombies

Next ==
    \/ AuthStep
    \/ Accept
    \/ \E s \in Sessions : ClientStep(s)
    \/ ServerStep
    \/ TimerStep

\* The timer keeps ticking, so a deadline that has been set expires.
Fairness ==
    /\ \A s \in Sessions : WF_vars(Timer(s))
    /\ WF_vars(remove_zombies)

Spec == Init /\ [][Next]_vars
FairSpec == Spec /\ Fairness

-----------------------------------------------------------------------------
(* Properties.                                                             *)

\* Shared's two maps are inverse to each other, and they hold exactly the
\* sessions that are past the logon and not dead: whoever dies, by whatever
\* path, frees its username, and nobody else's.
RegistryExact ==
    /\ \A s \in Sessions : (session_to_username[s] # None) <=> (s \in LoggedOn)
    /\ \A s \in Sessions, u \in Users :
         (session_to_username[s] = u) <=> (username_to_session[u] = s)

\* The Controller's two route maps are inverse to each other.
RoutesInverse ==
    \A s \in Sessions, p \in Parties :
      (user.session_to_client[s] = p) <=> (user.client_to_session[p] = s)

\* A session that has been told it is logged on owns the route under its own
\* party id until the bridge has confirmed its logout, if no other user has that
\* strategy: no late answer to an older request of the same user can take it away.
ReadyOwnsRoute ==
    \A s \in Sessions :
      state[s] \in {"READY", "WAITING_REMOVE_ROUTE"} =>
        /\ party_id[s] # None
        /\ party_id[s] \in Sole => user.client_to_session[party_id[s]] = s

\* The Controller's ready_ agrees with the bridge connection, and while that is
\* not READY there is no session that the Controller would have to send for.
BridgeDownDropsSessions ==
    /\ ready <=> server_state = "READY"
    /\ ~ready => LoggedOn = {} /\ pending = {}

\* Of the log::fatal checks on user requests and responses, only the first one
\* of user_add can be reached, even when users share a strategy: answers always find
\* their request, a session never has two outstanding requests, and a READY session is
\* not answered.
OnlyUserAddAborts == fatal \in {"no", "user_add"}

\* The Controller releases a session's route when the session dies, "to allow the
\* client to reconnect" (controller.cpp:827), so a route is held by a session
\* that is still past its logon.
RouteHeldByLive ==
    \A p \in Parties : user.client_to_session[p] # None =>
      user.client_to_session[p] \in LoggedOn

\* Deadlines work: a session that waits for a logon, or for the bridge's answer,
\* does not wait for ever, and a dead session's object is destroyed.
WaitingEnds ==
    \A s \in Sessions :
      /\ state[s] = "WAITING_LOGON" ~> (state[s] # "WAITING_LOGON" \/ ~Running)
      /\ state[s] = "WAITING_CREATE_ROUTE"
           ~> (state[s] \in {"READY", "ZOMBIE", "ABSENT"} \/ ~Running)
      /\ state[s] = "WAITING_REMOVE_ROUTE" ~> (state[s] = "ABSENT" \/ ~Running)
      /\ state[s] = "ZOMBIE" ~> (state[s] = "ABSENT" \/ ~Running)

\* A session stays READY for ever only if its client keeps sending Heartbeats: a
\* silent one is dropped at the second TestRequest that falls due (client/session.cpp:95).
SilentClientsAreDropped ==
    \A s \in Sessions :
      <>[](state[s] = "READY" /\ Running) => []<><<Heartbeat(s)>>_vars

-----------------------------------------------------------------------------
(* The service this implements.                                            *)

\* How far session s has come: a session object that was refused, died or was
\* collected is done; one that is not yet accepted is as good as one that has
\* not logged on.
Phase(s) ==
    CASE s > next_session_id \/ state[s] = "WAITING_LOGON" -> "new"
      [] state[s] = "WAITING_CREATE_ROUTE" -> "joining"
      [] state[s] = "READY"                -> "active"
      [] state[s] = "WAITING_REMOVE_ROUTE" -> "leaving"
      [] OTHER                             -> "done"

Service == INSTANCE LogonService WITH
    up     <- ready,
    phase  <- [s \in Sessions |-> Phase(s)],
    holder <- username_to_session

\* Through timeouts, disconnects, refusals and late answers the proxy behaves as
\* LogonService says: one session per user, admitted only while the bridge is
\* connected, everybody out when it goes.
ImplementsLogonService == Service!Spec

-----------------------------------------------------------------------------
(* The inductive invariant behind the properties above.                    *)

\* Ids that have not been handed out are not in use.
FreshIds ==
    /\ \A s \in Sessions : s > next_session_id =>
         state[s] = "ABSENT"
    /\ \A s \in Sessions : s > next_session_id \/ state[s] = "WAITING_LOGON" =>
         /\ user.session_to_client[s] = None
         /\ user.client_to_server[s] = None
         /\ \A i \in RequestIds : user.server_to_client[i] # s
    /\ \A i \in RequestIds : i > next_request_id => user.server_to_client[i] = None

\* A session past the logon uses a strategy that was given to the user it is registered
\* for, though perhaps not the one that the user has now.
PartyOfUser ==
    \A s \in LoggedOn : party_id[s] \in Strategies[session_to_username[s]]

\* Every unanswered request is known to the Controller, under its own id, and
\* while its session is past the logon it carries that session's party.
PendingKnown ==
    \A r \in pending :
      /\ r.id <= next_request_id
      /\ user.server_to_client[r.id] # None
      /\ \A q \in pending : q.id = r.id => q = r
      /\ user.server_to_client[r.id] \in LoggedOn =>
           r.username = party_id[user.server_to_client[r.id]]

\* An unanswered LOG_ON is its session's only one, and that session has no route.
LogOnOnce ==
    \A r \in pending : r.type = "LOG_ON_USER" =>
      /\ user.session_to_client[user.server_to_client[r.id]] = None
      /\ \A q \in pending :
           (/\ q.type = "LOG_ON_USER"
            /\ user.server_to_client[q.id] = user.server_to_client[r.id]) => q = r

\* What is unanswered of a session past its logon is what its state waits for.
OwnRequests ==
    \A r \in pending :
      LET s == user.server_to_client[r.id] IN
        /\ state[s] = "WAITING_CREATE_ROUTE" => r.type = "LOG_ON_USER"
        /\ state[s] = "WAITING_REMOVE_ROUTE" => r.type = "LOG_OFF_USER"
        /\ state[s] # "READY"

\* A session past its logon has no route but its own party's.
OwnRoute ==
    \A s \in LoggedOn : user.session_to_client[s] \in {None, party_id[s]}

\* While s awaits its route it has none, and its LOG_ON is unanswered, the youngest
\* request for its party unless another user has that too.
CreateIsYoungest ==
    \A s \in Sessions : state[s] = "WAITING_CREATE_ROUTE" =>
      /\ user.session_to_client[s] = None
      /\ \E r \in pending :
           /\ r.type = "LOG_ON_USER"
           /\ user.server_to_client[r.id] = s
           /\ party_id[s] \in Sole =>
                \A q \in pending : q.username = party_id[s] => q.id <= r.id

\* While s is READY it has no request on record, and none is unanswered for its party.
ReadyIsQuiet ==
    \A s \in Sessions : state[s] = "READY" =>
      /\ user.client_to_server[s] = None
      /\ party_id[s] \in Sole => \A q \in pending : q.username # party_id[s]

\* While s awaits its release, its own LOG_OFF is the only request for its party.
RemoveIsAlone ==
    \A s \in Sessions : state[s] = "WAITING_REMOVE_ROUTE" /\ party_id[s] \in Sole =>
      \A q \in pending : q.username = party_id[s] =>
        q.type = "LOG_OFF_USER" /\ user.server_to_client[q.id] = s

\* The strengthening of the safety properties that every step preserves.
IInv ==
    /\ TypeOK
    /\ RegistryExact
    /\ RoutesInverse
    /\ ReadyOwnsRoute
    /\ BridgeDownDropsSessions
    /\ OnlyUserAddAborts
    /\ FreshIds
    /\ PartyOfUser
    /\ PendingKnown
    /\ LogOnOnce
    /\ OwnRequests
    /\ OwnRoute
    /\ CreateIsYoungest
    /\ ReadyIsQuiet
    /\ RemoveIsAlone

=============================================================================
