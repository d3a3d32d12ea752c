--------------------------------- MODULE Wire ---------------------------------
(***************************************************************************)
(* The FIX messages that the proxy writes: to each client                  *)
(* (client/session.cpp) and to the bridge (server/session.cpp).            *)
(*                                                                         *)
(* UserRouting says how sessions, routes and the bridge's connection       *)
(* change; each action here is one of its actions together with what the   *)
(* handler sends, or a handler that changes nothing but sends.  A message  *)
(* is its type, and on the bridge's connection also its party and number.  *)
(* A client's requests are all alike here.  What the Controller sends for  *)
(* the streams of a session that dies is in Subscriptions.                 *)
(***************************************************************************)
EXTENDS UserRouting, Sequences, FiniteSets

CONSTANTS
    MaxToClient,  \* bound on messages to one client, Logon and farewell apart
    MaxRequested, \* bound on clients' requests on one connection to the bridge
    MaxPinged     \* pings are among the first so many messages to the bridge

VARIABLES
    comp_id,      \* sessions that know whom to address: comp_id_ is not empty
    to_client,    \* what was sent to each session that has an object
    to_server,    \* what was sent on the present connection to the bridge
    outbound,     \* server::Session.outbound_.msg_seq_num
    logout_read   \* the bridge's Logout was read on the present connection

link     == <<to_server, outbound, logout_read>>
wireVars == <<vars, comp_id, to_client, link>>

\* "Goodbye" is the Logout that confirms the client's, "Logout" any other.
Farewells == {"Reject", "Logout", "Goodbye"}
ToClient  == {"Logon", "Heartbeat", "TestRequest", "BusinessMessageReject", "Answer"}
               \cup Farewells
ToServer  == [type : {"Logon", "Heartbeat", "TestRequest", "LOG_ON_USER",
                      "LOG_OFF_USER", "Request"},
              party : Parties \cup {None},
              msg_seq_num : Nat]

WireTypeOK ==
    /\ TypeOK
    /\ comp_id \subseteq Sessions
    /\ to_client \in [Sessions -> Seq(ToClient)]
    /\ to_server \in Seq(ToServer)
    /\ outbound \in Nat
    /\ logout_read \in BOOLEAN

WireInit ==
    /\ Init
    /\ comp_id = {}
    /\ to_client = [s \in Sessions |-> <<>>]
    /\ to_server = <<>>
    /\ outbound = 0
    /\ logout_read = FALSE

-----------------------------------------------------------------------------
(* Sending.                                                                *)

\* client::Session::send and send_and_close.
send(s, ms) == to_client' = [to_client EXCEPT ![s] = @ \o ms]

\* A handler that says farewell in the states S, and nothing in any other.
FarewellIn(S, s, m) == send(s, IF state[s] \in S THEN <<m>> ELSE <<>>)

BeforeLogon == {"WAITING_LOGON", "WAITING_CREATE_ROUTE"}

\* The bounds.
RoomToClient(s) ==
    Cardinality({i \in DOMAIN to_client[s] : to_client[s][i] \notin {"Logon"} \cup Farewells})
      < MaxToClient
RoomForRequest ==
    Cardinality({i \in DOMAIN to_server : to_server[i].type = "Request"}) < MaxRequested
RoomForPing == Len(to_server) < MaxPinged

\* server::Session::send_helper.
send_helper(type, party) ==
    /\ outbound' = outbound + 1
    /\ to_server' = Append(to_server,
         [type |-> type, party |-> party, msg_seq_num |-> outbound + 1])

\* The user request that the step sends, if it sends one.
SendIfUserRequest ==
    /\ \/ /\ pending' \subseteq pending
          /\ UNCHANGED <<to_server, outbound>>
       \/ \E r \in pending' \ pending : send_helper(r.type, r.username)
    /\ UNCHANGED logout_read

-----------------------------------------------------------------------------
(* client::Session reads a message.                                        *)

\* The first message tells whom to address.
Parsed(s) == comp_id' = comp_id \cup {s}

\* Nothing but a message to the client comes of it.
OnlySend(s, m) ==
    /\ Running
    /\ RoomToClient(s)
    /\ send(s, <<m>>)
    /\ UNCHANGED <<vars, link>>

ReadReject(s) ==
    /\ Reject(s)
    /\ send(s, <<>>)
    /\ SendIfUserRequest

ReadTestRequest(s) ==
    \/ /\ TestRequest(s)
       /\ send(s, <<"Reject">>)
       /\ SendIfUserRequest
    \/ /\ state[s] \in {"WAITING_CREATE_ROUTE", "READY"}
       /\ OnlySend(s, "Heartbeat")

ReadResendRequest(s) ==
    /\ ResendRequest(s)
    /\ FarewellIn(BeforeLogon \cup {"READY"}, s, "Reject")
    /\ SendIfUserRequest

ReadHeartbeat(s) ==
    /\ Heartbeat(s)
    /\ FarewellIn(BeforeLogon, s, "Reject")
    /\ SendIfUserRequest

\* Fault: a session on its way out still passes requests on.
PassOnWhileLeaving(s) ==
    /\ Running
    /\ state[s] \in {"READY", "WAITING_REMOVE_ROUTE"}
    /\ RoomForRequest
    /\ send_helper("Request", party_id[s])
    /\ UNCHANGED <<vars, to_client, logout_read>>

\* A request goes to the bridge; party says whose it is.  The bridge is READY when
\* the session is (BridgeDownDropsSessions), so that send does not throw.
PassOn(s) ==
    /\ Running
    /\ state[s] = "READY"
    /\ RoomForRequest
    /\ send_helper("Request", party_id[s])
    /\ UNCHANGED <<vars, to_client, logout_read>>

\* A READY session refuses a request with a bad id, or one that names its parties.
ReadBusinessRequest(s) ==
    \/ /\ BusinessRequest(s)
       /\ FarewellIn(BeforeLogon, s, "Reject")
       /\ SendIfUserRequest
    \/ /\ state[s] = "READY"
       /\ OnlySend(s, "BusinessMessageReject")
    \/ PassOn(s)

\* Fault: a dead session goes on reading what is in the buffer.
ReadUnsupportedAnyhow(s) ==
    /\ state[s] # "ABSENT"
    /\ OnlySend(s, "BusinessMessageReject")

\* A TradingSessionStatusRequest, or a message of a type that the proxy does not
\* know: refused in every state.
ReadUnsupported(s) ==
    /\ s \in Live
    /\ OnlySend(s, "BusinessMessageReject")

ReadLogon(s) ==
    /\ \/ /\ \E u \in Users, valid \in BOOLEAN : LogonRejected(s, u, valid)
          /\ FarewellIn(BeforeLogon \cup {"READY"}, s, "Reject")
       \/ /\ \E u \in Users : LogonNotReady(s, u)
          /\ send(s, <<"Reject">>)
       \/ /\ \E u \in Users : Logon(s, u)
          /\ send(s, <<>>)
    /\ SendIfUserRequest

ReadLogout(s) ==
    /\ Logout(s)
    /\ FarewellIn(BeforeLogon, s, "Reject")
    /\ SendIfUserRequest

Read(s) ==
    /\ \/ ReadReject(s)
       \/ ReadTestRequest(s)
       \/ ReadResendRequest(s)
       \/ ReadHeartbeat(s)
       \/ ReadBusinessRequest(s)
       \/ ReadUnsupported(s)
       \/ ReadLogon(s)
       \/ ReadLogout(s)
    /\ Parsed(s)

Broken(s) ==
    /\ ClientDisconnected(s)
    /\ send(s, <<>>)
    /\ SendIfUserRequest
    /\ UNCHANGED comp_id

\* What client::Session sends when a deadline has passed.
TimerMessages(s) ==
    CASE state[s] = "WAITING_LOGON" -> <<>>
      [] state[s] = "READY" /\ ~waiting_for_heartbeat[s] -> <<"TestRequest">>
      [] OTHER -> <<"Logout">>

ClientTimer(s) ==
    /\ Timer(s)
    /\ TimerMessages(s) = <<"TestRequest">> => RoomToClient(s)
    /\ send(s, TimerMessages(s))
    /\ SendIfUserRequest
    /\ UNCHANGED comp_id

\* Fault: the answer is passed on whatever the session's state.
AnswerAnyhow(s) ==
    /\ s \in Live
    /\ OnlySend(s, "Answer")
    /\ UNCHANGED comp_id

\* An answer of the Controller's (ready() drops it in any other state).
Answer(s) ==
    /\ state[s] = "READY"
    /\ OnlySend(s, "Answer")
    /\ UNCHANGED comp_id

-----------------------------------------------------------------------------
(* server::Session.                                                        *)

Connected ==
    /\ ServerConnected
    /\ send_helper("Logon", None)
    /\ UNCHANGED <<comp_id, to_client, logout_read>>

\* Fault: the numbers go on from where the last connection left them.
DroppedKeepsNumber ==
    /\ ServerDisconnected
    /\ to_server' = <<>>
    /\ logout_read' = FALSE
    /\ UNCHANGED <<comp_id, to_client, outbound>>

\* The Controller closes all clients, which says nothing to them; then the
\* numbering starts again.
Dropped ==
    /\ ServerDisconnected
    /\ to_server' = <<>>
    /\ outbound' = 0
    /\ logout_read' = FALSE
    /\ UNCHANGED <<comp_id, to_client>>

ReadServerLogon ==
    /\ ServerLogon
    /\ UNCHANGED <<comp_id, to_client, link>>

\* The bridge's Logout is created as a Heartbeat (line 253), and a Heartbeat is
\* only logged: server::Session's own Logout handler is never reached.
ReadServerLogout ==
    /\ Running
    /\ server_state # "DISCONNECTED"
    /\ logout_read' = TRUE
    /\ UNCHANGED <<vars, comp_id, to_client, to_server, outbound>>

ReadServerTestRequest ==
    /\ Running
    /\ server_state # "DISCONNECTED"
    /\ RoomForPing
    /\ send_helper("Heartbeat", None)
    /\ UNCHANGED <<vars, comp_id, to_client, logout_read>>

\* A ping, every ping_freq, once the bridge has answered the logon.
ServerTimer ==
    /\ Running
    /\ server_state = "READY"
    /\ RoomForPing
    /\ send_helper("TestRequest", None)
    /\ UNCHANGED <<vars, comp_id, to_client, logout_read>>

\* Fault: the Logon goes out whatever the answer's status is.
UserResponseMessagesAnyhow(r, status) ==
    LET st == state[user.server_to_client[r.id]]
    IN  CASE Running' /\ st = "WAITING_CREATE_ROUTE" -> <<"Logon">>
          [] Running' /\ st = "WAITING_REMOVE_ROUTE" /\ status = "NOT_LOGGED_IN" -> <<"Goodbye">>
          [] OTHER -> <<>>

\* What client::Session sends on the answer to r.
UserResponseMessages(r, status) ==
    LET st == state[user.server_to_client[r.id]]
    IN  CASE Running' /\ st = "WAITING_CREATE_ROUTE" /\ status = "LOGGED_IN"     -> <<"Logon">>
          [] Running' /\ st = "WAITING_REMOVE_ROUTE" /\ status = "NOT_LOGGED_IN" -> <<"Goodbye">>
          [] OTHER -> <<>>

ReadUserResponse(r, status) ==
    /\ UserResponse(r, status)
    /\ send(user.server_to_client[r.id], UserResponseMessages(r, status))
    /\ SendIfUserRequest
    /\ UNCHANGED comp_id

-----------------------------------------------------------------------------
\* The session objects go, and with them what is known of their clients.
Collect ==
    /\ remove_zombies
    /\ comp_id' = comp_id \ Zombies
    /\ to_client' = [s \in Sessions |-> IF s \in Zombies THEN <<>> ELSE to_client[s]]
    /\ UNCHANGED link

Elsewhere ==
    /\ Accept \/ AuthStep
    /\ UNCHANGED <<comp_id, to_client, link>>

WireNext ==
    \/ \E s \in Sessions : Read(s) \/ Broken(s) \/ ClientTimer(s) \/ Answer(s)
    \/ Connected
    \/ Dropped
    \/ ReadServerLogon
    \/ ReadServerLogout
    \/ ReadServerTestRequest
    \/ ServerTimer
    \/ \E r \in pending, status \in {"LOGGED_IN", "NOT_LOGGED_IN", "OTHER"} :
         ReadUserResponse(r, status)
    \/ Collect
    \/ Elsewhere

WireSpec == WireInit /\ [][WireNext]_wireVars

-----------------------------------------------------------------------------
(* Properties.                                                             *)

\* A Reject, a Logout or the answer to the client's Logout ends the conversation:
\* whatever is still in the buffer, due on a timer, or on its way from the
\* bridge, nothing follows it (client/session.cpp:310, 336, 278).
FarewellIsLast ==
    \A s \in Sessions : \A i \in DOMAIN to_client[s] :
      to_client[s][i] \in Farewells =>
        i = Len(to_client[s]) /\ state[s] = "ZOMBIE"

\* A client is not spoken to before it spoke (the assertion on comp_id_, line
\* 408).  It gets one Logon, and answers, TestRequests and a Goodbye only after
\* it; before it, Heartbeats and BusinessMessageRejects do go out, although the
\* assertion in send (line 399) says that they do not.
LogonComesFirst ==
    \A s \in Sessions :
      /\ to_client[s] # <<>> => s \in comp_id
      /\ \A i \in DOMAIN to_client[s] :
           /\ to_client[s][i] \in {"Answer", "TestRequest", "Goodbye"} =>
                \E j \in 1 .. i - 1 : to_client[s][j] = "Logon"
           /\ to_client[s][i] = "Logon" =>
                \A j \in 1 .. i - 1 : to_client[s][j] # "Logon"

Said(s, m) == Len(to_client'[s]) > Len(to_client[s]) /\ to_client'[s][Len(to_client'[s])] = m

\* What a client is told of its route is so at that moment: with the Logon the
\* route is its own, until an answer it is still its own if no other user has its
\* strategy, and with the Goodbye nobody has it (client/session.cpp:133-193,
\* controller.cpp:412-425).
Truthful(s) ==
    /\ Said(s, "Logon") => ready /\ user'.client_to_session[party_id[s]] = s
    /\ Said(s, "Answer") =>
         ready /\ (party_id[s] \in Sole => user'.client_to_session[party_id[s]] = s)
    /\ Said(s, "Goodbye") =>
         /\ user'.client_to_session[party_id[s]] = None
         /\ party_id[s] \in Sole => \A r \in pending' : r.username # party_id[s]

ClientsAreToldTheTruth == [][\A s \in Sessions : Truthful(s)]_wireVars

\* On each connection to the bridge the Logon comes first, as number 1, the
\* numbers have no gap, and until the bridge has answered only Heartbeats follow.
\* Nothing is written while there is no connection (server/session.cpp:155-171).
LinkStartsWithLogon ==
    /\ server_state = "DISCONNECTED" <=> to_server = <<>>
    /\ \A i \in DOMAIN to_server :
         /\ to_server[i].msg_seq_num = i
         /\ to_server[i].type = "Logon" <=> i = 1
         /\ i > 1 /\ server_state # "READY" => to_server[i].type = "Heartbeat"

\* The bridge sees a client's request, or LOG_OFF, only after a LOG_ON of its
\* party on the same connection, and a request only if no LOG_OFF came in
\* between, however the lives of two sessions of that party overlap, if they are
\* one user's.
RequestsAreRouted ==
    \A i \in DOMAIN to_server :
      to_server[i].type \in {"Request", "LOG_OFF_USER"} =>
        \E j \in 1 .. i - 1 :
          /\ to_server[j].type = "LOG_ON_USER"
          /\ to_server[j].party = to_server[i].party
          /\ to_server[i].type = "Request" /\ to_server[i].party \in Sole =>
               \A k \in j .. i - 1 :
                 ~(/\ to_server[k].type = "LOG_OFF_USER"
                   /\ to_server[k].party = to_server[i].party)

\* "note! mandated, must send a logout response" (server/session.cpp:386).
LogoutIsAnswered ==
    logout_read => \E i \in DOMAIN to_server : to_server[i].type = "Logout"

=============================================================================
