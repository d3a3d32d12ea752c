------------------------------ MODULE WireProofs ------------------------------
(***************************************************************************)
(* Theorems about Wire: it is UserRouting with messages (so that what is   *)
(* proved of UserRouting holds in it), and for any number of users,        *)
(* sessions and messages a client's conversation starts with a Logon and   *)
(* ends with its farewell, and so does the bridge's with a Logon.          *)
(***************************************************************************)
EXTENDS Wire, UserRoutingProofs

-----------------------------------------------------------------------------
(* Every step of Wire is a step of UserRouting.                            *)

\* What one session reads.
LEMMA ReadIsStep ==
    ASSUME NEW s \in Sessions, Read(s)
    PROVE  ClientStep(s) \/ UNCHANGED vars
<1>1. CASE ReadReject(s)
    BY <1>1 DEF ReadReject, ClientStep
<1>2. CASE ReadTestRequest(s)
    BY <1>2 DEF ReadTestRequest, OnlySend, ClientStep
<1>3. CASE ReadResendRequest(s)
    BY <1>3 DEF ReadResendRequest, ClientStep
<1>4. CASE ReadHeartbeat(s)
    BY <1>4 DEF ReadHeartbeat, ClientStep
<1>5. CASE ReadBusinessRequest(s)
    BY <1>5 DEF ReadBusinessRequest, OnlySend, PassOn, ClientStep
<1>6. CASE ReadUnsupported(s)
    BY <1>6 DEF ReadUnsupported, OnlySend
<1>7. CASE ReadLogon(s)
    BY <1>7 DEF ReadLogon, ClientStep
<1>8. CASE ReadLogout(s)
    BY <1>8 DEF ReadLogout, ClientStep
<1> QED
    BY <1>1, <1>2, <1>3, <1>4, <1>5, <1>6, <1>7, <1>8 DEF Read

\* Every step of Wire is one of UserRouting, or leaves it alone.
LEMMA WireStep == [WireNext]_wireVars => [Next]_vars
<1> SUFFICES ASSUME [WireNext]_wireVars PROVE [Next]_vars
    OBVIOUS
<1>1. ASSUME NEW s \in Sessions, Read(s) PROVE [Next]_vars
    BY <1>1, ReadIsStep DEF Next
<1>2. ASSUME NEW s \in Sessions, Broken(s) \/ ClientTimer(s) PROVE Next
    BY <1>2 DEF Broken, ClientTimer, Next, ClientStep, TimerStep
<1>3. ASSUME NEW s \in Sessions, Answer(s) PROVE UNCHANGED vars
    BY <1>3 DEF Answer, OnlySend
<1>4. CASE Connected \/ Dropped \/ ReadServerLogon
    BY <1>4 DEF Connected, Dropped, ReadServerLogon, Next, ServerStep
<1>5. CASE ReadServerLogout \/ ReadServerTestRequest \/ ServerTimer
    BY <1>5 DEF ReadServerLogout, ReadServerTestRequest, ServerTimer
<1>6. CASE \E r \in pending, status \in {"LOGGED_IN", "NOT_LOGGED_IN", "OTHER"} :
             ReadUserResponse(r, status)
    BY <1>6 DEF ReadUserResponse, Next, ServerStep
<1>7. CASE Collect \/ Elsewhere
    BY <1>7 DEF Collect, Elsewhere, Next, TimerStep
<1>8. CASE UNCHANGED wireVars
    BY <1>8 DEF wireVars
<1> QED
    BY <1>1, <1>2, <1>3, <1>4, <1>5, <1>6, <1>7, <1>8 DEF WireNext

\* Messages change nothing: Wire behaves as UserRouting, for any bounds.
THEOREM WireImplementsUserRouting == WireSpec => Spec
<1>1. WireInit => Init
    BY DEF WireInit
<1> QED
    BY <1>1, WireStep, PTL DEF WireSpec, Spec

\* Hence the inductive invariant of UserRouting holds in Wire.
THEOREM WireKeepsIInv == WireSpec => []IInv
<1> QED
    BY WireImplementsUserRouting, InductiveInvariant, PTL

-----------------------------------------------------------------------------
(* The clients' conversations.                                             *)

\* Who has been told of its logon: everybody that was READY and still lives, and
\* nobody who has yet to be; and whose first message was read.
Told ==
    /\ LoggedOn \subseteq comp_id
    /\ \A s \in Sessions :
         /\ state[s] \in {"READY", "WAITING_REMOVE_ROUTE"} =>
              \E j \in DOMAIN to_client[s] : to_client[s][j] = "Logon"
         /\ state[s] \in {"ABSENT", "WAITING_LOGON", "WAITING_CREATE_ROUTE"} =>
              \A j \in DOMAIN to_client[s] : to_client[s][j] # "Logon"

\* What every step preserves of the conversations.
ClientInv ==
    /\ state \in [Sessions -> States]
    /\ comp_id \subseteq Sessions
    /\ to_client \in [Sessions -> Seq(ToClient)]
    /\ FarewellIsLast
    /\ LogonComesFirst
    /\ Told

\* How a session that is told ms moves on.
Turn(s, ms) ==
    \/ /\ ms = <<>>
       /\ \/ state'[s] = state[s]
          \/ state'[s] = "ZOMBIE"
          \/ state[s] = "WAITING_LOGON" /\ state'[s] = "WAITING_CREATE_ROUTE"
          \/ state[s] = "READY" /\ state'[s] = "WAITING_REMOVE_ROUTE"
    \/ /\ ms = <<"Logon">>
       /\ state[s] = "WAITING_CREATE_ROUTE"
       /\ state'[s] = "READY"
    \/ /\ ms \in {<<"Heartbeat">>, <<"BusinessMessageReject">>}
       /\ s \in Live
       /\ state'[s] = state[s]
    \/ /\ ms \in {<<"Answer">>, <<"TestRequest">>}
       /\ state[s] = "READY"
       /\ state'[s] = "READY"
    \/ /\ ms \in {<<"Reject">>, <<"Logout">>}
       /\ s \in Live
       /\ state'[s] = "ZOMBIE"
    \/ /\ ms = <<"Goodbye">>
       /\ state[s] = "WAITING_REMOVE_ROUTE"
       /\ state'[s] = "ZOMBIE"

\* Appending one message to a conversation.
LEMMA AppendOne ==
    ASSUME NEW c \in Seq(ToClient), NEW m \in ToClient
    PROVE  /\ c \o <<m>> \in Seq(ToClient)
           /\ Len(c \o <<m>>) = Len(c) + 1
           /\ DOMAIN (c \o <<m>>) = 1 .. Len(c) + 1
           /\ DOMAIN c = 1 .. Len(c)
           /\ Len(c) \in Nat
           /\ \A i \in 1 .. Len(c) : (c \o <<m>>)[i] = c[i]
           /\ (c \o <<m>>)[Len(c) + 1] = m
OBVIOUS

\* A turn of one session keeps the invariant.
LEMMA TurnStep ==
    ASSUME ClientInv, NEW s \in Sessions, NEW ms, Turn(s, ms), send(s, ms),
           state' \in [Sessions -> States],
           \A t \in Sessions : t # s => state'[t] = state[t],
           comp_id \subseteq comp_id', comp_id' \subseteq Sessions,
           ms # <<>> \/ s \in LoggedOn' => s \in comp_id'
    PROVE  ClientInv'
<1> DEFINE c == to_client[s]
<1>1. c \in Seq(ToClient) /\ c \in [1 .. Len(c) -> ToClient] /\ Len(c) \in Nat
    BY DEF ClientInv
<1>2. /\ to_client' = [to_client EXCEPT ![s] = c \o ms]
      /\ \A t \in Sessions : t # s => to_client'[t] = to_client[t]
      /\ to_client'[s] = c \o ms
    BY DEF ClientInv, send
<1>3. ASSUME NEW t \in Sessions, t # s
      PROVE  /\ to_client'[t] = to_client[t] /\ state'[t] = state[t]
             /\ to_client[t] # <<>> => t \in comp_id'
             /\ t \in LoggedOn => t \in comp_id'
    BY <1>2, <1>3 DEF ClientInv, LogonComesFirst, Told
<1>4. CASE ms = <<>>
  <2>1. c \o ms = c
    BY <1>1, <1>4
  <2>2. to_client' = to_client
    BY <1>2, <2>1 DEF ClientInv
  <2>3. state[s] # "ZOMBIE" \/ state'[s] = "ZOMBIE"
    BY <1>4 DEF Turn
  <2>4. FarewellIsLast'
    BY <2>2, <2>3 DEF ClientInv, FarewellIsLast
  <2>5. LogonComesFirst'
    BY <2>2 DEF ClientInv, LogonComesFirst
  <2>6. state'[s] \in {"WAITING_CREATE_ROUTE", "READY", "WAITING_REMOVE_ROUTE"} => s \in comp_id'
    BY DEF LoggedOn
  <2>7. (LoggedOn \subseteq comp_id)'
    BY <1>3, <2>6 DEF LoggedOn
  <2>8. /\ state'[s] \in {"READY", "WAITING_REMOVE_ROUTE"} =>
             state[s] \in {"READY", "WAITING_REMOVE_ROUTE"}
        /\ state'[s] \in {"ABSENT", "WAITING_LOGON", "WAITING_CREATE_ROUTE"} =>
             state[s] \in {"ABSENT", "WAITING_LOGON", "WAITING_CREATE_ROUTE"}
    BY <1>4 DEF Turn
  <2>9. Told'
    BY <1>3, <2>2, <2>7, <2>8 DEF ClientInv, Told
  <2> QED
    BY <2>2, <2>4, <2>5, <2>9 DEF ClientInv
<1>5. CASE ms # <<>>
  <2>1. PICK m \in ToClient : ms = <<m>>
    BY <1>5 DEF Turn, ToClient, Farewells
  <2> DEFINE d == c \o <<m>>
             n == Len(c) + 1
  <2>2. /\ d \in Seq(ToClient) /\ Len(d) = n /\ DOMAIN d = 1 .. n /\ DOMAIN c = 1 .. Len(c)
        /\ \A i \in 1 .. Len(c) : d[i] = c[i]
        /\ d[n] = m
    BY <1>1, AppendOne
  <2>3. to_client'[s] = d
    BY <1>2, <2>1
  <2>4. s \in comp_id' /\ state[s] # "ZOMBIE" /\ state[s] # "ABSENT"
    BY <1>5, <2>1 DEF Turn, Live, LoggedOn
  <2>5. \A i \in 1 .. Len(c) : c[i] \notin Farewells
    BY <2>2, <2>4 DEF ClientInv, FarewellIsLast
  <2>6. m \in Farewells => state'[s] = "ZOMBIE"
    BY <2>1 DEF Turn, Farewells
  <2>7. \A i \in 1 .. n : d[i] \in Farewells => i = n /\ state'[s] = "ZOMBIE"
    BY <1>1, <2>2, <2>5, <2>6
  <2>8. FarewellIsLast'
    BY <1>3, <2>2, <2>3, <2>7 DEF ClientInv, FarewellIsLast
  <2>9. m \in {"Answer", "TestRequest", "Goodbye"} =>
          \E j \in 1 .. Len(c) : c[j] = "Logon"
    BY <2>1, <2>2 DEF Turn, ClientInv, Told
  <2>10. m = "Logon" => state[s] = "WAITING_CREATE_ROUTE" /\ state'[s] = "READY"
    BY <2>1 DEF Turn
  <2>11. m = "Logon" => \A j \in 1 .. Len(c) : c[j] # "Logon"
    BY <2>2, <2>10 DEF ClientInv, Told
  <2>12. \A i \in 1 .. Len(c) :
           /\ c[i] \in {"Answer", "TestRequest", "Goodbye"} =>
                \E j \in 1 .. i - 1 : c[j] = "Logon"
           /\ c[i] = "Logon" => \A j \in 1 .. i - 1 : c[j] # "Logon"
    BY <2>2 DEF ClientInv, LogonComesFirst
  <2>13. \A i \in 1 .. n :
           /\ d[i] \in {"Answer", "TestRequest", "Goodbye"} =>
                \E j \in 1 .. i - 1 : d[j] = "Logon"
           /\ d[i] = "Logon" => \A j \in 1 .. i - 1 : d[j] # "Logon"
    <3> TAKE i \in 1 .. n
    <3>1. CASE i = n
      <4>1. d[i] = m /\ 1 .. i - 1 = 1 .. Len(c)
        BY <1>1, <2>2, <3>1
      <4> QED
        BY <2>2, <2>9, <2>11, <4>1
    <3>2. CASE i # n
      <4>1. i \in 1 .. Len(c) /\ \A j \in 1 .. i - 1 : j \in 1 .. Len(c)
        BY <1>1, <3>2
      <4>2. d[i] = c[i] /\ \A j \in 1 .. i - 1 : d[j] = c[j]
        BY <2>2, <4>1
      <4> QED
        BY <2>12, <4>1, <4>2
    <3> QED
      BY <3>1, <3>2
  <2>14. LogonComesFirst'
    <3> SUFFICES ASSUME NEW t \in Sessions
                 PROVE  /\ to_client'[t] # <<>> => t \in comp_id'
                        /\ \A i \in DOMAIN to_client'[t] :
                             /\ to_client'[t][i] \in {"Answer", "TestRequest", "Goodbye"} =>
                                  \E j \in 1 .. i - 1 : to_client'[t][j] = "Logon"
                             /\ to_client'[t][i] = "Logon" =>
                                  \A j \in 1 .. i - 1 : to_client'[t][j] # "Logon"
      BY DEF LogonComesFirst
    <3>1. CASE t = s
      <4>1. to_client'[t] = d /\ DOMAIN d = 1 .. n /\ t \in comp_id'
        BY <2>2, <2>3, <2>4, <3>1
      <4> HIDE DEF d, n
      <4> QED
        BY <2>13, <4>1
    <3>2. CASE t # s
      <4>1. to_client'[t] = to_client[t] /\ (to_client[t] # <<>> => t \in comp_id')
        BY <1>3, <3>2
      <4>2. \A i \in DOMAIN to_client[t] :
              /\ to_client[t][i] \in {"Answer", "TestRequest", "Goodbye"} =>
                   \E j \in 1 .. i - 1 : to_client[t][j] = "Logon"
              /\ to_client[t][i] = "Logon" =>
                   \A j \in 1 .. i - 1 : to_client[t][j] # "Logon"
        BY DEF ClientInv, LogonComesFirst
      <4> QED
        BY <4>1, <4>2
    <3> QED
      BY <3>1, <3>2
  <2>15. (LoggedOn \subseteq comp_id)'
    BY <1>3, <2>4 DEF LoggedOn
  <2>16. state'[s] \in {"READY", "WAITING_REMOVE_ROUTE"} =>
           \E j \in 1 .. n : d[j] = "Logon"
    <3>1. CASE m = "Logon"
      BY <1>1, <2>2, <3>1
    <3>2. CASE m # "Logon"
      <4>1. state'[s] \in {"READY", "WAITING_REMOVE_ROUTE"} => state'[s] = state[s]
        BY <2>1, <3>2 DEF Turn
      <4>2. state'[s] \in {"READY", "WAITING_REMOVE_ROUTE"} =>
              \E j \in 1 .. Len(c) : c[j] = "Logon"
        BY <2>2, <4>1 DEF ClientInv, Told
      <4> QED
        BY <1>1, <2>2, <4>2
    <3> QED
      BY <3>1, <3>2
  <2>17. state'[s] \in {"ABSENT", "WAITING_LOGON", "WAITING_CREATE_ROUTE"} =>
           \A j \in 1 .. n : d[j] # "Logon"
    <3>1. state'[s] \in {"ABSENT", "WAITING_LOGON", "WAITING_CREATE_ROUTE"} =>
            m # "Logon" /\ state'[s] = state[s]
      BY <2>1 DEF Turn
    <3>2. state'[s] \in {"ABSENT", "WAITING_LOGON", "WAITING_CREATE_ROUTE"} =>
            \A j \in 1 .. Len(c) : c[j] # "Logon"
      BY <2>2, <3>1 DEF ClientInv, Told
    <3> QED
      BY <1>1, <2>2, <3>1, <3>2
  <2>18. Told'
    <3> SUFFICES ASSUME NEW t \in Sessions
                 PROVE  /\ state'[t] \in {"READY", "WAITING_REMOVE_ROUTE"} =>
                             \E j \in DOMAIN to_client'[t] : to_client'[t][j] = "Logon"
                        /\ state'[t] \in {"ABSENT", "WAITING_LOGON", "WAITING_CREATE_ROUTE"} =>
                             \A j \in DOMAIN to_client'[t] : to_client'[t][j] # "Logon"
      BY <2>15 DEF Told
    <3>1. CASE t = s
      BY <2>2, <2>3, <2>16, <2>17, <3>1
    <3>2. CASE t # s
      BY <1>3, <3>2 DEF ClientInv, Told
    <3> QED
      BY <3>1, <3>2
  <2>19. to_client' \in [Sessions -> Seq(ToClient)]
    BY <1>2, <2>1, <2>2 DEF ClientInv
  <2> QED
    BY <2>8, <2>14, <2>18, <2>19 DEF ClientInv
<1> QED
    BY <1>4, <1>5

\* Nobody is told anything: sessions begin, stay as they are or die.
LEMMA SilentStep ==
    ASSUME ClientInv, state' \in [Sessions -> States], UNCHANGED to_client,
           \A t \in Sessions : \/ state'[t] \in {state[t], "ZOMBIE"}
                               \/ state[t] = "ABSENT" /\ state'[t] = "WAITING_LOGON",
           comp_id \subseteq comp_id', comp_id' \subseteq Sessions
    PROVE  ClientInv'
<1>1. FarewellIsLast'
    BY DEF ClientInv, FarewellIsLast
<1>2. LogonComesFirst'
    BY DEF ClientInv, LogonComesFirst
<1>3. LoggedOn' \subseteq LoggedOn
    BY DEF LoggedOn
<1>4. Told'
    BY <1>3 DEF ClientInv, Told
<1> QED
    BY <1>1, <1>2, <1>4 DEF ClientInv

\* What is read from a live session may make it die of it.
LEMMA DeathMove ==
    ASSUME ClientInv, NEW s \in Sessions, make_zombie(s)
    PROVE  /\ state'[s] = "ZOMBIE" /\ s \in Live
           /\ \A t \in Sessions : t # s => state'[t] = state[t]
BY DEF make_zombie, make_zombie_with, ClientInv, Live, LoggedOn

\* Reading from one session is one of its turns.
LEMMA ReadTurn ==
    ASSUME ClientInv, NEW s \in Sessions, Read(s)
    PROVE  \/ UNCHANGED <<state, to_client>>
           \/ /\ \A t \in Sessions : t # s => state'[t] = state[t]
              /\ \E ms : /\ Turn(s, ms) /\ send(s, ms)
                        /\ ms # <<"Logon">> /\ ms # <<"Goodbye">>
<1> DEFINE Goal == \/ UNCHANGED <<state, to_client>>
                   \/ /\ \A t \in Sessions : t # s => state'[t] = state[t]
                      /\ \E ms : /\ Turn(s, ms) /\ send(s, ms)
                                /\ ms # <<"Logon">> /\ ms # <<"Goodbye">>
<1>1. ASSUME make_zombie(s), send(s, <<>>) PROVE Goal
    BY <1>1, DeathMove DEF Turn
<1>2. ASSUME make_zombie(s), send(s, <<"Reject">>) PROVE Goal
    BY <1>2, DeathMove DEF Turn
<1>3. ASSUME NEW S, make_zombie(s), FarewellIn(S, s, "Reject") PROVE Goal
    <2>1. CASE state[s] \in S
      BY <1>2, <1>3, <2>1 DEF FarewellIn
    <2>2. CASE state[s] \notin S
      BY <1>1, <1>3, <2>2 DEF FarewellIn
    <2> QED
      BY <2>1, <2>2
<1>4. ASSUME UNCHANGED state, send(s, <<>>) PROVE Goal
    BY <1>4 DEF Turn
<1>5. ASSUME NEW m \in {"Heartbeat", "BusinessMessageReject"}, s \in Live, OnlySend(s, m)
      PROVE  Goal
    BY <1>5 DEF OnlySend, vars, session, Turn
<1>6. CASE ReadReject(s)
    BY <1>1, <1>6 DEF ReadReject, Reject
<1>7. CASE ReadTestRequest(s)
  <2>1. state[s] \in {"WAITING_CREATE_ROUTE", "READY"} => s \in Live
    BY DEF Live, LoggedOn
  <2> QED
    BY <1>2, <1>5, <1>7, <2>1 DEF ReadTestRequest, TestRequest
<1>8. CASE ReadResendRequest(s)
    BY <1>3, <1>8 DEF ReadResendRequest, ResendRequest
<1>9. CASE ReadHeartbeat(s)
  <2>1. CASE make_zombie(s)
    BY <1>3, <1>9, <2>1 DEF ReadHeartbeat
  <2>2. CASE ~make_zombie(s)
    BY <1>4, <1>9, <2>2 DEF ReadHeartbeat, Heartbeat, FarewellIn, BeforeLogon
  <2> QED
    BY <2>1, <2>2
<1>10. CASE ReadBusinessRequest(s)
  <2>1. state[s] = "READY" => s \in Live
    BY DEF Live, LoggedOn
  <2>2. PassOn(s) => UNCHANGED <<state, to_client>>
    BY DEF PassOn, vars, session
  <2> QED
    BY <1>3, <1>5, <1>10, <2>1, <2>2 DEF ReadBusinessRequest, BusinessRequest
<1>11. CASE ReadUnsupported(s)
    BY <1>5, <1>11 DEF ReadUnsupported
<1>12. CASE ReadLogon(s)
  <2>1. ASSUME NEW u \in Users, NEW valid \in BOOLEAN, LogonRejected(s, u, valid),
               FarewellIn(BeforeLogon \cup {"READY"}, s, "Reject")
        PROVE  Goal
    BY <1>3, <2>1 DEF LogonRejected
  <2>2. ASSUME NEW u \in Users, LogonNotReady(s, u), send(s, <<"Reject">>)
        PROVE  Goal
    <3>1. /\ s \in Live /\ state'[s] = "ZOMBIE"
          /\ \A t \in Sessions : t # s => state'[t] = state[t]
      BY <2>2 DEF LogonNotReady, ClientInv, Live
    <3> QED
      BY <2>2, <3>1 DEF Turn
  <2>3. ASSUME NEW u \in Users, Logon(s, u), send(s, <<>>)
        PROVE  Goal
    <3>1. /\ \/ state'[s] = state[s]
             \/ state[s] = "WAITING_LOGON" /\ state'[s] = "WAITING_CREATE_ROUTE"
          /\ \A t \in Sessions : t # s => state'[t] = state[t]
      BY <2>3 DEF Logon, SendUserRequest, ClientInv
    <3> QED
      BY <2>3, <3>1 DEF Turn
  <2> QED
    BY <1>12, <2>1, <2>2, <2>3 DEF ReadLogon
<1>13. CASE ReadLogout(s)
  <2>1. CASE make_zombie(s)
    BY <1>3, <1>13, <2>1 DEF ReadLogout
  <2>2. CASE ~make_zombie(s)
    <3>1. /\ state[s] = "READY"
          /\ state'[s] = state[s] \/ state'[s] = "WAITING_REMOVE_ROUTE"
          /\ \A t \in Sessions : t # s => state'[t] = state[t]
      BY <1>13, <2>2 DEF ReadLogout, Logout, SendUserRequest, ClientInv
    <3>2. send(s, <<>>)
      BY <1>13, <3>1 DEF ReadLogout, FarewellIn, BeforeLogon
    <3> QED
      BY <3>1, <3>2 DEF Turn
  <2> QED
    BY <2>1, <2>2
<1> QED
    BY <1>6, <1>7, <1>8, <1>9, <1>10, <1>11, <1>12, <1>13 DEF Read

\* Reading keeps the conversations in order.
LEMMA ReadStep ==
    ASSUME ClientInv, NEW s \in Sessions, Read(s), state' \in [Sessions -> States]
    PROVE  ClientInv'
<1>1. comp_id \subseteq comp_id' /\ comp_id' \subseteq Sessions /\ s \in comp_id'
    BY DEF Read, Parsed, ClientInv
<1>2. CASE UNCHANGED <<state, to_client>>
    BY <1>1, <1>2, SilentStep
<1>3. ASSUME NEW ms, Turn(s, ms), send(s, ms), \A t \in Sessions : t # s => state'[t] = state[t]
      PROVE  ClientInv'
    BY <1>1, <1>3, TurnStep
<1> QED
    BY <1>2, <1>3, ReadTurn

\* What a session says when a deadline has passed is one of its turns.
LEMMA TimerTurn ==
    ASSUME ClientInv, NEW s \in Sessions, Timer(s)
    PROVE  /\ Turn(s, TimerMessages(s))
           /\ \A t \in Sessions : t # s => state'[t] = state[t]
           /\ TimerMessages(s) # <<>> \/ s \in LoggedOn' => s \in LoggedOn
<1>1. state[s] \in {"WAITING_CREATE_ROUTE", "READY", "WAITING_REMOVE_ROUTE"} => s \in LoggedOn
    BY DEF LoggedOn
<1>2. CASE make_zombie(s) /\ ~(state[s] = "READY" /\ ~waiting_for_heartbeat[s])
  <2>1. TimerMessages(s) \in {<<>>, <<"Logout">>}
    BY <1>2 DEF TimerMessages
  <2>2. TimerMessages(s) # <<>> => s \in LoggedOn
    BY <1>1, <1>2, DeathMove DEF TimerMessages, Live
  <2> QED
    BY <1>2, <2>1, <2>2, DeathMove DEF Turn, LoggedOn
<1>3. CASE state[s] = "READY" /\ ~waiting_for_heartbeat[s]
  <2>1. TimerMessages(s) = <<"TestRequest">> /\ UNCHANGED state
    BY <1>3 DEF TimerMessages, Timer
  <2> QED
    BY <1>1, <1>3, <2>1 DEF Turn
<1> QED
    BY <1>2, <1>3 DEF Timer

\* A broken connection and a deadline keep the conversations in order.
LEMMA DropStep ==
    ASSUME ClientInv, NEW s \in Sessions, Broken(s) \/ ClientTimer(s),
           state' \in [Sessions -> States]
    PROVE  ClientInv'
<1>1. comp_id' = comp_id /\ comp_id \subseteq Sessions /\ LoggedOn \subseteq comp_id
    BY DEF Broken, ClientTimer, ClientInv, Told
<1>2. CASE Broken(s)
  <2>1. make_zombie(s) /\ send(s, <<>>)
    BY <1>2 DEF Broken, ClientDisconnected
  <2>2. Turn(s, <<>>) /\ s \notin LoggedOn'
    BY <2>1, DeathMove DEF Turn, LoggedOn
  <2> QED
    BY <1>1, <2>1, <2>2, DeathMove, TurnStep
<1>3. CASE ClientTimer(s)
  <2>1. Timer(s) /\ send(s, TimerMessages(s))
    BY <1>3 DEF ClientTimer
  <2> QED
    BY <1>1, <2>1, TimerTurn, TurnStep
<1> QED
    BY <1>2, <1>3

\* The Controller's answers reach READY sessions only.
LEMMA AnswerTurn ==
    ASSUME ClientInv, NEW s \in Sessions, Answer(s), state' \in [Sessions -> States]
    PROVE  ClientInv'
<1>1. /\ state[s] = "READY" /\ UNCHANGED <<state, comp_id>>
      /\ send(s, <<"Answer">>)
    BY DEF Answer, OnlySend, vars, session
<1>2. Turn(s, <<"Answer">>) /\ s \in comp_id
    BY <1>1 DEF Turn, ClientInv, Told, LoggedOn
<1> QED
    BY <1>1, <1>2, TurnStep DEF ClientInv

\* What a session says when the bridge answers its user request is a turn.
LEMMA ResponseTurn ==
    ASSUME IInv, ClientInv, NEW r \in pending,
           NEW status \in {"LOGGED_IN", "NOT_LOGGED_IN", "OTHER"},
           UserResponse(r, status), NEW s, s = user.server_to_client[r.id]
    PROVE  /\ Turn(s, UserResponseMessages(r, status))
           /\ \A t \in Sessions : t # s => state'[t] = state[t]
           /\ UserResponseMessages(r, status) # <<>> \/ s \in LoggedOn' => s \in LoggedOn
<1> DEFINE ms == UserResponseMessages(r, status)
<1>1. s \in Sessions
    BY PendingFacts
<1>2. state[s] \in {"WAITING_CREATE_ROUTE", "READY", "WAITING_REMOVE_ROUTE"} => s \in LoggedOn
    BY <1>1 DEF LoggedOn
<1>3. CASE UserResponseFatal(r, s, status) # "no"
  <2>1. /\ fatal' = UserResponseFatal(r, s, status)
        /\ UNCHANGED <<shared, session, server, user, pending>>
    BY <1>3 DEF UserResponse
  <2>2. fatal' # "no" /\ UNCHANGED state
    BY <1>3, <2>1 DEF session
  <2>3. ms = <<>>
    BY <2>2 DEF UserResponseMessages, Running
  <2>4. Turn(s, ms)
    BY <2>2, <2>3 DEF Turn
  <2>5. LoggedOn' = LoggedOn
    BY <2>2 DEF LoggedOn
  <2> QED
    BY <2>2, <2>3, <2>4, <2>5
<1>4. CASE UserResponseFatal(r, s, status) = "no"
  <2>1. fatal' = "no"
    BY <1>4 DEF UserResponse, Running, make_zombie_with
  <2>2. \/ UNCHANGED state
        \/ state' = [state EXCEPT ![s] = "READY"]
        \/ state' = [state EXCEPT ![s] = "ZOMBIE"]
    BY <1>4 DEF UserResponse, make_zombie_with, session
  <2>3. ms = CASE state[s] = "WAITING_CREATE_ROUTE" /\ status = "LOGGED_IN"     -> <<"Logon">>
               [] state[s] = "WAITING_REMOVE_ROUTE" /\ status = "NOT_LOGGED_IN" -> <<"Goodbye">>
               [] OTHER -> <<>>
    BY <2>1 DEF UserResponseMessages, Running
  <2>4. /\ state[s] = "WAITING_CREATE_ROUTE" /\ status = "LOGGED_IN" => state'[s] = "READY"
        /\ state[s] = "WAITING_CREATE_ROUTE" /\ status # "LOGGED_IN" => state'[s] = "ZOMBIE"
        /\ state[s] = "WAITING_REMOVE_ROUTE" => state'[s] = "ZOMBIE"
        /\ state[s] \notin {"WAITING_CREATE_ROUTE", "WAITING_REMOVE_ROUTE"} => state'[s] = state[s]
    BY <1>1, <1>4 DEF UserResponse, make_zombie_with, session, ClientInv
  <2>5. Turn(s, ms)
    BY <2>3, <2>4 DEF Turn
  <2>6. \A t \in Sessions : t # s => state'[t] = state[t]
    BY <2>2 DEF ClientInv
  <2>7. ms # <<>> \/ s \in LoggedOn' => s \in LoggedOn
    BY <1>2, <2>3, <2>4 DEF LoggedOn
  <2> QED
    BY <2>5, <2>6, <2>7
<1> QED
    BY <1>3, <1>4

\* The bridge's answer keeps the conversations in order.
LEMMA UserResponseTurn ==
    ASSUME IInv, ClientInv, NEW r \in pending,
           NEW status \in {"LOGGED_IN", "NOT_LOGGED_IN", "OTHER"},
           ReadUserResponse(r, status), state' \in [Sessions -> States]
    PROVE  ClientInv'
<1>1. PICK s \in Sessions : s = user.server_to_client[r.id]
    BY PendingFacts
<1>2. /\ UserResponse(r, status) /\ send(s, UserResponseMessages(r, status))
      /\ comp_id' = comp_id /\ comp_id \subseteq Sessions /\ LoggedOn \subseteq comp_id
    BY <1>1 DEF ReadUserResponse, ClientInv, Told
<1> QED
    BY <1>1, <1>2, ResponseTurn, TurnStep

\* The bridge's connection, new clients and the users' administration.
LEMMA OtherStep ==
    ASSUME IInv, ClientInv, state' \in [Sessions -> States],
           \/ Connected \/ Dropped \/ ReadServerLogon \/ ReadServerLogout
           \/ ReadServerTestRequest \/ ServerTimer \/ Elsewhere
    PROVE  ClientInv'
<1>1. UNCHANGED <<to_client, comp_id>> /\ comp_id \subseteq Sessions
    BY DEF ClientInv, Connected, Dropped, ReadServerLogon, ReadServerLogout,
           ReadServerTestRequest, ServerTimer, Elsewhere
<1>2. CASE Dropped
    BY <1>1, <1>2, SilentStep DEF Dropped, ServerDisconnected, ClientInv
<1>3. CASE Accept
  <2>1. state' = [state EXCEPT ![next_session_id + 1] = "WAITING_LOGON"]
    BY <1>3 DEF Accept
  <2>2. next_session_id + 1 > next_session_id
    BY BoundsAssumption DEF IInv, TypeOK
  <2>3. next_session_id + 1 \in Sessions => state[next_session_id + 1] = "ABSENT"
    BY <2>2 DEF IInv, FreshIds
  <2> QED
    BY <1>1, <2>1, <2>3, SilentStep DEF ClientInv
<1>4. CASE UNCHANGED state
    BY <1>1, <1>4, SilentStep
<1>5. \/ Dropped \/ Accept \/ UNCHANGED state
    BY DEF Connected, ServerConnected, ReadServerLogon, ServerLogon, ReadServerLogout,
           ReadServerTestRequest, ServerTimer, Elsewhere, AuthStep, add_user, remove_user,
           vars, session
<1> QED
    BY <1>2, <1>3, <1>4, <1>5

\* A collected session's conversation is over.
LEMMA CollectTurn ==
    ASSUME ClientInv, Collect, state' \in [Sessions -> States]
    PROVE  ClientInv'
<1>1. /\ state' = [s \in Sessions |-> IF s \in Zombies THEN "ABSENT" ELSE state[s]]
      /\ comp_id' = comp_id \ Zombies
      /\ to_client' = [s \in Sessions |-> IF s \in Zombies THEN <<>> ELSE to_client[s]]
    BY DEF Collect, remove_zombies
<1>2. \A s \in Zombies : state'[s] = "ABSENT" /\ to_client'[s] = <<>>
    BY <1>1 DEF Zombies
<1>3. \A s \in Sessions \ Zombies :
        state'[s] = state[s] /\ to_client'[s] = to_client[s] /\ (s \in comp_id => s \in comp_id')
    BY <1>1
<1>4. Zombies \subseteq Sessions
    BY DEF Zombies
<1>5. FarewellIsLast'
    BY <1>2, <1>3 DEF ClientInv, FarewellIsLast
<1>6. LogonComesFirst'
    BY <1>2, <1>3 DEF ClientInv, LogonComesFirst
<1>7. (LoggedOn \subseteq comp_id)'
    BY <1>2, <1>3 DEF ClientInv, Told, LoggedOn
<1>8. Told'
    BY <1>2, <1>3, <1>7 DEF ClientInv, Told
<1>9. to_client' \in [Sessions -> Seq(ToClient)]
    BY <1>1 DEF ClientInv
<1> QED
    BY <1>1, <1>5, <1>6, <1>8, <1>9 DEF ClientInv

\* Every step keeps the conversations in order.
LEMMA ClientInvStep == IInv /\ ClientInv /\ [WireNext]_wireVars => ClientInv'
<1> SUFFICES ASSUME IInv, ClientInv, [WireNext]_wireVars PROVE ClientInv'
    OBVIOUS
<1>1. state' \in [Sessions -> States]
    BY WireStep, NextIInv DEF IInv, TypeOK
<1>2. CASE UNCHANGED wireVars
    BY <1>1, <1>2, SilentStep DEF wireVars, vars, session, ClientInv
<1> QED
    BY <1>1, <1>2, ReadStep, DropStep, AnswerTurn, UserResponseTurn, OtherStep, CollectTurn
       DEF WireNext

\* The invariant of the conversations, and what it says of every one of them.
THEOREM Conversations == WireSpec => []ClientInv
<1>1. WireInit => ClientInv
    BY DEF WireInit, Init, ClientInv, States, FarewellIsLast, LogonComesFirst, Told, LoggedOn
<1> QED
    BY <1>1, ClientInvStep, WireKeepsIInv, PTL DEF WireSpec

\* Nothing follows a session's farewell, whatever is buffered, due or on its way.
THEOREM FarewellsAreLast == WireSpec => []FarewellIsLast
<1>1. ClientInv => FarewellIsLast
    BY DEF ClientInv
<1> QED
    BY <1>1, Conversations, PTL

\* A client that has not been told of its logon gets nothing that presumes it, and
\* is told once.
THEOREM LogonsComeFirst == WireSpec => []LogonComesFirst
<1>1. ClientInv => LogonComesFirst
    BY DEF ClientInv
<1> QED
    BY <1>1, Conversations, PTL

-----------------------------------------------------------------------------
(* What a step of session s asks the bridge for.                           *)

Asks(s) ==
    /\ UNCHANGED <<server_state, ready>>
    /\ \A t \in Sessions : t # s => state'[t] = state[t] /\ party_id'[t] = party_id[t]
    /\ state[s] # "WAITING_LOGON" => party_id'[s] = party_id[s]
    /\ \A r \in pending' \ pending :
         /\ ready
         /\ r.type = "LOG_ON_USER" =>
              /\ state[s] = "WAITING_LOGON" /\ state'[s] = "WAITING_CREATE_ROUTE"
              /\ r.username = party_id'[s]
         /\ r.type = "LOG_OFF_USER" =>
              /\ state[s] \in {"READY", "WAITING_REMOVE_ROUTE"}
              /\ state'[s] \in {"WAITING_REMOVE_ROUTE", "ZOMBIE"}
              /\ state[s] = "WAITING_REMOVE_ROUTE" => state'[s] = "ZOMBIE"
              /\ r.username = party_id[s]
    /\ \A q, r \in pending' \ pending : q = r
    /\ state'[s] = "WAITING_CREATE_ROUTE" /\ state[s] # "WAITING_CREATE_ROUTE" =>
         \E r \in pending' \ pending : r.type = "LOG_ON_USER"
    /\ state'[s] = "READY" => state[s] \in {"READY", "WAITING_CREATE_ROUTE"}
    /\ state'[s] = "WAITING_REMOVE_ROUTE" => state[s] \in {"READY", "WAITING_REMOVE_ROUTE"}

\* The route that a session past its logon has is that of its own party.
LEMMA RouteOfLoggedOn ==
    ASSUME IInv, NEW s \in LoggedOn, user.session_to_client[s] # None
    PROVE  /\ s \in Sessions
           /\ state[s] \in {"READY", "WAITING_REMOVE_ROUTE"}
           /\ user.session_to_client[s] = party_id[s]
<1>1. s \in Sessions
    BY DEF LoggedOn
<1>2. state[s] # "WAITING_CREATE_ROUTE"
    BY <1>1 DEF IInv, CreateIsYoungest
<1> QED
    BY <1>1, <1>2 DEF LoggedOn, IInv, OwnRoute

\* A death asks for the release of the session's own route, or for nothing.
LEMMA DeathAsks ==
    ASSUME IInv, NEW s \in Sessions, NEW u, NEW q, q \subseteq pending,
           u.session_to_client[s] \in {user.session_to_client[s], None},
           make_zombie_with(s, u, q)
    PROVE  Asks(s)
<1>1. /\ UNCHANGED <<server_state, ready, party_id>>
      /\ state' = [state EXCEPT ![s] = "ZOMBIE"]
    BY DEF make_zombie_with, server
<1>2. state'[s] = "ZOMBIE" /\ \A t \in Sessions : t # s => state'[t] = state[t]
    BY <1>1 DEF IInv, TypeOK
<1>3. ASSUME NEW r \in pending' \ pending
      PROVE  /\ ready /\ s \in LoggedOn
             /\ r.type = "LOG_OFF_USER"
             /\ r.username = u.session_to_client[s]
             /\ u.session_to_client[s] # None
    BY <1>3 DEF make_zombie_with, Disconnected
<1>4. \A r \in pending' \ pending :
        /\ ready
        /\ r.type = "LOG_OFF_USER"
        /\ state[s] \in {"READY", "WAITING_REMOVE_ROUTE"}
        /\ r.username = party_id[s]
    BY <1>3, RouteOfLoggedOn
<1>5. \E m : pending' \subseteq q \cup {m}
    BY DEF make_zombie_with, Disconnected
<1>6. \A r, m \in pending' \ pending : r = m
    BY <1>5
<1> QED
    BY <1>1, <1>2, <1>4, <1>6 DEF Asks

\* What a client or its deadline brings about asks for its own party only.
LEMMA ClientAsks ==
    ASSUME IInv, NEW s \in Sessions, ClientStep(s) \/ Timer(s)
    PROVE  Asks(s)
<1>1. ASSUME make_zombie(s) PROVE Asks(s)
    BY <1>1, DeathAsks DEF make_zombie
<1>2. ASSUME UNCHANGED <<state, party_id, server, pending>> PROVE Asks(s)
    BY <1>2 DEF Asks, server
<1>3. CASE \E u \in Users : LogonNotReady(s, u)
  <2>1. /\ state[s] = "WAITING_LOGON" /\ state'[s] = "ZOMBIE"
        /\ UNCHANGED <<server_state, ready, pending>>
        /\ \A t \in Sessions : t # s => state'[t] = state[t] /\ party_id'[t] = party_id[t]
    BY <1>3 DEF LogonNotReady, server, IInv, TypeOK
  <2> QED
    BY <2>1 DEF Asks
<1>4. CASE \E u \in Users : Logon(s, u)
  <2>1. PICK u \in Users : Logon(s, u)
    BY <1>4
  <2> DEFINE id == next_request_id + 1
             m  == [id |-> id, type |-> "LOG_ON_USER", username |-> credentials[u]]
  <2>2. /\ state[s] = "WAITING_LOGON" /\ ready
        /\ UNCHANGED <<server_state, ready>>
        /\ party_id'[s] = credentials[u]
        /\ \A t \in Sessions : t # s => state'[t] = state[t] /\ party_id'[t] = party_id[t]
    BY <2>1 DEF Logon, SendUserRequest, server, IInv, TypeOK
  <2>3. \/ UNCHANGED <<state, pending>>
        \/ pending' = pending \cup {m} /\ state'[s] = "WAITING_CREATE_ROUTE"
    BY <2>1 DEF Logon, SendUserRequest, IInv, TypeOK
  <2>4. m \notin pending
    BY BoundsAssumption DEF IInv, TypeOK, PendingKnown
  <2>5. m.type = "LOG_ON_USER" /\ m.username = credentials[u]
    OBVIOUS
  <2> HIDE DEF m
  <2> QED
    BY <2>2, <2>3, <2>4, <2>5 DEF Asks
<1>5. CASE Logout(s) /\ ~make_zombie(s)
  <2> DEFINE id == next_request_id + 1
             m  == [id |-> id, type |-> "LOG_OFF_USER", username |-> party_id[s]]
  <2>1. /\ state[s] = "READY" /\ ready
        /\ UNCHANGED <<server_state, ready, party_id>>
        /\ \A t \in Sessions : t # s => state'[t] = state[t]
    BY <1>5 DEF Logout, SendUserRequest, server, IInv, TypeOK
  <2>2. \/ UNCHANGED <<state, pending>>
        \/ pending' = pending \cup {m} /\ state'[s] = "WAITING_REMOVE_ROUTE"
    BY <1>5 DEF Logout, SendUserRequest, IInv, TypeOK
  <2>3. m.type = "LOG_OFF_USER" /\ m.username = party_id[s]
    OBVIOUS
  <2> HIDE DEF m
  <2> QED
    BY <2>1, <2>2, <2>3 DEF Asks
<1>6. CASE ClientDisconnected(s) \/ Reject(s) \/ TestRequest(s) \/ ResendRequest(s)
           \/ BusinessRequest(s) \/ (\E u \in Users, valid \in BOOLEAN : LogonRejected(s, u, valid))
    BY <1>1, <1>6 DEF ClientDisconnected, Reject, TestRequest, ResendRequest, BusinessRequest,
                      LogonRejected
<1>7. CASE Heartbeat(s)
    BY <1>1, <1>2, <1>7 DEF Heartbeat
<1>8. CASE Timer(s)
    BY <1>1, <1>2, <1>8 DEF Timer
<1> QED
    BY <1>1, <1>3, <1>4, <1>5, <1>6, <1>7, <1>8 DEF ClientStep

\* The death that an answer brings about asks for no other party than the session's.
LEMMA AnsweredDeathAsks ==
    ASSUME IInv, NEW r \in pending, NEW s \in Sessions, s = user.server_to_client[r.id],
           NEW status \in {"NOT_LOGGED_IN", "OTHER"}, status \in BridgeAnswers(r.type),
           UserResponseFatal(r, s, status) = "no", state[s] # "ABSENT",
           NEW u, u = EraseRequest(UserResponseRoute(r, s, status), s, r.id),
           make_zombie_with(s, u, pending \ {r})
    PROVE  Asks(s)
<1>1. user \in UserMaps /\ r.username \in Parties /\ r.id \in RequestIds
    BY PendingFacts DEF IInv, TypeOK
<1>2. ASSUME NEW v \in UserMaps, v = UserResponseRoute(r, s, status)
      PROVE  u.session_to_client = v.session_to_client
  <2>1. EraseRequest(v, s, r.id).session_to_client = v.session_to_client
    BY DEF EraseRequest, UserMaps
  <2> QED
    BY <1>2, <2>1
<1>3. CASE status = "OTHER"
  <2>1. UserResponseRoute(r, s, status) = user
    BY <1>3 DEF UserResponseRoute
  <2> QED
    BY <1>1, <1>2, <2>1, DeathAsks
<1>4. CASE status = "NOT_LOGGED_IN"
  <2> DEFINE v == user_remove(user, r.username)
  <2>1. UserResponseRoute(r, s, status) = v
    BY <1>4 DEF UserResponseRoute
  <2>2. /\ v \in UserMaps
        /\ \/ v.session_to_client = user.session_to_client
           \/ v.session_to_client =
                [user.session_to_client EXCEPT ![user.client_to_session[r.username]] = None]
    BY <1>1, UserRemoveFacts
  <2> HIDE DEF v
  <2>3. u.session_to_client[s] \in {user.session_to_client[s], None}
    <3>1. user.session_to_client \in [Sessions -> Parties \cup {None}]
      BY <1>1 DEF UserMaps
    <3>2. v.session_to_client[s] \in {user.session_to_client[s], None}
      BY <2>2, <3>1
    <3> QED
      BY <1>2, <2>1, <2>2, <3>2
  <2> QED
    BY <2>3, DeathAsks
<1> QED
    BY <1>3, <1>4

\* So does an answer.
LEMMA UserResponseAsks ==
    ASSUME IInv, NEW r \in pending, NEW status \in {"LOGGED_IN", "NOT_LOGGED_IN", "OTHER"},
           UserResponse(r, status)
    PROVE  Asks(user.server_to_client[r.id])
<1> DEFINE s == user.server_to_client[r.id]
           q == pending \ {r}
           u == EraseRequest(UserResponseRoute(r, s, status), s, r.id)
<1>1. s \in Sessions /\ status \in BridgeAnswers(r.type)
    BY PendingFacts DEF UserResponse
<1>2. ASSUME UNCHANGED <<server_state, ready, party_id>>, pending' \subseteq pending,
             \/ UNCHANGED state
             \/ state[s] = "WAITING_CREATE_ROUTE" /\ state' = [state EXCEPT ![s] = "READY"]
      PROVE  Asks(s)
    BY <1>1, <1>2 DEF Asks, IInv, TypeOK
<1>3. ASSUME make_zombie_with(s, u, q), UserResponseFatal(r, s, status) = "no",
             state[s] # "ABSENT", status # "LOGGED_IN"
      PROVE  Asks(s)
    BY <1>1, <1>3, AnsweredDeathAsks
<1>4. \/ /\ UNCHANGED <<server_state, ready, party_id>>
         /\ pending' \subseteq pending
         /\ \/ UNCHANGED state
            \/ state[s] = "WAITING_CREATE_ROUTE" /\ state' = [state EXCEPT ![s] = "READY"]
      \/ /\ make_zombie_with(s, u, q)
         /\ UserResponseFatal(r, s, status) = "no"
         /\ state[s] # "ABSENT"
         /\ status # "LOGGED_IN"
  <2>1. CASE UserResponseFatal(r, s, status) # "no"
    BY <2>1 DEF UserResponse, session, server
  <2>2. CASE UserResponseFatal(r, s, status) = "no"
    <3>1. ~(state[s] = "WAITING_REMOVE_ROUTE" /\ status = "LOGGED_IN")
      <4> SUFFICES ASSUME state[s] = "WAITING_REMOVE_ROUTE", status = "LOGGED_IN" PROVE FALSE
        OBVIOUS
      <4>1. r.type = "LOG_ON_USER"
        BY <1>1 DEF BridgeAnswers
      <4> QED
        BY <4>1 DEF IInv, OwnRequests
    <3>2. CASE state[s] = "ABSENT"
      BY <2>2, <3>2 DEF UserResponse, session, server
    <3>3. CASE state[s] = "WAITING_CREATE_ROUTE" /\ status = "LOGGED_IN"
      BY <2>2, <3>3 DEF UserResponse, server
    <3>4. CASE make_zombie_with(s, u, q) /\ state[s] # "ABSENT" /\ status # "LOGGED_IN"
      BY <2>2, <3>4
    <3>5. CASE state[s] \in {"WAITING_LOGON", "READY", "ZOMBIE"}
      BY <2>2, <3>5 DEF UserResponse, session, server
    <3> QED
      BY <2>2, <3>1, <3>2, <3>3, <3>4, <3>5 DEF UserResponse
  <2> QED
    BY <2>1, <2>2
<1> QED
    BY <1>2, <1>3, <1>4

-----------------------------------------------------------------------------
(* The bridge's connection.                                                *)

\* ms holds a LOG_ON of party p, or one that no LOG_OFF of p has followed.
IsLogOn(m, p)  == m.type = "LOG_ON_USER" /\ m.party = p
IsLogOff(m, p) == m.type = "LOG_OFF_USER" /\ m.party = p
Asked(ms, p)   == \E j \in DOMAIN ms : IsLogOn(ms[j], p)
Opened(ms, p)  ==
    \E j \in DOMAIN ms :
      IsLogOn(ms[j], p) /\ \A k \in DOMAIN ms : k > j => ~IsLogOff(ms[k], p)

\* The bridge has been asked for the route of everybody past the logon, and to
\* release none but of those on their way out, and of users who share a strategy.
Routed ==
    \A s \in Sessions :
      /\ state[s] \in {"WAITING_CREATE_ROUTE", "READY"} /\ party_id[s] \in Sole =>
           Opened(to_server, party_id[s])
      /\ state[s] \in {"WAITING_CREATE_ROUTE", "READY", "WAITING_REMOVE_ROUTE"} =>
           Asked(to_server, party_id[s])

\* What every step preserves of the bridge's connection.
LinkInv ==
    /\ to_server \in Seq(ToServer)
    /\ outbound = Len(to_server)
    /\ LinkStartsWithLogon
    /\ RequestsAreRouted
    /\ Routed

\* Appending one message.
LEMMA AppendToServer ==
    ASSUME NEW c \in Seq(ToServer), NEW m \in ToServer
    PROVE  /\ Append(c, m) \in Seq(ToServer)
           /\ Len(Append(c, m)) = Len(c) + 1
           /\ DOMAIN Append(c, m) = 1 .. Len(c) + 1
           /\ DOMAIN c = 1 .. Len(c)
           /\ Len(c) \in Nat
           /\ \A i \in 1 .. Len(c) : Append(c, m)[i] = c[i]
           /\ Append(c, m)[Len(c) + 1] = m
OBVIOUS

\* Who has asked for a route has it opened, and a further message changes that
\* only for the party whose LOG_OFF it is.
LEMMA OpenedFacts ==
    ASSUME NEW c \in Seq(ToServer), NEW m \in ToServer, NEW p
    PROVE  /\ Opened(c, p) => Asked(c, p)
           /\ Asked(c, p) => Asked(Append(c, m), p)
           /\ Opened(c, p) /\ ~IsLogOff(m, p) => Opened(Append(c, m), p)
           /\ IsLogOn(m, p) => Opened(Append(c, m), p)
<1> DEFINE d == Append(c, m)
<1>1. /\ DOMAIN d = 1 .. Len(c) + 1 /\ DOMAIN c = 1 .. Len(c) /\ Len(c) \in Nat
      /\ \A i \in 1 .. Len(c) : d[i] = c[i]
      /\ d[Len(c) + 1] = m
    BY AppendToServer
<1> HIDE DEF d
<1>2. Opened(c, p) => Asked(c, p)
    BY DEF Opened, Asked
<1>3. Asked(c, p) => Asked(d, p)
    BY <1>1 DEF Asked
<1>4. Opened(c, p) /\ ~IsLogOff(m, p) => Opened(d, p)
    BY <1>1 DEF Opened
<1>5. IsLogOn(m, p) => Opened(d, p)
    BY <1>1 DEF Opened
<1> QED
    BY <1>2, <1>3, <1>4, <1>5 DEF d

\* One message to the bridge.
LEMMA LinkSend ==
    ASSUME LinkInv,
           NEW type \in {"Logon", "Heartbeat", "TestRequest", "LOG_ON_USER", "LOG_OFF_USER",
                         "Request"},
           NEW party \in Parties \cup {None},
           send_helper(type, party),
           type = "Logon" <=> to_server = <<>>,
           server_state' # "DISCONNECTED",
           server_state' # "READY" => server_state # "READY" /\ type \in {"Logon", "Heartbeat"},
           type \in {"LOG_OFF_USER", "Request"} => Asked(to_server, party),
           type = "Request" /\ party \in Sole => Opened(to_server, party)
    PROVE  /\ to_server' \in Seq(ToServer)
           /\ outbound' = Len(to_server')
           /\ LinkStartsWithLogon'
           /\ RequestsAreRouted'
           /\ \A p : /\ Asked(to_server, p) => Asked(to_server', p)
                     /\ Opened(to_server, p) /\ ~(type = "LOG_OFF_USER" /\ party = p) =>
                          Opened(to_server', p)
           /\ type = "LOG_ON_USER" => Opened(to_server', party) /\ Asked(to_server', party)
<1> DEFINE n == Len(to_server)
           m == [type |-> type, party |-> party, msg_seq_num |-> outbound + 1]
<1>1. to_server \in Seq(ToServer) /\ outbound = n /\ n \in Nat
    BY DEF LinkInv
<1>2. m \in ToServer /\ m.type = type /\ m.party = party /\ m.msg_seq_num = n + 1
    BY <1>1 DEF ToServer
<1>3. to_server' = Append(to_server, m) /\ outbound' = n + 1
    BY <1>1 DEF send_helper
<1> HIDE DEF m
<1>4. /\ to_server' \in Seq(ToServer) /\ Len(to_server') = n + 1
      /\ DOMAIN to_server' = 1 .. n + 1 /\ DOMAIN to_server = 1 .. n
      /\ \A i \in 1 .. n : to_server'[i] = to_server[i]
      /\ to_server'[n + 1] = m
    BY <1>1, <1>2, <1>3, AppendToServer
<1>5. to_server = <<>> <=> n = 0
    BY <1>1
<1> HIDE DEF n
<1>6. LinkStartsWithLogon'
  <2>1. (server_state = "DISCONNECTED" <=> to_server = <<>>)'
    BY <1>1, <1>4
  <2>2. \A i \in 1 .. n : /\ to_server[i].msg_seq_num = i
                          /\ to_server[i].type = "Logon" <=> i = 1
                          /\ i > 1 /\ server_state # "READY" => to_server[i].type = "Heartbeat"
    BY <1>4 DEF LinkInv, LinkStartsWithLogon
  <2>3. \A i \in 1 .. n + 1 :
          /\ to_server'[i].msg_seq_num = i
          /\ to_server'[i].type = "Logon" <=> i = 1
          /\ i > 1 /\ server_state' # "READY" => to_server'[i].type = "Heartbeat"
    <3> TAKE i \in 1 .. n + 1
    <3>1. CASE i = n + 1
      BY <1>1, <1>2, <1>4, <1>5, <3>1
    <3>2. CASE i # n + 1
      <4>1. i \in 1 .. n
        BY <1>1, <3>2
      <4> QED
        BY <1>4, <2>2, <4>1
    <3> QED
      BY <3>1, <3>2
  <2> QED
    BY <1>4, <2>1, <2>3 DEF LinkStartsWithLogon
<1>7. RequestsAreRouted'
  <2> DEFINE RoutedAt(c, i) ==
        c[i].type \in {"Request", "LOG_OFF_USER"} =>
          \E j \in 1 .. i - 1 :
            /\ IsLogOn(c[j], c[i].party)
            /\ c[i].type = "Request" /\ c[i].party \in Sole =>
                 \A k \in j .. i - 1 : ~IsLogOff(c[k], c[i].party)
  <2>1. \A i \in 1 .. n : RoutedAt(to_server, i)
    BY <1>4 DEF LinkInv, RequestsAreRouted, IsLogOn, IsLogOff
  <2>2. \A i \in 1 .. n : RoutedAt(to_server', i)
    <3> TAKE i \in 1 .. n
    <3>1. \A j \in 1 .. i : to_server'[j] = to_server[j]
      BY <1>1, <1>4
    <3>2. \A j \in 1 .. i - 1 : j \in 1 .. i /\ \A k \in j .. i - 1 : k \in 1 .. i
      BY <1>1
    <3>3. to_server'[i] = to_server[i]
      BY <1>4
    <3> QED
      BY <2>1, <3>1, <3>2, <3>3
  <2>3. ASSUME NEW i, i = n + 1
        PROVE  RoutedAt(to_server', i)
    <3>1. ASSUME type \in {"LOG_OFF_USER", "Request"}
          PROVE  \E j \in 1 .. n : IsLogOn(to_server'[j], party)
      BY <1>4, <3>1 DEF Asked
    <3>2. ASSUME type = "Request", party \in Sole
          PROVE  \E j \in 1 .. n :
                   /\ IsLogOn(to_server'[j], party)
                   /\ \A k \in j .. n : ~IsLogOff(to_server'[k], party)
      <4>1. PICK j \in 1 .. n : /\ IsLogOn(to_server[j], party)
                                /\ \A k \in 1 .. n : k > j => ~IsLogOff(to_server[k], party)
        BY <1>4, <3>2 DEF Opened
      <4>2. \A k \in j .. n : ~IsLogOff(to_server[k], party)
        BY <1>1, <4>1 DEF IsLogOn, IsLogOff
      <4>3. \A k \in j .. n : to_server'[k] = to_server[k]
        BY <1>1, <1>4
      <4> QED
        BY <1>4, <4>1, <4>2, <4>3
    <3>3. i - 1 = n /\ to_server'[i].type = type /\ to_server'[i].party = party
      BY <1>1, <1>2, <1>4, <2>3
    <3>4. ASSUME type \in {"Request", "LOG_OFF_USER"}
          PROVE  \E j \in 1 .. i - 1 :
                   /\ IsLogOn(to_server'[j], party)
                   /\ type = "Request" /\ party \in Sole =>
                        \A k \in j .. i - 1 : ~IsLogOff(to_server'[k], party)
      <4>1. CASE type = "Request" /\ party \in Sole
        BY <3>2, <3>3, <4>1
      <4>2. CASE ~(type = "Request" /\ party \in Sole)
        BY <3>1, <3>3, <3>4, <4>2
      <4> QED
        BY <4>1, <4>2
    <3> QED
      BY <3>3, <3>4
  <2>4. \A i \in 1 .. n + 1 : RoutedAt(to_server', i)
    BY <1>1, <2>2, <2>3
  <2> QED
    BY <1>4, <2>4 DEF RequestsAreRouted, IsLogOn, IsLogOff
<1>8. /\ \A p : /\ Asked(to_server, p) => Asked(to_server', p)
                /\ Opened(to_server, p) /\ ~(type = "LOG_OFF_USER" /\ party = p) =>
                     Opened(to_server', p)
      /\ type = "LOG_ON_USER" => Opened(to_server', party) /\ Asked(to_server', party)
    BY <1>1, <1>2, <1>3, <1>4, OpenedFacts DEF IsLogOn, IsLogOff
<1> QED
    BY <1>3, <1>4, <1>6, <1>7, <1>8

\* Nothing is sent and the bridge's connection stays as it is.
LEMMA LinkQuiet ==
    ASSUME LinkInv, UNCHANGED <<to_server, outbound, server_state>>,
           \A s \in Sessions :
             \/ state'[s] = state[s] /\ party_id'[s] = party_id[s]
             \/ state'[s] \in {"ABSENT", "WAITING_LOGON", "ZOMBIE"}
    PROVE  LinkInv'
<1>1. LinkStartsWithLogon'
    BY DEF LinkInv, LinkStartsWithLogon
<1>2. RequestsAreRouted'
    BY DEF LinkInv, RequestsAreRouted
<1>3. Routed'
    BY DEF LinkInv, Routed
<1> QED
    BY <1>1, <1>2, <1>3 DEF LinkInv

\* A message that is no user request.
LEMMA LinkPlain ==
    ASSUME LinkInv, NEW type \in {"Logon", "Heartbeat", "TestRequest", "Request"},
           NEW party \in Parties \cup {None}, send_helper(type, party),
           UNCHANGED <<state, party_id>>,
           type = "Logon" <=> to_server = <<>>,
           server_state' # "DISCONNECTED",
           server_state' # "READY" => server_state # "READY" /\ type \in {"Logon", "Heartbeat"},
           type = "Request" => Asked(to_server, party),
           type = "Request" /\ party \in Sole => Opened(to_server, party)
    PROVE  LinkInv'
<1>1. /\ to_server' \in Seq(ToServer)
      /\ outbound' = Len(to_server')
      /\ LinkStartsWithLogon'
      /\ RequestsAreRouted'
      /\ \A p : /\ Asked(to_server, p) => Asked(to_server', p)
                /\ Opened(to_server, p) => Opened(to_server', p)
    BY LinkSend
<1>2. Routed'
    BY <1>1 DEF LinkInv, Routed
<1> QED
    BY <1>1, <1>2 DEF LinkInv

\* A step of one session, with the user request that it sends.
LEMMA LinkAsks ==
    ASSUME IInv, IInv', LinkInv, NEW s \in Sessions, Asks(s), SendIfUserRequest
    PROVE  LinkInv'
<1>1. /\ UNCHANGED <<server_state, ready>>
      /\ \A t \in Sessions : t # s => state'[t] = state[t] /\ party_id'[t] = party_id[t]
      /\ state[s] # "WAITING_LOGON" => party_id'[s] = party_id[s]
      /\ state'[s] = "READY" => state[s] \in {"READY", "WAITING_CREATE_ROUTE"}
      /\ state'[s] = "WAITING_REMOVE_ROUTE" => state[s] \in {"READY", "WAITING_REMOVE_ROUTE"}
    BY DEF Asks
<1>2. \A p : Opened(to_server, p) => Asked(to_server, p)
    BY DEF Opened, Asked
<1>3. CASE pending' \subseteq pending /\ UNCHANGED <<to_server, outbound>>
  <2>1. state'[s] = "WAITING_CREATE_ROUTE" => state[s] = "WAITING_CREATE_ROUTE"
    BY <1>3 DEF Asks
  <2>2. LinkStartsWithLogon' /\ RequestsAreRouted'
    BY <1>1, <1>3 DEF LinkInv, LinkStartsWithLogon, RequestsAreRouted
  <2>3. Routed'
    BY <1>1, <1>2, <1>3, <2>1 DEF LinkInv, Routed
  <2> QED
    BY <1>3, <2>2, <2>3 DEF LinkInv
<1>4. ASSUME NEW r \in pending' \ pending, send_helper(r.type, r.username)
      PROVE  LinkInv'
  <2>1. r.type \in {"LOG_ON_USER", "LOG_OFF_USER"} /\ r.username \in Parties
    BY <1>4 DEF IInv, TypeOK, UserRequest
  <2>2. ready /\ server_state = "READY" /\ server_state' = "READY" /\ to_server # <<>>
    BY <1>1, <1>4 DEF Asks, IInv, BridgeDownDropsSessions, LinkInv, LinkStartsWithLogon
  <2>3. /\ r.type = "LOG_ON_USER" =>
             /\ state[s] = "WAITING_LOGON" /\ state'[s] = "WAITING_CREATE_ROUTE"
             /\ r.username = party_id'[s]
        /\ r.type = "LOG_OFF_USER" =>
             /\ state[s] \in {"READY", "WAITING_REMOVE_ROUTE"}
             /\ state'[s] \in {"WAITING_REMOVE_ROUTE", "ZOMBIE"}
             /\ r.username = party_id[s]
    BY <1>4 DEF Asks
  <2>4. r.type = "LOG_OFF_USER" => Asked(to_server, r.username)
    BY <1>2, <2>3 DEF LinkInv, Routed
  <2>5. /\ to_server' \in Seq(ToServer)
        /\ outbound' = Len(to_server')
        /\ LinkStartsWithLogon'
        /\ RequestsAreRouted'
        /\ \A p : /\ Asked(to_server, p) => Asked(to_server', p)
                  /\ Opened(to_server, p) /\ ~(r.type = "LOG_OFF_USER" /\ r.username = p) =>
                       Opened(to_server', p)
        /\ r.type = "LOG_ON_USER" => Opened(to_server', r.username) /\ Asked(to_server', r.username)
    BY <1>4, <2>1, <2>2, <2>4, LinkSend
  <2>6. ASSUME NEW t \in Sessions, t # s
        PROVE  /\ state'[t] \in {"WAITING_CREATE_ROUTE", "READY"} /\ party_id'[t] \in Sole =>
                    Opened(to_server', party_id'[t])
               /\ state'[t] \in {"WAITING_CREATE_ROUTE", "READY", "WAITING_REMOVE_ROUTE"} =>
                    Asked(to_server', party_id'[t])
    <3>1. /\ state[t] \in {"WAITING_CREATE_ROUTE", "READY"} /\ party_id[t] \in Sole =>
               Opened(to_server, party_id[t])
          /\ state[t] \in {"WAITING_CREATE_ROUTE", "READY", "WAITING_REMOVE_ROUTE"} =>
               Asked(to_server, party_id[t])
      BY DEF LinkInv, Routed
    <3>2. ASSUME state[t] \in {"WAITING_CREATE_ROUTE", "READY"}, party_id[t] \in Sole,
                 r.type = "LOG_OFF_USER"
          PROVE  party_id[t] # r.username
      BY <2>3, <2>6, <3>2, PartiesDiffer DEF LoggedOn
    <3> QED
      BY <1>1, <2>5, <2>6, <3>1, <3>2
  <2>7. /\ state'[s] \in {"WAITING_CREATE_ROUTE", "READY"} => Opened(to_server', party_id'[s])
        /\ state'[s] \in {"WAITING_CREATE_ROUTE", "READY", "WAITING_REMOVE_ROUTE"} =>
             Asked(to_server', party_id'[s])
    <3>1. CASE r.type = "LOG_ON_USER"
      BY <2>3, <2>5, <3>1
    <3>2. CASE r.type = "LOG_OFF_USER"
      BY <1>1, <2>3, <2>4, <2>5, <3>2
    <3> QED
      BY <2>1, <3>1, <3>2
  <2>8. Routed'
    BY <2>6, <2>7 DEF Routed
  <2> QED
    BY <2>5, <2>8 DEF LinkInv
<1> QED
    BY <1>3, <1>4 DEF SendIfUserRequest

\* What reading from a client can mean for the bridge's connection.
LEMMA ReadAsks ==
    ASSUME NEW s \in Sessions, Read(s)
    PROVE  \/ UNCHANGED <<vars, link>>
           \/ PassOn(s)
           \/ ClientStep(s) /\ SendIfUserRequest
<1>1. CASE ReadReject(s)
    BY <1>1 DEF ReadReject, ClientStep
<1>2. CASE ReadTestRequest(s)
    BY <1>2 DEF ReadTestRequest, OnlySend, ClientStep
<1>3. CASE ReadResendRequest(s)
    BY <1>3 DEF ReadResendRequest, ClientStep
<1>4. CASE ReadHeartbeat(s)
    BY <1>4 DEF ReadHeartbeat, ClientStep
<1>5. CASE ReadBusinessRequest(s)
    BY <1>5 DEF ReadBusinessRequest, OnlySend, ClientStep
<1>6. CASE ReadUnsupported(s)
    BY <1>6 DEF ReadUnsupported, OnlySend
<1>7. CASE ReadLogon(s)
    BY <1>7 DEF ReadLogon, ClientStep
<1>8. CASE ReadLogout(s)
    BY <1>8 DEF ReadLogout, ClientStep
<1> QED
    BY <1>1, <1>2, <1>3, <1>4, <1>5, <1>6, <1>7, <1>8 DEF Read

\* A client's request is passed on in the name of a READY session.
LEMMA PassOnStep ==
    ASSUME IInv, LinkInv, NEW s \in Sessions, PassOn(s)
    PROVE  LinkInv'
<1>1. /\ state[s] = "READY" /\ send_helper("Request", party_id[s])
      /\ UNCHANGED <<state, party_id, server_state>>
    BY DEF PassOn, vars, session, server
<1>2. s \in LoggedOn
    BY <1>1 DEF LoggedOn
<1>3. server_state = "READY" /\ to_server # <<>>
    BY <1>2 DEF IInv, BridgeDownDropsSessions, LinkInv, LinkStartsWithLogon
<1>4. /\ Asked(to_server, party_id[s]) /\ party_id[s] \in Parties \cup {None}
      /\ party_id[s] \in Sole => Opened(to_server, party_id[s])
    BY <1>1 DEF LinkInv, Routed, IInv, TypeOK
<1> QED
    BY <1>1, <1>3, <1>4, LinkPlain

\* The connection comes up, is used for pings, and goes.
LEMMA ServerLinkStep ==
    ASSUME IInv, IInv', LinkInv,
           \/ Connected \/ Dropped \/ ReadServerLogon \/ ReadServerLogout
           \/ ReadServerTestRequest \/ ServerTimer
    PROVE  LinkInv'
<1>1. to_server = <<>> <=> server_state = "DISCONNECTED"
    BY DEF LinkInv, LinkStartsWithLogon
<1>2. CASE Connected
  <2>1. /\ server_state = "DISCONNECTED" /\ server_state' = "LOGON_SENT"
        /\ send_helper("Logon", None) /\ UNCHANGED <<state, party_id>>
    BY <1>2 DEF Connected, ServerConnected, session
  <2> QED
    BY <1>1, <2>1, LinkPlain
<1>3. CASE Dropped
  <2>1. to_server' = <<>> /\ outbound' = 0 /\ server_state' = "DISCONNECTED" /\ ready' = FALSE
    BY <1>3 DEF Dropped, ServerDisconnected
  <2>2. LoggedOn' = {}
    BY <2>1 DEF IInv, BridgeDownDropsSessions
  <2>3. LinkStartsWithLogon' /\ RequestsAreRouted'
    BY <2>1 DEF LinkStartsWithLogon, RequestsAreRouted
  <2>4. Routed'
    BY <2>2 DEF Routed, LoggedOn
  <2> QED
    BY <2>1, <2>3, <2>4 DEF LinkInv
<1>4. CASE ReadServerLogon
  <2>1. /\ server_state = "LOGON_SENT" /\ server_state' = "READY"
        /\ UNCHANGED <<to_server, outbound, state, party_id>>
    BY <1>4 DEF ReadServerLogon, ServerLogon, link, session
  <2>2. LinkStartsWithLogon' /\ RequestsAreRouted' /\ Routed'
    BY <1>1, <2>1 DEF LinkInv, LinkStartsWithLogon, RequestsAreRouted, Routed
  <2> QED
    BY <2>1, <2>2 DEF LinkInv
<1>5. CASE ReadServerLogout
    BY <1>5, LinkQuiet DEF ReadServerLogout, vars, session, server
<1>6. CASE ReadServerTestRequest
  <2>1. /\ server_state # "DISCONNECTED" /\ send_helper("Heartbeat", None)
        /\ UNCHANGED <<state, party_id, server_state>>
    BY <1>6 DEF ReadServerTestRequest, vars, session, server
  <2> QED
    BY <1>1, <2>1, LinkPlain
<1>7. CASE ServerTimer
  <2>1. /\ server_state = "READY" /\ send_helper("TestRequest", None)
        /\ UNCHANGED <<state, party_id, server_state>>
    BY <1>7 DEF ServerTimer, vars, session, server
  <2> QED
    BY <1>1, <2>1, LinkPlain
<1> QED
    BY <1>2, <1>3, <1>4, <1>5, <1>6, <1>7

\* Every step keeps the bridge's connection in order.
LEMMA LinkInvStep == IInv /\ LinkInv /\ [WireNext]_wireVars => LinkInv'
<1> SUFFICES ASSUME IInv, LinkInv, [WireNext]_wireVars PROVE LinkInv'
    OBVIOUS
<1>1. IInv'
    BY WireStep, NextIInv
<1>2. ASSUME UNCHANGED <<vars, link>> PROVE LinkInv'
    BY <1>2, LinkQuiet DEF vars, session, server, link
<1>3. ASSUME NEW s \in Sessions, Read(s) PROVE LinkInv'
    BY <1>1, <1>2, <1>3, ReadAsks, ClientAsks, PassOnStep, LinkAsks
<1>4. ASSUME NEW s \in Sessions, Broken(s) \/ ClientTimer(s) PROVE LinkInv'
  <2>1. (ClientStep(s) \/ Timer(s)) /\ SendIfUserRequest
    BY <1>4 DEF Broken, ClientTimer, ClientStep
  <2> QED
    BY <1>1, <2>1, ClientAsks, LinkAsks
<1>5. ASSUME NEW s \in Sessions, Answer(s) PROVE LinkInv'
    BY <1>2, <1>5 DEF Answer, OnlySend
<1>6. ASSUME NEW r \in pending, NEW status \in {"LOGGED_IN", "NOT_LOGGED_IN", "OTHER"},
             ReadUserResponse(r, status)
      PROVE  LinkInv'
  <2>1. UserResponse(r, status) /\ SendIfUserRequest /\ user.server_to_client[r.id] \in Sessions
    BY <1>6, PendingFacts DEF ReadUserResponse
  <2> QED
    BY <1>1, <2>1, UserResponseAsks, LinkAsks
<1>7. CASE Collect
  <2>1. /\ UNCHANGED <<to_server, outbound, server_state>>
        /\ state' = [s \in Sessions |-> IF s \in Zombies THEN "ABSENT" ELSE state[s]]
        /\ party_id' = [s \in Sessions |-> IF s \in Zombies THEN None ELSE party_id[s]]
    BY <1>7 DEF Collect, remove_zombies, link, server
  <2> QED
    BY <2>1, LinkQuiet
<1>8. CASE Elsewhere
  <2>1. /\ UNCHANGED <<to_server, outbound, server_state, party_id>>
        /\ \/ UNCHANGED state
           \/ state' = [state EXCEPT ![next_session_id + 1] = "WAITING_LOGON"]
    BY <1>8 DEF Elsewhere, Accept, AuthStep, add_user, remove_user, link, server, session
  <2> QED
    BY <2>1, LinkQuiet DEF IInv, TypeOK
<1>9. CASE UNCHANGED wireVars
    BY <1>2, <1>9 DEF wireVars
<1> QED
    BY <1>1, <1>3, <1>4, <1>5, <1>6, <1>7, <1>8, <1>9, ServerLinkStep DEF WireNext

\* The invariant of the bridge's connection, and what it says of every one.
THEOREM Link == WireSpec => []LinkInv
<1>1. WireInit => LinkInv
    BY DEF WireInit, Init, LinkInv, LinkStartsWithLogon, RequestsAreRouted, Routed
<1> QED
    BY <1>1, LinkInvStep, WireKeepsIInv, PTL DEF WireSpec

\* On each connection to the bridge the Logon comes first, the numbers have no
\* gap, and until the bridge has answered only Heartbeats follow.
THEOREM LinksStartWithLogon == WireSpec => []LinkStartsWithLogon
<1>1. LinkInv => LinkStartsWithLogon
    BY DEF LinkInv
<1> QED
    BY <1>1, Link, PTL

\* The bridge sees no request of a party that it does not have logged on.
THEOREM RequestsAreAllRouted == WireSpec => []RequestsAreRouted
<1>1. LinkInv => RequestsAreRouted
    BY DEF LinkInv
<1> QED
    BY <1>1, Link, PTL

-----------------------------------------------------------------------------
(* Types.                                                                  *)

\* The note that the bridge's Logout was read is a note of yes or no.
LogoutReadTyped == logout_read \in BOOLEAN

\* Every step keeps it so.
LEMMA LogoutReadStep == LogoutReadTyped /\ [WireNext]_wireVars => LogoutReadTyped'
<1> SUFFICES ASSUME LogoutReadTyped, [WireNext]_wireVars PROVE LogoutReadTyped'
    OBVIOUS
<1>1. ASSUME NEW s \in Sessions, Read(s) PROVE UNCHANGED logout_read
    BY <1>1 DEF Read, ReadReject, ReadTestRequest, ReadResendRequest, ReadHeartbeat,
                ReadBusinessRequest, PassOn, ReadUnsupported, ReadLogon, ReadLogout, OnlySend,
                SendIfUserRequest, link
<1>2. ASSUME NEW s \in Sessions, Broken(s) \/ ClientTimer(s) \/ Answer(s)
      PROVE  UNCHANGED logout_read
    BY <1>2 DEF Broken, ClientTimer, Answer, OnlySend, SendIfUserRequest, link
<1>3. CASE \E r \in pending, status \in {"LOGGED_IN", "NOT_LOGGED_IN", "OTHER"} :
             ReadUserResponse(r, status)
    BY <1>3 DEF ReadUserResponse, SendIfUserRequest, LogoutReadTyped
<1>4. CASE Connected \/ Dropped \/ ReadServerLogon \/ ReadServerLogout
           \/ ReadServerTestRequest \/ ServerTimer
    BY <1>4 DEF Connected, Dropped, ReadServerLogon, ReadServerLogout, ReadServerTestRequest,
                ServerTimer, link, LogoutReadTyped
<1>5. CASE Collect \/ Elsewhere \/ UNCHANGED wireVars
    BY <1>5 DEF Collect, Elsewhere, link, wireVars, LogoutReadTyped
<1> QED
    BY <1>1, <1>2, <1>3, <1>4, <1>5, Zenon DEF WireNext, LogoutReadTyped

\* Every variable of Wire keeps its type: the invariants of the conversations and
\* of the bridge's connection say it of what is written.
THEOREM WireTypes == WireSpec => []WireTypeOK
<1>1. WireInit => LogoutReadTyped
    BY DEF WireInit, LogoutReadTyped
<1>2. WireSpec => []LogoutReadTyped
    BY <1>1, LogoutReadStep, PTL DEF WireSpec
<1>3. IInv /\ ClientInv /\ LinkInv /\ LogoutReadTyped => WireTypeOK
  <2>1. LinkInv => outbound \in Nat
    BY DEF LinkInv
  <2> QED
    BY <2>1 DEF IInv, ClientInv, LinkInv, LogoutReadTyped, WireTypeOK
<1> QED
    BY <1>2, <1>3, WireKeepsIInv, Conversations, Link, PTL

-----------------------------------------------------------------------------
(* What clients are told.                                                  *)

\* A session that awaits its release has one request outstanding for its party, if no
\* other user has that.
SoleLogOff ==
    \A s \in Sessions : state[s] = "WAITING_REMOVE_ROUTE" /\ party_id[s] \in Sole =>
      \A q, r \in pending : q.username = party_id[s] /\ r.username = party_id[s] => q = r

\* A step of one session, which may ask for something.
LEMMA SoleLogOffAsks ==
    ASSUME IInv, IInv', SoleLogOff, NEW s \in Sessions, Asks(s)
    PROVE  SoleLogOff'
<1> SUFFICES ASSUME NEW t \in Sessions, state'[t] = "WAITING_REMOVE_ROUTE",
                    party_id'[t] \in Sole, NEW q \in pending', NEW r \in pending',
                    q.username = party_id'[t], r.username = party_id'[t]
             PROVE  q = r
    BY DEF SoleLogOff
<1>1. q.type = "LOG_OFF_USER" /\ r.type = "LOG_OFF_USER"
    BY DEF IInv, RemoveIsAlone
<1>2. CASE t # s
  <2>1. state[t] = "WAITING_REMOVE_ROUTE" /\ party_id'[t] = party_id[t]
    BY <1>2 DEF Asks
  <2>2. ASSUME NEW m \in pending' \ pending, m.type = "LOG_OFF_USER"
        PROVE  m.username # party_id[t]
    BY <1>2, <2>1, <2>2, PartiesDiffer DEF Asks, LoggedOn
  <2>3. q \in pending /\ r \in pending
    BY <1>1, <2>1, <2>2
  <2> QED
    BY <2>1, <2>3 DEF SoleLogOff
<1>3. CASE t = s
  <2>1. state[s] \in {"READY", "WAITING_REMOVE_ROUTE"} /\ party_id'[s] = party_id[s]
    BY <1>3 DEF Asks
  <2>2. CASE state[s] = "READY"
    <3>1. q \notin pending /\ r \notin pending
      BY <1>3, <2>1, <2>2 DEF IInv, ReadyIsQuiet
    <3> QED
      BY <3>1 DEF Asks
  <2>3. CASE state[s] = "WAITING_REMOVE_ROUTE"
    <3>1. q \in pending /\ r \in pending
      BY <1>1, <1>3, <2>3 DEF Asks
    <3> QED
      BY <1>3, <2>1, <2>3, <3>1 DEF SoleLogOff
  <2> QED
    BY <2>1, <2>2, <2>3
<1> QED
    BY <1>2, <1>3

\* Every step keeps it so.
LEMMA SoleLogOffStep == IInv /\ SoleLogOff /\ [Next]_vars => SoleLogOff'
<1> SUFFICES ASSUME IInv, SoleLogOff, [Next]_vars PROVE SoleLogOff'
    OBVIOUS
<1>1. IInv'
    BY NextIInv
<1>2. ASSUME pending' \subseteq pending,
             \A s \in Sessions : state'[s] = "WAITING_REMOVE_ROUTE" =>
               state[s] = "WAITING_REMOVE_ROUTE" /\ party_id'[s] = party_id[s]
      PROVE  SoleLogOff'
    BY <1>2 DEF SoleLogOff
<1>3. ASSUME NEW s \in Sessions, ClientStep(s) \/ Timer(s) PROVE SoleLogOff'
    BY <1>1, <1>3, ClientAsks, SoleLogOffAsks
<1>4. ASSUME NEW r \in pending, NEW status \in {"LOGGED_IN", "NOT_LOGGED_IN", "OTHER"},
             UserResponse(r, status)
      PROVE  SoleLogOff'
    BY <1>1, <1>4, PendingFacts, UserResponseAsks, SoleLogOffAsks
<1>5. CASE ServerConnected \/ ServerLogon \/ UNCHANGED vars \/ AuthStep
    BY <1>2, <1>5 DEF ServerConnected, ServerLogon, AuthStep, add_user, remove_user, vars, session
<1>6. CASE ServerDisconnected
    BY <1>6 DEF ServerDisconnected, SoleLogOff
<1>7. CASE Accept
    BY <1>2, <1>7 DEF Accept, IInv, TypeOK
<1>8. CASE remove_zombies
    BY <1>2, <1>8 DEF remove_zombies
<1> QED
    BY <1>3, <1>4, <1>5, <1>6, <1>7, <1>8 DEF Next, ServerStep, TimerStep

\* What was said in a turn was said to the session whose turn it is.
LEMMA SaidFacts ==
    ASSUME ClientInv, NEW s \in Sessions, NEW ms, Turn(s, ms), send(s, ms),
           NEW t \in Sessions, NEW m, Said(t, m)
    PROVE  t = s /\ ms = <<m>>
<1> DEFINE c == to_client[s]
<1>1. /\ c \in Seq(ToClient)
      /\ to_client'[s] = c \o ms
      /\ \A x \in Sessions : x # s => to_client'[x] = to_client[x]
      /\ \A x \in Sessions : Len(to_client[x]) \in Nat
    BY DEF ClientInv, send
<1>2. t = s
    BY <1>1 DEF Said
<1>3. ms # <<>>
    BY <1>1, <1>2 DEF Said
<1>4. PICK k \in ToClient : ms = <<k>>
    BY <1>3 DEF Turn, ToClient, Farewells
<1>5. (c \o <<k>>)[Len(c) + 1] = k /\ Len(c \o <<k>>) = Len(c) + 1
    BY <1>1, AppendOne
<1> QED
    BY <1>1, <1>2, <1>4, <1>5 DEF Said

\* The answer by which it is READY makes a session's route its own.
LEMMA LogonTruth ==
    ASSUME IInv, NEW r \in pending, NEW s \in Sessions, s = user.server_to_client[r.id],
           state[s] = "WAITING_CREATE_ROUTE", UserResponse(r, "LOGGED_IN"), fatal' = "no"
    PROVE  ready /\ user'.client_to_session[party_id[s]] = s
<1> DEFINE p == party_id[s]
<1>1. ready /\ r.username = p
    BY DEF IInv, BridgeDownDropsSessions, PendingKnown, LoggedOn
<1>2. user' = EraseRequest(UserResponseRoute(r, s, "LOGGED_IN"), s, r.id)
    BY DEF UserResponse
<1>3. UserResponseRoute(r, s, "LOGGED_IN") = user_add(user, p, s)
    BY <1>1 DEF UserResponseRoute
<1>4. user'.client_to_session = [user.client_to_session EXCEPT ![p] = s]
  <2>1. user \in UserMaps
    BY DEF IInv, TypeOK
  <2> HIDE DEF p
  <2> QED
    BY <1>2, <1>3, <2>1 DEF EraseRequest, user_add, UserMaps
<1>5. p \in Parties /\ user \in UserMaps
    BY <1>1, PendingFacts DEF IInv, TypeOK
<1> HIDE DEF p
<1>6. user'.client_to_session[p] = s
    BY <1>4, <1>5 DEF UserMaps
<1> QED
    BY <1>1, <1>6 DEF p

\* Until an answer a session's route is its own.
LEMMA ReadyTruth ==
    ASSUME IInv, IInv', NEW s \in Sessions, state[s] = "READY", state'[s] = "READY",
           party_id'[s] = party_id[s]
    PROVE  ready /\ (party_id[s] \in Sole => user'.client_to_session[party_id[s]] = s)
<1>1. ready
    BY DEF IInv, BridgeDownDropsSessions, LoggedOn
<1> QED
    BY <1>1 DEF IInv, ReadyOwnsRoute

\* After the answer that confirms its logout, nobody has a session's route and
\* nothing is outstanding for its party.
LEMMA GoodbyeTruth ==
    ASSUME IInv, SoleLogOff, NEW r \in pending, NEW s \in Sessions,
           s = user.server_to_client[r.id], state[s] = "WAITING_REMOVE_ROUTE",
           UserResponse(r, "NOT_LOGGED_IN"), fatal' = "no"
    PROVE  /\ user'.client_to_session[party_id[s]] = None
           /\ party_id[s] \in Sole => \A q \in pending' : q.username # party_id[s]
<1> DEFINE p == party_id[s]
           v == user_remove(user, p)
           u == EraseRequest(v, s, r.id)
<1>1. /\ r.username = p /\ p \in Parties /\ user \in UserMaps /\ r.id \in RequestIds
      /\ user.session_to_client[s] = None \/ user.client_to_session[p] = s
    <2>1. r.username = p /\ s \in LoggedOn
      BY DEF IInv, PendingKnown, LoggedOn
    <2> QED
      BY <2>1, PendingFacts DEF IInv, TypeOK, OwnRoute, RoutesInverse
<1>2. UserResponseFatal(r, s, "NOT_LOGGED_IN") = "no"
    BY DEF UserResponse
<1>3. UserResponseRoute(r, s, "NOT_LOGGED_IN") = v
    BY <1>1 DEF UserResponseRoute
<1>4. make_zombie_with(s, EraseRequest(UserResponseRoute(r, s, "NOT_LOGGED_IN"), s, r.id),
                       pending \ {r})
    BY <1>2 DEF UserResponse
<1>5. make_zombie_with(s, u, pending \ {r})
    BY <1>3, <1>4
<1>6. /\ v \in UserMaps
      /\ v.client_to_session = [user.client_to_session EXCEPT ![p] = None]
      /\ v.session_to_client[s] = None
  <2>1. /\ v \in UserMaps
        /\ v.client_to_session = [user.client_to_session EXCEPT ![p] = None]
        /\ user.client_to_session[p] = None => v.session_to_client = user.session_to_client
        /\ user.client_to_session[p] # None =>
             v.session_to_client = [user.session_to_client EXCEPT ![user.client_to_session[p]] = None]
    BY <1>1, UserRemoveFacts
  <2>2. s # None /\ user.session_to_client \in [Sessions -> Parties \cup {None}]
    BY <1>1, NoneAssumption, BoundsAssumption DEF Sessions, UserMaps
  <2> HIDE DEF v, p
  <2>3. v.session_to_client[s] = None
    <3>1. CASE user.client_to_session[p] = s
      BY <2>1, <2>2, <3>1
    <3>2. CASE user.session_to_client[s] = None
      BY <2>1, <2>2, <3>2
    <3> QED
      BY <1>1, <3>1, <3>2
  <2> QED
    BY <2>1, <2>3
<1> HIDE DEF v
<1>7. u.client_to_session = v.client_to_session /\ u.session_to_client = v.session_to_client
    BY <1>6 DEF EraseRequest, UserMaps
<1>8. u.client_to_session[p] = None /\ u.session_to_client[s] = None
  <2>1. user.client_to_session \in [Parties -> Sessions \cup {None}]
    BY <1>1 DEF UserMaps
  <2> QED
    BY <1>1, <1>6, <1>7, <2>1
<1> HIDE DEF u
<1>9. user' = u /\ pending' = pending \ {r}
    BY <1>5, <1>8 DEF make_zombie_with, Disconnected
<1>10. p \in Sole => \A q \in pending \ {r} : q.username # p
    BY <1>1 DEF SoleLogOff
<1> QED
    BY <1>8, <1>9, <1>10

\* What a session is told when it is its turn is so.
LEMMA TurnTruth ==
    ASSUME IInv, IInv', ClientInv, NEW s \in Sessions, NEW ms, Turn(s, ms), send(s, ms),
           party_id'[s] = party_id[s] \/ state[s] = "WAITING_LOGON",
           ms = <<"Logon">> => ready /\ user'.client_to_session[party_id[s]] = s,
           ms = <<"Goodbye">> =>
             /\ user'.client_to_session[party_id[s]] = None
             /\ party_id[s] \in Sole => \A q \in pending' : q.username # party_id[s]
    PROVE  \A t \in Sessions : Truthful(t)
<1> TAKE t \in Sessions
<1>1. ASSUME NEW m, Said(t, m)
      PROVE  t = s /\ ms = <<m>>
    BY <1>1, SaidFacts
<1>2. Said(t, "Answer") =>
        ready /\ (party_id[t] \in Sole => user'.client_to_session[party_id[t]] = t)
  <2> SUFFICES ASSUME Said(t, "Answer")
               PROVE  ready /\ (party_id[t] \in Sole => user'.client_to_session[party_id[t]] = t)
    OBVIOUS
  <2>1. t = s /\ state[s] = "READY" /\ state'[s] = "READY" /\ party_id'[s] = party_id[s]
    BY <1>1 DEF Turn
  <2> QED
    BY <2>1, ReadyTruth
<1> QED
    BY <1>1, <1>2 DEF Truthful

\* Nothing is said to anybody.
LEMMA NothingSaid ==
    ASSUME ClientInv,
           \A s \in Sessions : to_client'[s] = to_client[s] \/ to_client'[s] = <<>>
    PROVE  \A s \in Sessions, m \in ToClient : ~Said(s, m)
<1>1. \A s \in Sessions : Len(to_client[s]) \in Nat
    BY DEF ClientInv
<1> QED
    BY <1>1 DEF Said

\* What clients are told is so at that moment, in every step of every behaviour.
LEMMA TruthStep ==
    ASSUME IInv, ClientInv, SoleLogOff, [WireNext]_wireVars
    PROVE  \A s \in Sessions : Truthful(s)
<1> DEFINE Goal == \A s \in Sessions : Truthful(s)
<1>1. IInv'
    BY WireStep, NextIInv
<1>2. ASSUME \A s \in Sessions : to_client'[s] = to_client[s] \/ to_client'[s] = <<>>
      PROVE  Goal
  <2>1. {"Logon", "Answer", "Goodbye"} \subseteq ToClient
    BY DEF ToClient, Farewells
  <2> QED
    BY <1>2, <2>1, NothingSaid DEF Truthful
<1>3. ASSUME NEW s \in Sessions, NEW ms, Turn(s, ms), send(s, ms),
             ms # <<"Logon">>, ms # <<"Goodbye">>,
             party_id'[s] = party_id[s] \/ state[s] = "WAITING_LOGON"
      PROVE  Goal
    BY <1>1, <1>3, TurnTruth
<1>4. ASSUME NEW s \in Sessions, Read(s) PROVE Goal
  <2>1. party_id'[s] = party_id[s] \/ state[s] = "WAITING_LOGON"
    BY <1>4, ReadIsStep, ClientAsks DEF Asks, vars, session
  <2> QED
    BY <1>2, <1>3, <1>4, <2>1, ReadTurn
<1>5. ASSUME NEW s \in Sessions, Broken(s) PROVE Goal
  <2>1. make_zombie(s) /\ send(s, <<>>)
    BY <1>5 DEF Broken, ClientDisconnected
  <2>2. /\ Turn(s, <<>>) /\ party_id'[s] = party_id[s]
        /\ <<>> # <<"Logon">> /\ <<>> # <<"Goodbye">>
    BY <2>1, DeathMove DEF Turn, make_zombie, make_zombie_with
  <2> QED
    BY <1>3, <2>1, <2>2
<1>6. ASSUME NEW s \in Sessions, ClientTimer(s) PROVE Goal
  <2>1. Timer(s) /\ send(s, TimerMessages(s))
    BY <1>6 DEF ClientTimer
  <2>2. party_id'[s] = party_id[s]
    BY <2>1 DEF Timer, make_zombie, make_zombie_with
  <2>3. TimerMessages(s) # <<"Logon">> /\ TimerMessages(s) # <<"Goodbye">>
    BY DEF TimerMessages
  <2> QED
    BY <1>3, <2>1, <2>2, <2>3, TimerTurn
<1>7. ASSUME NEW s \in Sessions, Answer(s) PROVE Goal
  <2>1. /\ state[s] = "READY" /\ UNCHANGED <<state, party_id>>
        /\ send(s, <<"Answer">>)
    BY <1>7 DEF Answer, OnlySend, vars, session
  <2>2. /\ Turn(s, <<"Answer">>)
        /\ <<"Answer">> # <<"Logon">> /\ <<"Answer">> # <<"Goodbye">>
    BY <2>1 DEF Turn
  <2> QED
    BY <1>3, <2>1, <2>2
<1>8. ASSUME NEW r \in pending, NEW status \in {"LOGGED_IN", "NOT_LOGGED_IN", "OTHER"},
             ReadUserResponse(r, status)
      PROVE  Goal
  <2> DEFINE ms == UserResponseMessages(r, status)
  <2>0. PICK s \in Sessions : s = user.server_to_client[r.id]
    BY PendingFacts
  <2>1. UserResponse(r, status) /\ send(s, ms) /\ Turn(s, ms)
    BY <1>8, <2>0, ResponseTurn DEF ReadUserResponse
  <2>2. party_id'[s] = party_id[s] \/ state[s] = "WAITING_LOGON"
    BY <2>0, <2>1, UserResponseAsks DEF Asks
  <2>3. ASSUME ms = <<"Logon">>
        PROVE  ready /\ user'.client_to_session[party_id[s]] = s
    <3>1. state[s] = "WAITING_CREATE_ROUTE" /\ status = "LOGGED_IN" /\ fatal' = "no"
      BY <2>0, <2>3 DEF UserResponseMessages, Running
    <3> QED
      BY <2>0, <2>1, <3>1, LogonTruth
  <2>4. ASSUME ms = <<"Goodbye">>
        PROVE  /\ user'.client_to_session[party_id[s]] = None
               /\ party_id[s] \in Sole => \A q \in pending' : q.username # party_id[s]
    <3>1. state[s] = "WAITING_REMOVE_ROUTE" /\ status = "NOT_LOGGED_IN" /\ fatal' = "no"
      BY <2>0, <2>4 DEF UserResponseMessages, Running
    <3> QED
      BY <2>0, <2>1, <3>1, GoodbyeTruth
  <2> HIDE DEF ms
  <2> QED
    BY <1>1, <2>1, <2>2, <2>3, <2>4, TurnTruth
<1>9. CASE Collect
    BY <1>2, <1>9 DEF Collect
<1>10. CASE \/ Connected \/ Dropped \/ ReadServerLogon \/ ReadServerLogout
            \/ ReadServerTestRequest \/ ServerTimer \/ Elsewhere \/ UNCHANGED wireVars
  <2>1. UNCHANGED to_client
    BY <1>10 DEF Connected, Dropped, ReadServerLogon, ReadServerLogout,
                 ReadServerTestRequest, ServerTimer, Elsewhere, wireVars
  <2> QED
    BY <1>2, <2>1
<1> QED
    BY <1>4, <1>5, <1>6, <1>7, <1>8, <1>9, <1>10 DEF WireNext

\* No client is told of a route that it does not have, or of its release before
\* it is released.
THEOREM TruthIsTold == WireSpec => ClientsAreToldTheTruth
<1>1. Init => SoleLogOff
    BY DEF Init, SoleLogOff
<1>2. Spec => []SoleLogOff
    BY <1>1, SoleLogOffStep, InductiveInvariant, PTL DEF Spec
<1>3. WireSpec => [](IInv /\ ClientInv /\ SoleLogOff)
    BY <1>2, WireImplementsUserRouting, WireKeepsIInv, Conversations, PTL
<1> QED
    BY <1>3, TruthStep, PTL DEF WireSpec, ClientsAreToldTheTruth

=============================================================================
