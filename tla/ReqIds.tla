------------------------------- MODULE ReqIds -------------------------------
(***************************************************************************)
(* Controller::subscriptions_'s Mapping: how a client's request id and the *)
(* id under which the proxy passed the request on to the FIX bridge find   *)
(* each other.  An absent map entry is None.  client_to_server[s] that is  *)
(* absent and one that is empty behave alike, and are the same here.       *)
(***************************************************************************)
CONSTANTS
    Sessions,   \* client session ids
    ReqIds,     \* request ids chosen by clients
    ServerIds,  \* request ids chosen by the proxy
    None

Entry == [session : Sessions, req_id : ReqIds, keep_alive : BOOLEAN]

ASSUME NoneIsNoEntry ==
    None \notin ServerIds \cup Entry \cup [session : Sessions, req_id : ReqIds]

Mapping ==
    [server_to_client : [ServerIds -> Entry \cup {None}],
     client_to_server : [Sessions -> [ReqIds -> ServerIds \cup {None}]]]

EmptyMapping ==
    [server_to_client |-> [id \in ServerIds |-> None],
     client_to_server |-> [s \in Sessions |-> [r \in ReqIds |-> None]]]

exists(m, s, r) == m.client_to_server[s][r] # None

\* Fault: the client's id is recorded where the proxy's belongs.
add_req_id_unmapped(m, s, r, id, keep_alive) ==
    [m EXCEPT
       !.client_to_server[s][r] = r,
       !.server_to_client[id] = [session |-> s, req_id |-> r, keep_alive |-> keep_alive]]

\* Neither emplace replaces an entry that is there already.
add_req_id(m, s, r, id, keep_alive) ==
    [m EXCEPT
       !.client_to_server[s][r] = IF @ = None THEN id ELSE @,
       !.server_to_client[id] =
          IF @ = None THEN [session |-> s, req_id |-> r, keep_alive |-> keep_alive] ELSE @]

\* Fault: the client's side of the entry stays.
remove_req_id_one_way(m, id) == [m EXCEPT !.server_to_client[id] = None]

\* Forget request id, from both sides; nothing if it is not known.
remove_req_id(m, id) ==
    LET e == m.server_to_client[id]
    IN  IF e = None
          THEN m
          ELSE [m EXCEPT !.client_to_server[e.session][e.req_id] = None,
                         !.server_to_client[id] = None]

\* The ids under which requests of the sessions S are known.
RequestsOf(m, S) == {m.client_to_server[s][r] : s \in S, r \in ReqIds} \ {None}

\* Fault: the bridge's side of the entries stays.
clear_req_ids_one_way(m, S) ==
    [m EXCEPT !.client_to_server =
       [s \in Sessions |-> IF s \in S THEN [r \in ReqIds |-> None] ELSE @[s]]]

\* Forget all requests of the sessions S, one after the other.
clear_req_ids(m, S) ==
    [server_to_client |-> [id \in ServerIds |->
        IF id \in RequestsOf(m, S) THEN None ELSE m.server_to_client[id]],
     client_to_server |-> [s \in Sessions |->
        IF s \in S THEN [r \in ReqIds |-> None] ELSE m.client_to_server[s]]]

\* Whose request an id stands for, as RequestService has it.
Requests(m) ==
    [id \in ServerIds |->
       LET e == m.server_to_client[id]
       IN  IF e = None THEN None ELSE [session |-> e.session, req_id |-> e.req_id]]

\* The two directions of a mapping say the same.
Paired(m) ==
    /\ \A id \in ServerIds : m.server_to_client[id] # None =>
         LET e == m.server_to_client[id] IN m.client_to_server[e.session][e.req_id] = id
    /\ \A s \in Sessions, r \in ReqIds : exists(m, s, r) =>
         LET e == m.server_to_client[m.client_to_server[s][r]]
         IN  e # None /\ e.session = s /\ e.req_id = r

=============================================================================
