--------------------------- MODULE RequestService ---------------------------
(***************************************************************************)
(* What the proxy promises its clients about their requests, on top of     *)
(* what LogonService says of their sessions: it keeps on record whose      *)
(* request it has passed on under which id.  Only an active session gets   *)
(* on record, with a request that it does not have there yet and under an  *)
(* id that nobody has; an entry is taken off alone, or with everything     *)
(* else of its session when that is done, and is never altered.            *)
(***************************************************************************)
EXTENDS LogonService

CONSTANTS
    Kinds,    \* of requests, each with ids of its own
    ReqIds,   \* request ids chosen by clients
    Ids       \* request ids chosen by the proxy

VARIABLE record   \* kind -> id -> the session and request it stands for, if any

requestVars == <<vars, record>>

RequestInit ==
    /\ Init
    /\ record = [k \in Kinds |-> [id \in Ids |-> None]]

\* The entry of id becomes e, and no other changes.  (What the first conjunct says
\* follows from the second, and is sooner refuted.)
Enter(k, id, e) ==
    /\ record'[k][id] = e
    /\ record' = [record EXCEPT ![k][id] = e]

\* Request r of session s is passed on under id.
Record(k, id, s, r) ==
    LET e == [session |-> s, req_id |-> r]
    IN  /\ phase[s] = "active"
        /\ record[k][id] = None
        /\ Enter(k, id, e)
        /\ \A i \in Ids : record[k][i] # e

\* The request under id is over.
Forget(k, id) ==
    /\ record[k][id] # None
    /\ Enter(k, id, None)

\* One kind of request is concerned at a time.
RequestStep(k) ==
    /\ record'[k] # record[k]
    /\ \E id \in Ids :
         \/ \E s \in Sessions, r \in ReqIds : Record(k, id, s, r)
         \/ Forget(k, id)

\* Sessions come and go, and with them what is on record of them.
ComeAndGo ==
    /\ Next
    /\ record' = [k \in Kinds |-> [id \in Ids |->
         IF record[k][id] # None /\ phase'[record[k][id].session] = "done"
           THEN None ELSE record[k][id]]]

RequestNext == IF UNCHANGED vars THEN \E k \in Kinds : RequestStep(k) ELSE ComeAndGo

RequestSpec == RequestInit /\ [][RequestNext]_requestVars

=============================================================================
