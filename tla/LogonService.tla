---------------------------- MODULE LogonService ----------------------------
(***************************************************************************)
(* What the proxy promises its clients about being logged on, without      *)
(* saying how: a session moves forward through new, joining, active,       *)
(* leaving, done, never back; a user is held by at most one session, from  *)
(* joining until that session is done; nobody joins or is active unless    *)
(* the bridge is up, and when the bridge goes down everybody who joined is *)
(* done at once.                                                           *)
(***************************************************************************)
CONSTANTS Users, Sessions, None

VARIABLES
    up,      \* the bridge is connected and logged on
    phase,   \* session -> how far it has come
    holder   \* user -> the session that holds it

vars == <<up, phase, holder>>

Inside == {s \in Sessions : phase[s] \in {"joining", "active", "leaving"}}

Init ==
    /\ up = FALSE
    /\ phase = [s \in Sessions |-> "new"]
    /\ holder = [u \in Users |-> None]

\* Sessions S are done, and the users they hold are free again.
Finish(S) ==
    /\ phase' = [s \in Sessions |-> IF s \in S THEN "done" ELSE phase[s]]
    /\ holder' = [u \in Users |-> IF holder[u] \in S THEN None ELSE holder[u]]

Raise ==
    /\ ~up
    /\ up' = TRUE
    /\ UNCHANGED <<phase, holder>>

\* The bridge is gone; connections that had not logged on may be cut as well.
Drop ==
    /\ up' = FALSE
    /\ \E S \in SUBSET {s \in Sessions : phase[s] = "new"} : Finish(Inside \cup S)

Join(s, u) ==
    /\ up
    /\ phase[s] = "new"
    /\ holder[u] = None
    /\ phase' = [phase EXCEPT ![s] = "joining"]
    /\ holder' = [holder EXCEPT ![u] = s]
    /\ UNCHANGED up

Admit(s) ==
    /\ up
    /\ phase[s] = "joining"
    /\ phase' = [phase EXCEPT ![s] = "active"]
    /\ UNCHANGED <<up, holder>>

Retract(s) ==
    /\ phase[s] = "active"
    /\ phase' = [phase EXCEPT ![s] = "leaving"]
    /\ UNCHANGED <<up, holder>>

End(s) ==
    /\ phase[s] # "done"
    /\ Finish({s})
    /\ UNCHANGED up

Next ==
    \/ Raise
    \/ Drop
    \/ \E s \in Sessions :
         \/ \E u \in Users : Join(s, u)
         \/ Admit(s)
         \/ Retract(s)
         \/ End(s)

Spec == Init /\ [][Next]_vars

=============================================================================
