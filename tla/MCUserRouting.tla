---------------------------- MODULE MCUserRouting ----------------------------
(* UserRouting for TLC: users with a strategy each, with two, or sharing one. *)
EXTENDS UserRouting, TLC

CONSTANTS u1, u2, p1, p2

MCUsers      == {u1, u2}
MCParties    == {p1, p2}
MCStrategies == u1 :> {p1} @@ u2 :> {p2}

\* One user that keeps reconnecting, and that auth may give another strategy.
OneUser       == {u1}
OneStrategies == u1 :> {p1, p2}

\* One of the first user's strategies is also the second user's.
SharedStrategies == u1 :> {p1, p2} @@ u2 :> {p2}

=============================================================================
