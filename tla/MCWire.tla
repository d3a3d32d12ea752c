-------------------------------- MODULE MCWire --------------------------------
(* Wire for TLC: one user that comes back on a second connection. *)
EXTENDS Wire, TLC

CONSTANTS u1, p1

MCUsers      == {u1}
MCParties    == {p1}
MCStrategies == u1 :> {p1}

=============================================================================
