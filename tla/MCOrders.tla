------------------------------ MODULE MCOrders ------------------------------
(* Orders for TLC: users, connections and order ids, all interchangeable.  *)
EXTENDS Orders, TLC

CONSTANTS u1, u2, s1, s2, x, y

MCUsers     == {u1, u2}
MCSessions  == {s1, s2}
MCReqIds    == {x, y}
MCServerIds == MCUsers \X MCReqIds

Symmetric == Permutations(MCUsers) \cup Permutations(MCSessions) \cup Permutations(MCReqIds)

=============================================================================
