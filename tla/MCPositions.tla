--------------------------- MODULE MCPositions -------------------------------
(* Positions for TLC: two users, connections that use the same req_id. *)
EXTENDS Positions, TLC

CONSTANTS u1, u2, s1, s2, r1

MCUsers     == {u1, u2}
MCSessions  == {s1, s2}
MCServerIds == 1 .. MaxRequests

\* Neither users nor sessions are told apart but by what they do.
Symmetric == Permutations(MCUsers) \cup Permutations(MCSessions)

=============================================================================
