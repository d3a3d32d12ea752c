----------------------------- MODULE MCQueries ------------------------------
(* Queries for TLC: users and connections, interchangeable, and one id.    *)
EXTENDS Queries, TLC

CONSTANTS u1, u2, s1, s2, x

MCUsers     == {u1, u2}
MCSessions  == {s1, s2}
MCReqIds    == {Empty, x}
MCServerIds == MCUsers \X MCReqIds

Symmetric == Permutations(MCUsers) \cup Permutations(MCSessions)

=============================================================================
