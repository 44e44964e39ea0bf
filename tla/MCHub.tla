------------------------------- MODULE MCHub -------------------------------
(* Small instances of Hub for TLC. *)
EXTENDS Hub, TLC

CONSTANTS c1, c2, u1, u2, handler, stats, none

\* Connections are interchangeable in the safety properties, and so are users.
Symmetric == Permutations(Conns) \cup Permutations(Users)
=============================================================================
