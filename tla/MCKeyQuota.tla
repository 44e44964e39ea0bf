----------------------------- MODULE MCKeyQuota -----------------------------
(* Small instances of KeyQuota for TLC. *)
EXTENDS KeyQuota, TLC

CONSTANTS r1, r2, r3

Symmetric == Permutations(Requests)
=============================================================================
