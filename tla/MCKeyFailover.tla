---------------------------- MODULE MCKeyFailover ----------------------------
(* Small instances of KeyFailover for TLC. *)
EXTENDS KeyFailover, TLC

CONSTANTS r1, r2, a1, a2, s1, s2, old, none

\* Requests are interchangeable in every safety property, and so are the
\* secrets that can be read.
Symmetric == Permutations(Requests) \cup Permutations(Secrets \ Unreadable)
=============================================================================
