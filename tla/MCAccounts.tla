----------------------------- MODULE MCAccounts -----------------------------
(* Small instances of Accounts for TLC. *)
EXTENDS Accounts, TLC

CONSTANTS u1, u2, c1, c2, s1, s2, k1, x1, x2, p1, p2, wrong, none

\* Two accounts and their roles, one with reset codes, or one with a second
\* factor.
People == {[members |-> {u1, u2}, factor |-> {}, codes |-> {}],
           [members |-> {u1}, factor |-> {}, codes |-> {x1, x2}],
           [members |-> {u1}, factor |-> {u1}, codes |-> {}]}
=============================================================================
