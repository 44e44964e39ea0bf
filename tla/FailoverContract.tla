-------------------------- MODULE FailoverContract --------------------------
(***************************************************************************)
(* What a proxied request is promised by Engine.tryKeys, with no mention   *)
(* of the database, the round-robin cursor or response bodies: a request   *)
(* is offered a fixed pool of keys once; it may discard a key of the pool  *)
(* that failed, each at most once; it is answered by a key it has not      *)
(* discarded, and is refused only when every key of the pool has failed or *)
(* when the pool was empty from the start.                                 *)
(***************************************************************************)
EXTENDS Naturals

CONSTANTS
    Requests,   \* the HTTP requests that reach one provider
    KeyIds      \* identities of upstream keys

VARIABLES
    pool,       \* pool[r]: the keys offered to request r
    failed,     \* failed[r]: the keys of the pool that r has seen fail
    verdict     \* verdict[r]: how r ended, or "waiting" / "trying"

vars == <<pool, failed, verdict>>

TypeOK ==
    /\ pool \in [Requests -> SUBSET KeyIds]
    /\ failed \in [Requests -> SUBSET KeyIds]
    /\ verdict \in [Requests -> {"waiting", "trying", "answered",
                                 "exhausted", "refused", "lost"}]

Init ==
    /\ pool = [r \in Requests |-> {}]
    /\ failed = [r \in Requests |-> {}]
    /\ verdict = [r \in Requests |-> "waiting"]

\* The request learns, once, which keys it may use.
Offer(r, P) ==
    /\ verdict[r] = "waiting"
    /\ P # {}
    /\ pool' = [pool EXCEPT ![r] = P]
    /\ verdict' = [verdict EXCEPT ![r] = "trying"]
    /\ UNCHANGED failed

\* A key that has not failed yet is tried and fails.
Fail(r, k) ==
    /\ verdict[r] = "trying"
    /\ k \in pool[r] \ failed[r]
    /\ failed' = [failed EXCEPT ![r] = @ \cup {k}]
    /\ UNCHANGED <<pool, verdict>>

\* Every key offered has failed.
Exhaust(r) ==
    /\ verdict[r] = "trying"
    /\ failed[r] = pool[r]
    /\ verdict' = [verdict EXCEPT ![r] = "exhausted"]
    /\ UNCHANGED <<pool, failed>>

\* A key that has not failed yet is tried and gives the answer.
Answer(r) ==
    /\ verdict[r] = "trying"
    /\ pool[r] \ failed[r] # {}
    /\ verdict' = [verdict EXCEPT ![r] = "answered"]
    /\ UNCHANGED <<pool, failed>>

\* There was no key to offer.
Refuse(r) ==
    /\ verdict[r] = "waiting"
    /\ verdict' = [verdict EXCEPT ![r] = "refused"]
    /\ UNCHANGED <<pool, failed>>

\* The process stops: every request that was in progress is lost, some of
\* those that had not been offered keys yet may be.
Lose(R) ==
    /\ \A r \in R : verdict[r] \in {"waiting", "trying"}
    /\ \A r \in Requests : verdict[r] = "trying" => r \in R
    /\ verdict' = [r \in Requests |-> IF r \in R THEN "lost" ELSE verdict[r]]
    /\ UNCHANGED <<pool, failed>>

Next ==
    \/ \E r \in Requests : \E P \in SUBSET KeyIds : Offer(r, P)
    \/ \E r \in Requests : \E k \in KeyIds : Fail(r, k)
    \/ \E r \in Requests : Answer(r) \/ Exhaust(r) \/ Refuse(r)
    \/ \E R \in SUBSET Requests : Lose(R)

Spec == Init /\ [][Next]_vars
=============================================================================
