----------------------------- MODULE MCDispatch -----------------------------
(* Two real providers and a custom one, one model, one account, one request, *)
(* and an administrator with two sessions.                                   *)
EXTENDS Dispatch
=============================================================================
