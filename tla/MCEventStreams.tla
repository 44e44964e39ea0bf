--------------------------- MODULE MCEventStreams ---------------------------
(* EventStreams with every kind of line, reads of up to two lines and an     *)
(* answer long enough for text, a call, more text and the end of the answer. *)
EXTENDS EventStreams
=============================================================================
