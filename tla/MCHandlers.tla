----------------------------- MODULE MCHandlers -----------------------------
(* Instances of Handlers. *)
EXTENDS Handlers
=============================================================================
