------------------------------ MODULE MCClient ------------------------------
(* Instances of Client. *)
EXTENDS Client
=============================================================================
