------------------------------- MODULE MCChunk -------------------------------
(* Small instances of Chunk for TLC. *)
EXTENDS Chunk, TLC

\* appends are told apart by their arguments only
ReqSymmetry == Permutations(Reqs)
=============================================================================
