----------------------------- MODULE MCSadChunks -----------------------------
(* An instance of SadChunks. *)
EXTENDS SadChunks, TLC

SmallRanges == {[offset |-> 0, size |-> 1], [offset |-> 3, size |-> 1]}

Symmetry == Permutations(Calls)
=============================================================================
