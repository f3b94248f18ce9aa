----------------------------- MODULE MCTopology -----------------------------
(* Instances of SadTopology. *)
EXTENDS SadTopology, TLC

Symmetry == Permutations(Commands) \cup Permutations(Ids)
=============================================================================
