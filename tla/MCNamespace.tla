----------------------------- MODULE MCNamespace -----------------------------
(* Small instances of Namespace for TLC. *)
EXTENDS Namespace, TLC

\* names and inodes are only compared; callers run the same code
NamespaceSymmetry == Permutations(Inodes) \cup Permutations(Callers)
=============================================================================
