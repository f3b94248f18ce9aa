------------------------------ MODULE MCManusya ------------------------------
(* Small instances of Manusya for TLC. *)
EXTENDS Manusya, TLC

\* inside a chunk of two bytes, up to its end, and round the end of the integers
SmallRanges == {[offset |-> 0, size |-> 1], [offset |-> 1, size |-> 1],
                [offset |-> 0, size |-> 2], [offset |-> 7, size |-> 2]}

\* calls are told apart by what they do only
CallSymmetry == Permutations(Calls)
=============================================================================
