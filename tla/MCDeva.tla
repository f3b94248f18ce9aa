------------------------------- MODULE MCDeva -------------------------------
(* Instances of Deva: a few requests of OpenFile and Mkdir. *)
EXTENDS Deva, TLC

CreateFile(dir, name, inode) ==
  [type |-> "kCreateFile", dir |-> dir, name |-> name, inode |-> inode]
CreateDir(dir, name, inode) ==
  [type |-> "kCreateDir", dir |-> dir, name |-> name, inode |-> inode]

\* two files of one name
SameName == {CreateFile(<<>>, "a", 1), CreateFile(<<>>, "a", 2)}

\* a directory and a file in it
DirOps == {CreateDir(<<>>, "a", 1), CreateFile(<<"a">>, "b", 2)}

\* a directory, a file in it, and a file of the directory's name
TreeOps == DirOps \cup {CreateFile(<<>>, "a", 3)}

NodeSymmetry == Permutations(Nodes)
=============================================================================
