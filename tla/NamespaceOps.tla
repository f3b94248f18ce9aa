---------------------------- MODULE NamespaceOps ----------------------------
(***************************************************************************)
(* The operations of Namespace (src/deva/namespace.cc) as functions of its *)
(* table _entries, which maps the inode of every directory to the list of  *)
(* its entries.  A path is the sequence of components parse_path returns   *)
(* for an absolute path.                                                   *)
(***************************************************************************)
EXTENDS Integers, Sequences

CONSTANT Root   \* Namespace::_root

EmptyNamespace == [i \in {Root} |-> <<>>]

\* a list takes a second entry of the same name
CreateEntry(e, parent, name, type, inode) ==
  LET entry == [inode |-> inode, name |-> name, type |-> type]
      dirs == DOMAIN e \cup (IF type = "kDirectory" THEN {inode} ELSE {})
  IN IF parent \notin DOMAIN e THEN e
     ELSE [i \in dirs |-> IF i = inode THEN <<>>
                          ELSE IF i = parent THEN Append(e[i], entry)
                          ELSE e[i]]

\* what is left of the first n entries without those of the name, for every n
Kept(list, name) ==
  LET kept[n \in 0..Len(list)] ==
        IF n = 0 THEN <<>>
        ELSE IF list[n].name = name THEN kept[n - 1] ELSE Append(kept[n - 1], list[n])
  IN kept

Without(list, name) == Kept(list, name)[Len(list)]

\* every entry of the name goes; the list of a removed directory stays
RemoveEntry(e, parent, name) ==
  IF parent \notin DOMAIN e THEN e ELSE [e EXCEPT ![parent] = Without(@, name)]

Found(inode, type) == [status |-> "OK", inode |-> inode, type |-> type]
NotFound == [status |-> "ENOENT", inode |-> Root, type |-> "kFile"]

\* mutant: the latest entry of a name is the one that counts
LastNamed(list, name) ==
  LET here == {i \in 1..Len(list) : list[i].name = name}
  IN IF here = {} THEN 0 ELSE CHOOSE i \in here : \A j \in here : i >= j

\* the index of the first entry of the name, 0 if there is none
FirstNamed(list, name) ==
  LET here == {i \in 1..Len(list) : list[i].name = name}
  IN IF here = {} THEN 0 ELSE CHOOSE i \in here : \A j \in here : i <= j

\* one component further: component i of the path
Step(e, at, path, i) ==
  IF at.inode \notin DOMAIN e THEN NotFound
  ELSE LET list == e[at.inode]
           k == FirstNamed(list, path[i])
       IN IF k = 0 THEN NotFound
          ELSE IF list[k].type = "kFile" /\ i # Len(path) THEN NotFound
          ELSE Found(list[k].inode, list[k].type)

\* the results of lookup after each component of the path
Walk(e, path) ==
  LET walk[i \in 0..Len(path)] ==
        IF i = 0 THEN Found(Root, "kDirectory")
        ELSE IF walk[i - 1].status # "OK" THEN walk[i - 1]
        ELSE Step(e, walk[i - 1], path, i)
  IN walk

\* Namespace::lookup
Lookup(e, path) == Walk(e, path)[Len(path)]
=============================================================================
