----------------------------- MODULE Namespace -----------------------------
(***************************************************************************)
(* The namespace under concurrent callers.  Deva::create looks the parent  *)
(* directory up and creates the entry under two separate holds of          *)
(* Namespace::_mutex; a removal by the inode of the parent may come in     *)
(* between.  `tree' says what the callers were promised: the file or       *)
(* directory each path denotes.                                            *)
(***************************************************************************)
EXTENDS NamespaceOps

CONSTANTS
  Callers,  \* concurrent calls
  Names,    \* names of entries
  Inodes,   \* inodes UUID::generate can return
  MaxDepth  \* longest path that is used

ASSUME RootIsNoInode == Root \notin Inodes

VARIABLES
  entries,  \* Namespace::_entries
  job,      \* job[c]: what a caller does, and the parent it has looked up
  used,     \* the inodes UUID::generate has returned
  tree      \* path -> what it denotes (history)

vars == <<entries, job, used, tree>>

Types == {"kFile", "kDirectory"}
Paths == UNION {[1..n -> Names] : n \in 0..MaxDepth}

Idle == [at |-> "idle", parent |-> Root, name |-> CHOOSE n \in Names : TRUE]

Init ==
  /\ entries = EmptyNamespace
  /\ job = [c \in Callers |-> Idle]
  /\ used = {}
  /\ tree = [p \in {<<>>} |-> [inode |-> Root, type |-> "kDirectory"]]

\* the first half of Deva::create: lookup of parent_path(), then the type check
LookupParent(c, dir, name) ==
  LET found == Lookup(entries, dir) IN
  /\ job[c].at = "idle"
  /\ found.status = "OK" /\ found.type = "kDirectory"
  /\ job' = [job EXCEPT ![c] = [at |-> "parent", parent |-> found.inode, name |-> name]]
  /\ UNCHANGED <<entries, used, tree>>

\* lookup fails or its result is not a directory: create returns the error
LookupParentFails(c, dir) ==
  LET found == Lookup(entries, dir) IN
  /\ job[c].at = "idle"
  /\ found.status # "OK" \/ found.type # "kDirectory"
  /\ UNCHANGED vars

\* the paths that denote directory i: one, or none once it is removed
PathsOf(i) == {p \in DOMAIN tree : tree[p].inode = i /\ tree[p].type = "kDirectory"}

TreeCreate(parent, name, type, inode) ==
  LET new == {Append(p, name) : p \in PathsOf(parent)} \ DOMAIN tree
  IN tree' = [p \in DOMAIN tree \cup new |->
                IF p \in new THEN [inode |-> inode, type |-> type] ELSE tree[p]]

\* path p is g or lies below it
IsPrefix(g, p) == Len(g) <= Len(p) /\ \A i \in 1..Len(g) : g[i] = p[i]

TreeRemove(parent, name) ==
  LET gone == {Append(p, name) : p \in PathsOf(parent)}
      kept == {p \in DOMAIN tree : \A g \in gone : ~IsPrefix(g, p)}
  IN tree' = [p \in kept |-> tree[p]]

\* the second half: Namespace::create with a new inode
Create(c, type, inode) ==
  LET parent == job[c].parent  name == job[c].name IN
  /\ job[c].at = "parent"
  /\ inode \notin used
  /\ used' = used \cup {inode}
  /\ entries' = CreateEntry(entries, parent, name, type, inode)
  /\ TreeCreate(parent, name, type, inode)
  /\ job' = [job EXCEPT ![c] = Idle]

\* Namespace::remove by the inode of the parent
Remove(c) ==
  LET parent == job[c].parent  name == job[c].name IN
  /\ job[c].at = "parent"
  /\ entries' = RemoveEntry(entries, parent, name)
  /\ TreeRemove(parent, name)
  /\ job' = [job EXCEPT ![c] = Idle]
  /\ UNCHANGED used

Next ==
  \E c \in Callers :
    \/ \E dir \in Paths : LookupParentFails(c, dir)
    \/ \E dir \in Paths, name \in Names : Len(dir) < MaxDepth /\ LookupParent(c, dir, name)
    \/ \E type \in Types, inode \in Inodes : Create(c, type, inode)
    \/ Remove(c)

Spec == Init /\ [][Next]_vars

-----------------------------------------------------------------------------
(* Properties *)

\* Namespace::lookup finds exactly what a path denotes after any creates and
\* removals: the oldest entry of a name, nothing below what was removed, and
\* nothing that was created in a directory already removed.
LookupFollowsTree ==
  \A p \in Paths :
    IF p \in DOMAIN tree
    THEN Lookup(entries, p) = Found(tree[p].inode, tree[p].type)
    ELSE Lookup(entries, p).status = "ENOENT"
=============================================================================
