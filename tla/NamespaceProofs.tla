-------------------------- MODULE NamespaceProofs ---------------------------
(***************************************************************************)
(* Namespace::lookup finds what a path denotes, for any number of callers, *)
(* names, inodes and directories of any depth.                             *)
(***************************************************************************)
EXTENDS Namespace, NamespaceOpsProofs

EntryRecord == [inode : Inodes, name : Names, type : Types]
NodeRecord == [inode : Inodes \cup {Root}, type : Types]

IsDir(t, p) == p \in DOMAIN t /\ t[p].type = "kDirectory"

\* the first entry of name x in the list is what node says, or there is none
Denotes(list, x, node) ==
  \E v \in EntryRecord : /\ FirstIn(list, Len(list), x, v)
                         /\ v.inode = node.inode /\ v.type = node.type

\* e is a table of lists whose directories are the root and inodes of u
Table(e, u) ==
  /\ Root \in DOMAIN e /\ DOMAIN e \subseteq {Root} \cup u /\ u \subseteq Inodes
  /\ e \in [DOMAIN e -> Seq(EntryRecord)]

\* t is a tree of paths: every node but the root is in a directory, and no two
\* directories have one inode
Tree(t, u) ==
  /\ DOMAIN t \subseteq Seq(Names) /\ t \in [DOMAIN t -> NodeRecord]
  /\ <<>> \in DOMAIN t /\ t[<<>>].inode = Root /\ t[<<>>].type = "kDirectory"
  /\ \A p \in DOMAIN t : t[p].inode \in {Root} \cup u
  /\ \A p \in DOMAIN t : p # <<>> => \E q \in DOMAIN t, x \in Names : IsDir(t, q) /\ p = Append(q, x)
  /\ \A p, q \in DOMAIN t : IsDir(t, p) /\ IsDir(t, q) /\ t[p].inode = t[q].inode => p = q

\* the list of the directory at path p says what the paths below p denote
ListMirrors(list, t, p) ==
  \A x \in Names :
    IF Append(p, x) \in DOMAIN t
    THEN Denotes(list, x, t[Append(p, x)])
    ELSE NoneIn(list, Len(list), x)

Mirrors(e, t) ==
  \A p \in DOMAIN t : IsDir(t, p) =>
    t[p].inode \in DOMAIN e /\ ListMirrors(e[t[p].inode], t, p)

NamespaceInv ==
  /\ Table(entries, used) /\ Tree(tree, used) /\ Mirrors(entries, tree)
  /\ DOMAIN job = Callers /\ \A c \in Callers : job[c].at = "parent" => job[c].name \in Names

-----------------------------------------------------------------------------
(* Paths *)

\* A path that is not empty has one parent and one last component.
LEMMA AppendInjective ==
  ASSUME NEW S, NEW p \in Seq(S), NEW q \in Seq(S), NEW x \in S, NEW y \in S,
         Append(p, x) = Append(q, y)
  PROVE  p = q /\ x = y
<1>1. /\ Len(Append(p, x)) = Len(p) + 1 /\ Len(Append(q, y)) = Len(q) + 1
      /\ Append(p, x)[Len(p) + 1] = x /\ Append(q, y)[Len(q) + 1] = y
      /\ Len(p) \in Nat /\ Len(q) \in Nat
  OBVIOUS
<1>2. Len(p) = Len(q) /\ x = y
  BY <1>1
<1>3. \A i \in 1..Len(p) : p[i] = q[i]
  <2>1. \A i \in 1..Len(p) : Append(p, x)[i] = p[i]
    OBVIOUS
  <2>2. \A i \in 1..Len(q) : Append(q, y)[i] = q[i]
    OBVIOUS
  <2> QED
    BY <1>2, <2>1, <2>2
<1> QED
  BY <1>2, <1>3

\* A longer path is not the root.
LEMMA AppendNotRoot ==
  ASSUME NEW S, NEW p \in Seq(S), NEW x \in S
  PROVE  Append(p, x) # <<>> /\ Append(p, x) \in Seq(S)
<1>1. Len(Append(p, x)) = Len(p) + 1 /\ Len(p) \in Nat /\ Len(<<>>) = 0
  OBVIOUS
<1> QED
  BY <1>1

\* What is above a path of one component more.
LEMMA PrefixOfAppend ==
  ASSUME NEW S, NEW g \in Seq(S), NEW p \in Seq(S), NEW x \in S
  PROVE  IsPrefix(g, Append(p, x)) <=> IsPrefix(g, p) \/ g = Append(p, x)
<1> DEFINE r == Append(p, x)
<1>1. /\ r \in Seq(S) /\ Len(r) = Len(p) + 1 /\ \A i \in 1..Len(p) : r[i] = p[i]
      /\ Len(p) \in Nat /\ Len(g) \in Nat
  OBVIOUS
<1> HIDE DEF r
<1>2. ASSUME IsPrefix(g, r), g # r PROVE IsPrefix(g, p)
  <2>1. Len(g) <= Len(r) /\ \A i \in 1..Len(g) : g[i] = r[i]
    BY <1>1, <1>2 DEF IsPrefix
  <2>2. Len(g) # Len(r)
    BY <1>1, <1>2, <2>1
  <2>3. Len(g) <= Len(p)
    BY <1>1, <2>1, <2>2
  <2>4. \A i \in 1..Len(g) : g[i] = p[i]
    BY <1>1, <2>1, <2>3
  <2> QED
    BY <2>3, <2>4 DEF IsPrefix
<1>3. ASSUME IsPrefix(g, p) PROVE IsPrefix(g, r)
  <2>1. Len(g) <= Len(p) /\ \A i \in 1..Len(g) : g[i] = p[i]
    BY <1>3 DEF IsPrefix
  <2>2. Len(g) <= Len(r) /\ \A i \in 1..Len(g) : g[i] = r[i]
    BY <1>1, <2>1
  <2> QED
    BY <1>1, <2>2 DEF IsPrefix
<1>4. IsPrefix(r, r)
  BY <1>1 DEF IsPrefix
<1> QED
  BY <1>2, <1>3, <1>4, Zenon DEF r

\* A path is not below one that is longer.
LEMMA NotBelowChild ==
  ASSUME NEW S, NEW p \in Seq(S), NEW x \in S
  PROVE  ~IsPrefix(Append(p, x), p)
<1> DEFINE r == Append(p, x)
<1>1. Len(r) = Len(p) + 1 /\ Len(p) \in Nat /\ r \in Seq(S)
  OBVIOUS
<1> HIDE DEF r
<1>2. IsPrefix(r, p) => Len(r) <= Len(p)
  BY <1>1 DEF IsPrefix
<1> QED
  BY <1>1, <1>2 DEF r

-----------------------------------------------------------------------------
(* Lookup follows a tree that the table mirrors *)

\* What holds an entry is a directory.
LEMMA ParentIsDir ==
  ASSUME NEW t, NEW u, Tree(t, u), NEW q \in Seq(Names), NEW x \in Names,
         Append(q, x) \in DOMAIN t
  PROVE  IsDir(t, q)
<1>1. Append(q, x) # <<>>
  BY AppendNotRoot
<1>2. PICK p \in DOMAIN t, y \in Names : IsDir(t, p) /\ Append(q, x) = Append(p, y)
  BY <1>1, Zenon DEF Tree
<1>3. p \in Seq(Names)
  BY DEF Tree
<1>4. p = q
  BY <1>2, <1>3, AppendInjective
<1> QED
  BY <1>2, <1>4

\* what lookup holds after component j of the path, r being the path so far
Reached(t, path, j, r) ==
  IF r \in DOMAIN t /\ (j = Len(path) \/ IsDir(t, r))
  THEN Found(t[r].inode, t[r].type) ELSE NotFound

\* lookup is at directory q
StandsAt(t, at, q) == IsDir(t, q) /\ at.inode = t[q].inode

\* r is the path of component j in directory q
LeadsTo(path, j, q, r) == path[j] \in Names /\ r = Append(q, path[j])

\* From a directory one component leads to what the longer path denotes.
LEMMA StepMirrors ==
  ASSUME NEW e, NEW t, NEW u, Table(e, u), Tree(t, u), Mirrors(e, t),
         NEW path, NEW at, NEW q, StandsAt(t, at, q),
         NEW j, NEW r, LeadsTo(path, j, q, r)
  PROVE  Step(e, at, path, j) = Reached(t, path, j, r)
<1> DEFINE list == e[at.inode]
           x == path[j]
<1>0. IsDir(t, q) /\ at.inode = t[q].inode /\ x \in Names /\ r = Append(q, x)
  BY DEF StandsAt, LeadsTo
<1>1. at.inode \in DOMAIN e
  BY <1>0 DEF Mirrors, IsDir
<1>2. list \in Seq(EntryRecord) /\ Len(list) \in Nat
  BY <1>1 DEF Table
<1>3. IF r \in DOMAIN t THEN Denotes(list, x, t[r]) ELSE NoneIn(list, Len(list), x)
  BY <1>0, <1>1 DEF Mirrors, ListMirrors, IsDir
<1>4. e[at.inode] = list /\ path[j] = x
  OBVIOUS
<1> HIDE DEF list, x
<1>5. /\ NoneIn(list, Len(list), x) => Step(e, at, path, j) = NotFound
      /\ \A v : FirstIn(list, Len(list), x, v) =>
           Step(e, at, path, j) = IF v.type = "kFile" /\ j # Len(path) THEN NotFound
                                  ELSE Found(v.inode, v.type)
  BY <1>1, <1>2, <1>4, StepFinds
<1>6. CASE r \notin DOMAIN t
  BY <1>3, <1>5, <1>6 DEF Reached
<1>7. CASE r \in DOMAIN t
  <2>1. PICK v \in EntryRecord : /\ FirstIn(list, Len(list), x, v)
                                 /\ v.inode = t[r].inode /\ v.type = t[r].type
    BY <1>3, <1>7 DEF Denotes
  <2>2. t[r].type \in {"kFile", "kDirectory"}
    BY <1>7 DEF Tree, NodeRecord, Types
  <2> QED
    BY <1>5, <1>7, <2>1, <2>2 DEF IsDir, Reached
<1> QED
  BY <1>6, <1>7

\* Lookup of a table that mirrors a tree finds what the path denotes in it.
LEMMA LookupMirrors ==
  ASSUME NEW e, NEW t, NEW u, Table(e, u), Tree(t, u), Mirrors(e, t),
         NEW path \in Seq(Names)
  PROVE  Lookup(e, path) =
           IF path \in DOMAIN t THEN Found(t[path].inode, t[path].type) ELSE NotFound
<1> DEFINE N == Len(path)
           w == Walk(e, path)
           S == {i \in Nat : i <= N => w[i] = Reached(t, path, i, SubSeq(path, 1, i))}
<1>0. N \in Nat
  OBVIOUS
<1>1. \A i \in 0..N : w[i] = Further(e, path, w, i)
  BY <1>0, WalkEquation
<1> HIDE DEF w
<1>2. 0 \in S
  <2>1. w[0] = Found(Root, "kDirectory")
    BY <1>0, <1>1 DEF Further
  <2>2. SubSeq(path, 1, 0) = <<>>
    OBVIOUS
  <2>3. Reached(t, path, 0, <<>>) = Found(Root, "kDirectory")
    BY DEF Tree, IsDir, Reached
  <2> QED
    BY <2>1, <2>2, <2>3, Zenon
<1>3. ASSUME NEW i \in Nat, i \in S PROVE i + 1 \in S
  <2> DEFINE j == i + 1
             q == SubSeq(path, 1, i)
             r == SubSeq(path, 1, j)
  <2>1. SUFFICES ASSUME j <= N PROVE w[j] = Reached(t, path, j, r)
    OBVIOUS
  <2>2. i < N /\ j \in 0..N /\ j # 0 /\ j - 1 = i /\ j \in 1..N
    BY <1>0, <2>1
  <2>3. w[i] = Reached(t, path, i, q)
    BY <1>0, <1>3, <2>2
  <2>4. q \in Seq(Names) /\ r = Append(q, path[j])
    BY <2>2, PrefixNext
  <2>5. path[j] \in Names
    BY <2>2
  <2>6. w[j] = IF w[i].status # "OK" THEN w[i] ELSE Step(e, w[i], path, j)
    <3> HIDE DEF j
    <3> QED
      BY <1>1, <2>2 DEF Further
  <2> HIDE DEF j, q, r
  <2>7. CASE IsDir(t, q)
    <3>1. w[i] = Found(t[q].inode, t[q].type)
      BY <2>3, <2>7 DEF IsDir, Reached
    <3>2. w[i].status = "OK" /\ w[i].inode = t[q].inode
      BY <3>1 DEF Found
    <3>3. w[j] = Step(e, w[i], path, j)
      BY <2>6, <3>2
    <3>4. Step(e, w[i], path, j) = Reached(t, path, j, r)
      <4> DEFINE at == w[i]
      <4>1. StandsAt(t, at, q) /\ LeadsTo(path, j, q, r)
        BY <2>4, <2>5, <2>7, <3>2 DEF StandsAt, LeadsTo
      <4> HIDE DEF at
      <4>2. Step(e, at, path, j) = Reached(t, path, j, r)
        BY <4>1, StepMirrors
      <4> QED
        BY <4>2 DEF at
    <3> QED
      BY <3>3, <3>4
  <2>8. CASE ~IsDir(t, q)
    <3>1. w[i] = NotFound
      BY <1>0, <2>2, <2>3, <2>8 DEF Reached
    <3>2. w[j] = NotFound
      BY <2>6, <3>1 DEF NotFound
    <3>3. r \notin DOMAIN t
      BY <2>4, <2>5, <2>8, ParentIsDir
    <3> QED
      BY <3>2, <3>3 DEF Reached
  <2> QED
    BY <2>7, <2>8
<1>4. N \in S
  <2> HIDE DEF S, N
  <2> QED
    BY <1>0, <1>2, <1>3, NatSetInduction
<1>5. w[N] = Reached(t, path, N, path)
  <2>1. SubSeq(path, 1, N) = path
    OBVIOUS
  <2> HIDE DEF N
  <2>2. w[N] = Reached(t, path, N, SubSeq(path, 1, N))
    BY <1>0, <1>4
  <2> QED
    BY <2>1, <2>2, Zenon
<1> QED
  BY <1>5 DEF Lookup, w, Reached

-----------------------------------------------------------------------------
(* A new path *)

\* the tree with node at path r
Grown(t, r, node) == [p \in DOMAIN t \cup {r} |-> IF p = r THEN node ELSE t[p]]

\* A list that takes a second entry of a name says what it said before.
LEMMA SecondEntry ==
  ASSUME NEW list \in Seq(EntryRecord), NEW a \in EntryRecord, NEW t, NEW p,
         ListMirrors(list, t, p), Append(p, a.name) \in DOMAIN t
  PROVE  ListMirrors(Append(list, a), t, p)
<1> DEFINE more == Append(list, a)
<1>1. \A x : /\ \A v : FirstIn(list, Len(list), x, v) => FirstIn(more, Len(more), x, v)
             /\ NoneIn(list, Len(list), x) /\ a.name # x => NoneIn(more, Len(more), x)
  BY FirstInAppend, Zenon
<1> HIDE DEF more
<1>2. ASSUME NEW x \in Names
      PROVE  IF Append(p, x) \in DOMAIN t THEN Denotes(more, x, t[Append(p, x)])
             ELSE NoneIn(more, Len(more), x)
  <2>1. CASE Append(p, x) \in DOMAIN t
    <3>1. PICK v \in EntryRecord : /\ FirstIn(list, Len(list), x, v)
                                   /\ v.inode = t[Append(p, x)].inode
                                   /\ v.type = t[Append(p, x)].type
      BY <2>1 DEF ListMirrors, Denotes
    <3>2. FirstIn(more, Len(more), x, v)
      BY <1>1, <3>1
    <3>3. Denotes(more, x, t[Append(p, x)])
      BY <3>1, <3>2 DEF Denotes
    <3> QED
      BY <2>1, <3>3
  <2>2. CASE Append(p, x) \notin DOMAIN t
    <3>1. NoneIn(list, Len(list), x) /\ a.name # x
      BY <2>2 DEF ListMirrors
    <3> QED
      BY <1>1, <2>2, <3>1
  <2> QED
    BY <2>1, <2>2
<1>3. ListMirrors(more, t, p)
  BY <1>2 DEF ListMirrors
<1> QED
  BY <1>3 DEF more

\* A list that takes the first entry of a name says what the new path denotes.
LEMMA FirstEntry ==
  ASSUME NEW list \in Seq(EntryRecord), NEW a \in EntryRecord, NEW t, NEW p \in Seq(Names),
         ListMirrors(list, t, p), NEW r, r = Append(p, a.name), r \notin DOMAIN t,
         NEW node, node.inode = a.inode, node.type = a.type
  PROVE  ListMirrors(Append(list, a), Grown(t, r, node), p)
<1> DEFINE more == Append(list, a)
           s == Grown(t, r, node)
<1>0. a.name \in Names
  BY DEF EntryRecord
<1>1. \A x : /\ \A v : FirstIn(list, Len(list), x, v) => FirstIn(more, Len(more), x, v)
             /\ NoneIn(list, Len(list), x) /\ a.name # x => NoneIn(more, Len(more), x)
             /\ NoneIn(list, Len(list), x) /\ a.name = x => FirstIn(more, Len(more), x, a)
  BY FirstInAppend
<1>2. /\ DOMAIN s = DOMAIN t \cup {r} /\ s[r] = node
      /\ \A q \in DOMAIN t : s[q] = t[q]
  BY Zenon DEF Grown
<1> HIDE DEF more, s
<1>3. ASSUME NEW x \in Names
      PROVE  IF Append(p, x) \in DOMAIN s THEN Denotes(more, x, s[Append(p, x)])
             ELSE NoneIn(more, Len(more), x)
  <2> DEFINE q == Append(p, x)
  <2>0. q = r <=> x = a.name
    BY <1>0, AppendInjective
  <2>1. IF q \in DOMAIN t THEN Denotes(list, x, t[q]) ELSE NoneIn(list, Len(list), x)
    BY DEF ListMirrors
  <2> HIDE DEF q
  <2>2. CASE q \in DOMAIN t
    <3>1. PICK v \in EntryRecord : /\ FirstIn(list, Len(list), x, v)
                                   /\ v.inode = t[q].inode /\ v.type = t[q].type
      BY <2>1, <2>2 DEF Denotes
    <3>2. FirstIn(more, Len(more), x, v)
      BY <1>1, <3>1, Zenon
    <3>3. Denotes(more, x, s[q])
      BY <1>2, <2>2, <3>1, <3>2 DEF Denotes
    <3> QED
      BY <1>2, <2>2, <3>3 DEF q
  <2>3. CASE q = r
    <3>1. FirstIn(more, Len(more), x, a)
      BY <1>1, <2>0, <2>1, <2>3
    <3>2. Denotes(more, x, s[q])
      BY <1>2, <2>3, <3>1 DEF Denotes
    <3> QED
      BY <1>2, <2>3, <3>2 DEF q
  <2>4. CASE q \notin DOMAIN t /\ q # r
    <3>1. NoneIn(more, Len(more), x)
      BY <1>1, <2>0, <2>1, <2>4
    <3> QED
      BY <1>2, <2>4, <3>1 DEF q
  <2> QED
    BY <2>2, <2>3, <2>4
<1>4. ListMirrors(more, s, p)
  BY <1>3 DEF ListMirrors
<1> QED
  BY <1>4 DEF more, s

\* The list of another directory says nothing of the new path.
LEMMA OtherList ==
  ASSUME NEW list, NEW t, NEW p \in Seq(Names), ListMirrors(list, t, p),
         NEW q \in Seq(Names), p # q, NEW name \in Names, NEW r, r = Append(q, name), NEW node
  PROVE  ListMirrors(list, Grown(t, r, node), p)
<1> DEFINE s == Grown(t, r, node)
<1>1. DOMAIN s = DOMAIN t \cup {r} /\ \A o \in DOMAIN t : o # r => s[o] = t[o]
  BY DEF Grown
<1>2. \A x \in Names : Append(p, x) # r
  BY AppendInjective
<1> HIDE DEF s
<1>3. ListMirrors(list, s, p)
  BY <1>1, <1>2, Zenon DEF ListMirrors
<1> QED
  BY <1>3 DEF s

\* Nothing is below a path that is new.
LEMMA EmptyList ==
  ASSUME NEW t, NEW u, Tree(t, u), NEW r \in Seq(Names), r \notin DOMAIN t, NEW node
  PROVE  ListMirrors(<<>>, Grown(t, r, node), r)
<1> DEFINE s == Grown(t, r, node)
<1>1. DOMAIN s = DOMAIN t \cup {r}
  BY DEF Grown
<1> HIDE DEF s
<1>2. ASSUME NEW x \in Names PROVE Append(r, x) \notin DOMAIN s
  <2>1. Append(r, x) \notin DOMAIN t
    BY ParentIsDir DEF IsDir
  <2>2. Len(Append(r, x)) = Len(r) + 1 /\ Len(r) \in Nat
    OBVIOUS
  <2> QED
    BY <1>1, <2>1, <2>2
<1>3. \A x : NoneIn(<<>>, Len(<<>>), x)
  BY DEF NoneIn
<1>4. ListMirrors(<<>>, s, r)
  BY <1>2, <1>3 DEF ListMirrors
<1> QED
  BY <1>4 DEF s

\* A tree with a new path in one of its directories, and with a new inode there,
\* is a tree.
LEMMA TreeGrows ==
  ASSUME NEW t, NEW u, Tree(t, u), NEW q, IsDir(t, q), NEW name \in Names,
         NEW r, r = Append(q, name), r \notin DOMAIN t,
         NEW inode \in Inodes, inode \notin u, NEW type \in Types,
         NEW node, node = [inode |-> inode, type |-> type]
  PROVE  Tree(Grown(t, r, node), u \cup {inode})
<1> DEFINE s == Grown(t, r, node)
           o == u \cup {inode}
<1>1. /\ DOMAIN s = DOMAIN t \cup {r} /\ s[r] = node
      /\ \A p \in DOMAIN t : s[p] = t[p]
      /\ s = [p \in DOMAIN s |-> s[p]]
  BY Zenon DEF Grown
<1>2. q \in Seq(Names) /\ q \in DOMAIN t
  BY DEF Tree, IsDir
<1>3. r \in Seq(Names) /\ r # <<>>
  BY <1>2, AppendNotRoot
<1>4. node \in NodeRecord /\ node.inode = inode /\ node.type = type
  BY DEF NodeRecord
<1>5. \A p \in DOMAIN t : t[p].inode # inode
  BY RootIsNoInode DEF Tree
<1> HIDE DEF s
<1>6. DOMAIN s \subseteq Seq(Names) /\ s \in [DOMAIN s -> NodeRecord]
  <2>1. \A p \in DOMAIN s : s[p] \in NodeRecord
    BY <1>1, <1>4, Zenon DEF Tree
  <2> QED
    BY <1>1, <1>3, <2>1, Zenon DEF Tree
<1>7. <<>> \in DOMAIN s /\ s[<<>>].inode = Root /\ s[<<>>].type = "kDirectory"
  BY <1>1 DEF Tree
<1>8. \A p \in DOMAIN s : s[p].inode \in {Root} \cup o
  BY <1>1, <1>4, Zenon DEF Tree
<1>9. \A p \in DOMAIN t : IsDir(t, p) => p \in DOMAIN s /\ IsDir(s, p)
  BY <1>1 DEF IsDir
<1>10. ASSUME NEW p \in DOMAIN s, p # <<>>
       PROVE  \E d \in DOMAIN s, x \in Names : IsDir(s, d) /\ p = Append(d, x)
  <2>1. CASE p = r
    BY <1>2, <1>9, <2>1
  <2>2. CASE p \in DOMAIN t
    <3>1. PICK d \in DOMAIN t, x \in Names : IsDir(t, d) /\ p = Append(d, x)
      BY <1>10, <2>2 DEF Tree
    <3> QED
      BY <1>9, <3>1
  <2> QED
    BY <1>1, <2>1, <2>2
<1>11. ASSUME NEW p \in DOMAIN s, NEW d \in DOMAIN s, IsDir(s, p), IsDir(s, d),
              s[p].inode = s[d].inode
       PROVE  p = d
  <2>1. CASE p \in DOMAIN t /\ d \in DOMAIN t
    <3>1. IsDir(t, p) /\ IsDir(t, d) /\ t[p].inode = t[d].inode
      BY <1>1, <1>11, <2>1 DEF IsDir
    <3> QED
      BY <2>1, <3>1 DEF Tree
  <2>2. CASE p = r \/ d = r
    BY <1>1, <1>4, <1>5, <1>11, <2>2, Zenon
  <2> QED
    BY <1>1, <2>1, <2>2
<1> HIDE DEF o
<1>12. Tree(s, o)
  BY <1>6, <1>7, <1>8, <1>10, <1>11 DEF Tree
<1> QED
  BY <1>12 DEF s, o

\* the entry CreateEntry makes, and what a path that leads to it denotes
NewEntry(name, type, inode) == [inode |-> inode, name |-> name, type |-> type]
NodeOf(a) == [inode |-> a.inode, type |-> a.type]

\* table f is e with entry a at the end of the list of parent, and with an empty
\* list if a is a directory
Entered(e, f, parent, a) ==
  /\ DOMAIN e \subseteq DOMAIN f
  /\ f[parent] = Append(e[parent], a)
  /\ \A i \in DOMAIN e : i # parent => f[i] = e[i]
  /\ a.type = "kDirectory" => a.inode \in DOMAIN f /\ f[a.inode] = <<>>

\* What CreateEntry does to the table.
LEMMA TableGrows ==
  ASSUME NEW e, NEW u, Table(e, u), NEW parent \in DOMAIN e, NEW name \in Names,
         NEW type \in Types, NEW inode \in Inodes, inode \notin u
  PROVE  /\ Table(CreateEntry(e, parent, name, type, inode), u \cup {inode})
         /\ Entered(e, CreateEntry(e, parent, name, type, inode), parent,
                    NewEntry(name, type, inode))
<1> DEFINE a == NewEntry(name, type, inode)
           f == CreateEntry(e, parent, name, type, inode)
           dirs == DOMAIN e \cup (IF type = "kDirectory" THEN {inode} ELSE {})
<1>1. f = [i \in dirs |-> IF i = inode THEN <<>>
                          ELSE IF i = parent THEN Append(e[i], a) ELSE e[i]]
  BY DEF CreateEntry, NewEntry
<1>2. inode \notin DOMAIN e
  BY RootIsNoInode DEF Table
<1>3. a \in EntryRecord /\ a.type = type /\ a.inode = inode
  BY DEF EntryRecord, NewEntry
<1> HIDE DEF f, a
<1>4. DOMAIN f = dirs /\ DOMAIN e \subseteq dirs /\ dirs \subseteq DOMAIN e \cup {inode}
      /\ (type = "kDirectory" => inode \in dirs)
  BY <1>1
<1>5. /\ \A i \in DOMAIN e : f[i] = IF i = parent THEN Append(e[i], a) ELSE e[i]
      /\ inode \in dirs => f[inode] = <<>>
  BY <1>1, <1>2
<1> HIDE DEF dirs
<1>6. \A i \in DOMAIN f : f[i] \in Seq(EntryRecord)
  <2>1. \A i \in DOMAIN e : e[i] \in Seq(EntryRecord)
    BY DEF Table
  <2>2. Append(e[parent], a) \in Seq(EntryRecord)
    BY <1>3, <2>1
  <2>3. \A i \in DOMAIN e : f[i] \in Seq(EntryRecord)
    BY <1>5, <2>1, <2>2, Zenon
  <2>4. <<>> \in Seq(EntryRecord)
    OBVIOUS
  <2> QED
    BY <1>4, <1>5, <2>3, <2>4, Zenon
<1>7. f \in [DOMAIN f -> Seq(EntryRecord)]
  BY <1>1, <1>6
<1>8. Table(f, u \cup {inode})
  BY <1>4, <1>7 DEF Table
<1>9. Entered(e, f, parent, a)
  BY <1>3, <1>4, <1>5, Zenon DEF Entered
<1> QED
  BY <1>8, <1>9 DEF f, a

\* An inode more that is used.
LEMMA TreeUses ==
  ASSUME NEW t, NEW u, Tree(t, u), NEW inode
  PROVE  Tree(t, u \cup {inode})
BY DEF Tree

\* A create whose directory has no path, or has the name already.
LEMMA CreateHidden ==
  ASSUME NEW e, NEW u, NEW t, Table(e, u), Tree(t, u), Mirrors(e, t),
         NEW parent \in DOMAIN e, NEW a \in EntryRecord,
         \A p \in DOMAIN t : IsDir(t, p) /\ t[p].inode = parent => Append(p, a.name) \in DOMAIN t,
         NEW f, Entered(e, f, parent, a)
  PROVE  Mirrors(f, t)
<1>1. ASSUME NEW p \in DOMAIN t, IsDir(t, p)
      PROVE  t[p].inode \in DOMAIN f /\ ListMirrors(f[t[p].inode], t, p)
  <2>1. t[p].inode \in DOMAIN e /\ ListMirrors(e[t[p].inode], t, p)
    BY <1>1 DEF Mirrors
  <2>2. CASE t[p].inode = parent
    <3>1. e[parent] \in Seq(EntryRecord) /\ Append(p, a.name) \in DOMAIN t
      BY <1>1, <2>2 DEF Table
    <3>2. ListMirrors(Append(e[parent], a), t, p)
      BY <2>1, <2>2, <3>1, SecondEntry
    <3> QED
      BY <2>1, <2>2, <3>2, Zenon DEF Entered
  <2>3. CASE t[p].inode # parent
    BY <2>1, <2>3 DEF Entered
  <2> QED
    BY <2>2, <2>3
<1> QED
  BY <1>1 DEF Mirrors

\* A create of a new path.
LEMMA CreateSeen ==
  ASSUME NEW e, NEW u, NEW t, Table(e, u), Tree(t, u), Mirrors(e, t),
         NEW parent \in DOMAIN e, NEW a \in EntryRecord,
         NEW q, IsDir(t, q), t[q].inode = parent,
         NEW r, r = Append(q, a.name), r \notin DOMAIN t,
         NEW f, Entered(e, f, parent, a)
  PROVE  Mirrors(f, Grown(t, r, NodeOf(a)))
<1> DEFINE node == NodeOf(a)
           s == Grown(t, r, node)
<1>2. a.name \in Names /\ node.inode = a.inode /\ node.type = a.type
  BY DEF EntryRecord, NodeOf
<1>3. /\ DOMAIN s = DOMAIN t \cup {r} /\ s[r] = node
      /\ \A p \in DOMAIN t : s[p] = t[p]
  BY Zenon DEF Grown
<1>4. q \in Seq(Names) /\ q \in DOMAIN t /\ r \in Seq(Names)
  BY <1>2, AppendNotRoot DEF Tree, IsDir
<1> HIDE DEF node
<1>5. ASSUME NEW p \in DOMAIN s, IsDir(s, p)
      PROVE  s[p].inode \in DOMAIN f /\ ListMirrors(f[s[p].inode], s, p)
  <2>1. CASE p = r
    <3>1. ListMirrors(<<>>, s, r)
      BY <1>4, EmptyList, Zenon
    <3>2. s[p].inode = a.inode /\ a.type = "kDirectory"
      BY <1>2, <1>3, <1>5, <2>1 DEF IsDir
    <3> HIDE DEF s
    <3> QED
      BY <2>1, <3>1, <3>2 DEF Entered
  <2>2. CASE p \in DOMAIN t
    <3>1. p \in Seq(Names) /\ IsDir(t, p) /\ s[p].inode = t[p].inode
      BY <1>3, <1>5, <2>2 DEF IsDir, Tree
    <3>2. t[p].inode \in DOMAIN e /\ ListMirrors(e[t[p].inode], t, p)
      BY <2>2, <3>1 DEF Mirrors
    <3>3. CASE p = q
      <4>1. e[parent] \in Seq(EntryRecord) /\ ListMirrors(e[parent], t, q)
        BY <3>2, <3>3 DEF Table
      <4>2. ListMirrors(Append(e[parent], a), s, q)
        BY <1>2, <1>4, <4>1, FirstEntry, Zenon
      <4> HIDE DEF s
      <4> QED
        BY <3>1, <3>2, <3>3, <4>2, Zenon DEF Entered
    <3>4. CASE p # q
      <4>1. t[p].inode # parent
        BY <1>4, <2>2, <3>1, <3>4 DEF Tree
      <4>2. ListMirrors(e[t[p].inode], s, p)
        BY <1>2, <1>4, <3>1, <3>2, <3>4, OtherList, Zenon
      <4> HIDE DEF s
      <4> QED
        BY <3>1, <3>2, <4>1, <4>2 DEF Entered
    <3> QED
      BY <3>3, <3>4
  <2> QED
    BY <1>3, <2>1, <2>2
<1>6. Mirrors(f, s)
  <2> HIDE DEF s
  <2> QED
    BY <1>5 DEF Mirrors
<1> QED
  BY <1>6 DEF node

-----------------------------------------------------------------------------
(* A path goes *)

\* the tree without path g and what is below it
Pruned(t, g) == [p \in {p \in DOMAIN t : ~IsPrefix(g, p)} |-> t[p]]

\* what Pruned keeps
LEMMA PrunedKeeps ==
  ASSUME NEW t, NEW g
  PROVE  /\ \A p : p \in DOMAIN Pruned(t, g) <=> p \in DOMAIN t /\ ~IsPrefix(g, p)
         /\ \A p \in DOMAIN Pruned(t, g) : Pruned(t, g)[p] = t[p]
         /\ Pruned(t, g) = [p \in DOMAIN Pruned(t, g) |-> Pruned(t, g)[p]]
BY DEF Pruned

\* A tree without a path and what is below it is a tree.
LEMMA TreeShrinks ==
  ASSUME NEW t, NEW u, Tree(t, u), NEW q \in Seq(Names), NEW name \in Names,
         NEW g, g = Append(q, name)
  PROVE  Tree(Pruned(t, g), u)
<1> DEFINE s == Pruned(t, g)
<1>1. /\ \A p : p \in DOMAIN s <=> p \in DOMAIN t /\ ~IsPrefix(g, p)
      /\ \A p \in DOMAIN s : s[p] = t[p]
      /\ s = [p \in DOMAIN s |-> s[p]]
  BY PrunedKeeps
<1>2. g \in Seq(Names) /\ Len(g) = Len(q) + 1 /\ Len(q) \in Nat
  OBVIOUS
<1> HIDE DEF s
<1>3. <<>> \in DOMAIN s
  <2>1. <<>> \in Seq(Names) /\ Len(<<>>) = 0
    OBVIOUS
  <2>2. ~IsPrefix(g, <<>>)
    BY <1>2, <2>1 DEF IsPrefix
  <2> QED
    BY <1>1, <2>2 DEF Tree
<1>4. DOMAIN s \subseteq Seq(Names) /\ s \in [DOMAIN s -> NodeRecord]
  <2>1. \A p \in DOMAIN s : s[p] \in NodeRecord
    BY <1>1 DEF Tree
  <2> QED
    BY <1>1, <2>1 DEF Tree
<1>5. ASSUME NEW p \in DOMAIN s, p # <<>>
      PROVE  \E d \in DOMAIN s, x \in Names : IsDir(s, d) /\ p = Append(d, x)
  <2>1. p \in DOMAIN t /\ ~IsPrefix(g, p)
    BY <1>1
  <2>2. PICK d \in DOMAIN t, x \in Names : IsDir(t, d) /\ p = Append(d, x)
    BY <1>5, <2>1 DEF Tree
  <2>3. d \in Seq(Names)
    BY DEF Tree
  <2>4. ~IsPrefix(g, d)
    BY <1>2, <2>1, <2>2, <2>3, PrefixOfAppend, Zenon
  <2>5. d \in DOMAIN s /\ IsDir(s, d)
    BY <1>1, <2>2, <2>4 DEF IsDir
  <2> QED
    BY <2>2, <2>5
<1>6. \A p, d \in DOMAIN s : IsDir(s, p) /\ IsDir(s, d) /\ s[p].inode = s[d].inode => p = d
  BY <1>1 DEF Tree, IsDir
<1>7. /\ s[<<>>].inode = Root /\ s[<<>>].type = "kDirectory"
      /\ \A p \in DOMAIN s : s[p].inode \in {Root} \cup u
  BY <1>1, <1>3 DEF Tree
<1>8. Tree(s, u)
  BY <1>3, <1>4, <1>5, <1>6, <1>7 DEF Tree
<1> QED
  BY <1>8 DEF s

\* The lists of other directories say what they said before.
LEMMA OtherListStays ==
  ASSUME NEW list, NEW t, NEW p \in Seq(Names), ListMirrors(list, t, p),
         NEW q \in Seq(Names), p # q, NEW name \in Names, NEW g, g = Append(q, name),
         ~IsPrefix(g, p)
  PROVE  ListMirrors(list, Pruned(t, g), p)
<1> DEFINE s == Pruned(t, g)
<1>1. /\ \A o : o \in DOMAIN s <=> o \in DOMAIN t /\ ~IsPrefix(g, o)
      /\ \A o \in DOMAIN s : s[o] = t[o]
  BY PrunedKeeps
<1> HIDE DEF s
<1>2. ASSUME NEW x \in Names PROVE ~IsPrefix(g, Append(p, x))
  <2>1. g # Append(p, x)
    BY AppendInjective
  <2>2. g \in Seq(Names)
    OBVIOUS
  <2> QED
    BY <2>1, <2>2, PrefixOfAppend, Zenon
<1>3. ListMirrors(list, s, p)
  BY <1>1, <1>2 DEF ListMirrors
<1> QED
  BY <1>3 DEF s

\* The list of the directory says that the path is gone.
LEMMA ListLoses ==
  ASSUME NEW list \in Seq(EntryRecord), NEW t, NEW q \in Seq(Names), ListMirrors(list, t, q),
         NEW name \in Names, NEW g, g = Append(q, name)
  PROVE  ListMirrors(Without(list, name), Pruned(t, g), q)
<1> DEFINE s == Pruned(t, g)
           left == Without(list, name)
<1>1. /\ \A o : o \in DOMAIN s <=> o \in DOMAIN t /\ ~IsPrefix(g, o)
      /\ \A o \in DOMAIN s : s[o] = t[o]
  BY PrunedKeeps
<1>2. /\ NoneIn(left, Len(left), name)
      /\ \A x, v : x # name /\ FirstIn(list, Len(list), x, v) => FirstIn(left, Len(left), x, v)
      /\ \A x : x # name /\ NoneIn(list, Len(list), x) => NoneIn(left, Len(left), x)
  BY WithoutKeeps
<1>3. g \in Seq(Names) /\ ~IsPrefix(g, q)
  BY NotBelowChild
<1> HIDE DEF s, left
<1>4. ASSUME NEW x \in Names
      PROVE  IF Append(q, x) \in DOMAIN s THEN Denotes(left, x, s[Append(q, x)])
             ELSE NoneIn(left, Len(left), x)
  <2> DEFINE r == Append(q, x)
  <2>1. r = g <=> x = name
    BY AppendInjective
  <2>2. IsPrefix(g, r) <=> g = r
    BY <1>3, PrefixOfAppend, Zenon
  <2>3. IF r \in DOMAIN t THEN Denotes(list, x, t[r]) ELSE NoneIn(list, Len(list), x)
    BY DEF ListMirrors
  <2> HIDE DEF r
  <2>4. r \in DOMAIN s <=> r \in DOMAIN t /\ x # name
    BY <1>1, <2>1, <2>2
  <2>5. CASE x = name
    BY <1>2, <2>4, <2>5 DEF r
  <2>6. CASE x # name /\ r \in DOMAIN t
    <3>1. PICK v \in EntryRecord : /\ FirstIn(list, Len(list), x, v)
                                   /\ v.inode = t[r].inode /\ v.type = t[r].type
      BY <2>3, <2>6 DEF Denotes
    <3>2. Denotes(left, x, s[r])
      BY <1>1, <1>2, <2>4, <2>6, <3>1 DEF Denotes
    <3> QED
      BY <2>4, <2>6, <3>2 DEF r
  <2>7. CASE x # name /\ r \notin DOMAIN t
    BY <1>2, <2>3, <2>4, <2>7 DEF r
  <2> QED
    BY <2>5, <2>6, <2>7
<1>5. ListMirrors(left, s, q)
  BY <1>4 DEF ListMirrors
<1> QED
  BY <1>5 DEF s, left

\* table f is e without the entries of the name in the list of parent
Lost(e, f, parent, name) ==
  /\ DOMAIN f = DOMAIN e
  /\ f[parent] = Without(e[parent], name)
  /\ \A i \in DOMAIN e : i # parent => f[i] = e[i]

\* What RemoveEntry does to the table.
LEMMA TableShrinks ==
  ASSUME NEW e, NEW u, Table(e, u), NEW parent \in DOMAIN e, NEW name
  PROVE  /\ Table(RemoveEntry(e, parent, name), u)
         /\ Lost(e, RemoveEntry(e, parent, name), parent, name)
<1> DEFINE f == RemoveEntry(e, parent, name)
           left == Without(e[parent], name)
<1>1. f = [e EXCEPT ![parent] = left]
  BY DEF RemoveEntry
<1>2. \A i \in DOMAIN e : e[i] \in Seq(EntryRecord)
  BY DEF Table
<1>3. left \in Seq(EntryRecord)
  BY <1>2, WithoutKeeps
<1> HIDE DEF f
<1>4. Lost(e, f, parent, name)
  BY <1>1 DEF Lost
<1> HIDE DEF left
<1>5. f \in [DOMAIN e -> Seq(EntryRecord)] /\ DOMAIN f = DOMAIN e
  BY <1>1, <1>2, <1>3 DEF Table
<1>6. Table(f, u)
  BY <1>5 DEF Table
<1> QED
  BY <1>4, <1>6 DEF f

\* A removal in a directory that has no path any more.
LEMMA RemoveHidden ==
  ASSUME NEW e, NEW t, Mirrors(e, t), NEW parent \in DOMAIN e, NEW name,
         \A p \in DOMAIN t : IsDir(t, p) => t[p].inode # parent,
         NEW f, Lost(e, f, parent, name)
  PROVE  Mirrors(f, t)
BY DEF Mirrors, Lost

\* A removal takes the path and what is below it.
LEMMA RemoveSeen ==
  ASSUME NEW e, NEW u, NEW t, Table(e, u), Tree(t, u), Mirrors(e, t),
         NEW parent \in DOMAIN e, NEW name \in Names,
         NEW q, IsDir(t, q), t[q].inode = parent, NEW g, g = Append(q, name),
         NEW f, Lost(e, f, parent, name)
  PROVE  Mirrors(f, Pruned(t, g))
<1> DEFINE s == Pruned(t, g)
<1>1. /\ \A p : p \in DOMAIN s <=> p \in DOMAIN t /\ ~IsPrefix(g, p)
      /\ \A p \in DOMAIN s : s[p] = t[p]
  BY PrunedKeeps
<1>2. q \in Seq(Names) /\ q \in DOMAIN t
  BY DEF Tree, IsDir
<1> HIDE DEF s
<1>3. ASSUME NEW p \in DOMAIN s, IsDir(s, p)
      PROVE  s[p].inode \in DOMAIN f /\ ListMirrors(f[s[p].inode], s, p)
  <2>1. /\ p \in DOMAIN t /\ ~IsPrefix(g, p) /\ s[p].inode = t[p].inode
        /\ IsDir(t, p)
    BY <1>1, <1>3 DEF IsDir
  <2>2. p \in Seq(Names)
    BY <2>1 DEF Tree
  <2>3. t[p].inode \in DOMAIN e /\ ListMirrors(e[t[p].inode], t, p)
    BY <2>1 DEF Mirrors
  <2>4. CASE p = q
    <3>1. e[parent] \in Seq(EntryRecord) /\ ListMirrors(e[parent], t, q)
      BY <2>3, <2>4 DEF Table
    <3>2. ListMirrors(Without(e[parent], name), s, q)
      BY <1>2, <3>1, ListLoses, Zenon DEF s
    <3> QED
      BY <2>1, <2>3, <2>4, <3>2 DEF Lost
  <2>5. CASE p # q
    <3>1. t[p].inode # parent
      BY <1>2, <2>1, <2>5 DEF Tree
    <3>2. ListMirrors(e[t[p].inode], s, p)
      BY <1>2, <2>1, <2>2, <2>3, <2>5, OtherListStays, Zenon DEF s
    <3> QED
      BY <2>1, <2>3, <3>1, <3>2 DEF Lost
  <2> QED
    BY <2>4, <2>5
<1>4. Mirrors(f, s)
  BY <1>3 DEF Mirrors
<1> QED
  BY <1>4 DEF s

-----------------------------------------------------------------------------
(* The steps *)

\* A directory has one path at most.
LEMMA OnePath ==
  ASSUME NEW u, Tree(tree, u), NEW parent, NEW q \in PathsOf(parent)
  PROVE  PathsOf(parent) = {q} /\ IsDir(tree, q) /\ tree[q].inode = parent
<1>1. \A p \in PathsOf(parent) : p \in DOMAIN tree /\ IsDir(tree, p) /\ tree[p].inode = parent
  BY DEF PathsOf, IsDir
<1>2. \A p \in PathsOf(parent) : p = q
  BY <1>1 DEF Tree
<1> QED
  BY <1>1, <1>2

\* What a create does to the tree: nothing when the directory has no path or has
\* the name, and a new path otherwise.
LEMMA TreeCreateIs ==
  ASSUME NEW u, Tree(tree, u), NEW parent, NEW name, NEW type, NEW inode,
         TreeCreate(parent, name, type, inode)
  PROVE  \/ /\ tree' = tree
            /\ \A p \in PathsOf(parent) : Append(p, name) \in DOMAIN tree
         \/ \E q \in PathsOf(parent) :
              /\ Append(q, name) \notin DOMAIN tree
              /\ tree' = Grown(tree, Append(q, name), NodeOf(NewEntry(name, type, inode)))
<1> DEFINE new == {Append(p, name) : p \in PathsOf(parent)} \ DOMAIN tree
           node == NodeOf(NewEntry(name, type, inode))
<1>1. node = [inode |-> inode, type |-> type]
  BY DEF NodeOf, NewEntry
<1>2. tree' = [p \in DOMAIN tree \cup new |-> IF p \in new THEN node ELSE tree[p]]
  BY <1>1 DEF TreeCreate
<1> HIDE DEF node
<1>3. CASE new = {}
  <2>1. \A p \in PathsOf(parent) : Append(p, name) \in DOMAIN tree
    BY <1>3, Zenon
  <2>2. tree = [p \in DOMAIN tree |-> tree[p]]
    BY DEF Tree
  <2>3. tree' = tree
    <3> HIDE DEF new
    <3> QED
      BY <1>2, <1>3, <2>2
  <2> QED
    BY <2>1, <2>3
<1>4. CASE new # {}
  <2>1. PICK q \in PathsOf(parent) : Append(q, name) \notin DOMAIN tree
    BY <1>4, Zenon
  <2>2. PathsOf(parent) = {q}
    BY OnePath
  <2>3. new = {Append(q, name)}
    BY <2>1, <2>2, Zenon
  <2>4. tree' = Grown(tree, Append(q, name), node)
    <3> HIDE DEF new
    <3> QED
      BY <1>2, <2>1, <2>3 DEF Grown
  <2> QED
    BY <2>1, <2>4 DEF node
<1> QED
  BY <1>3, <1>4

\* What a removal does to the tree.
LEMMA TreeRemoveIs ==
  ASSUME NEW u, Tree(tree, u), NEW parent, NEW name, TreeRemove(parent, name)
  PROVE  \/ tree' = tree /\ PathsOf(parent) = {}
         \/ \E q \in PathsOf(parent) : tree' = Pruned(tree, Append(q, name))
<1> DEFINE gone == {Append(p, name) : p \in PathsOf(parent)}
<1>1. tree' = [p \in {p \in DOMAIN tree : \A g \in gone : ~IsPrefix(g, p)} |-> tree[p]]
  BY DEF TreeRemove
<1>2. CASE PathsOf(parent) = {}
  <2>1. gone = {}
    BY <1>2
  <2>2. tree = [p \in DOMAIN tree |-> tree[p]]
    BY DEF Tree
  <2> HIDE DEF gone
  <2>3. {p \in DOMAIN tree : \A g \in gone : ~IsPrefix(g, p)} = DOMAIN tree
    BY <2>1
  <2> QED
    BY <1>1, <1>2, <2>2, <2>3
<1>3. CASE PathsOf(parent) # {}
  <2>1. PICK q \in PathsOf(parent) : TRUE
    BY <1>3
  <2>2. PathsOf(parent) = {q}
    BY OnePath
  <2>3. gone = {Append(q, name)}
    BY <2>2
  <2> DEFINE g == Append(q, name)
  <2> HIDE DEF gone, g
  <2>4. {p \in DOMAIN tree : \A o \in gone : ~IsPrefix(o, p)}
          = {p \in DOMAIN tree : ~IsPrefix(g, p)}
    BY <2>3 DEF g
  <2>5. tree' = Pruned(tree, g)
    BY <1>1, <2>4 DEF Pruned
  <2> QED
    BY <2>5 DEF g
<1> QED
  BY <1>2, <1>3

\* A create keeps the table and the tree together.
LEMMA CreateStep ==
  ASSUME Table(entries, used), Tree(tree, used), Mirrors(entries, tree),
         NEW parent, NEW name \in Names, NEW type \in Types,
         NEW inode \in Inodes, inode \notin used, used' = used \cup {inode},
         entries' = CreateEntry(entries, parent, name, type, inode),
         TreeCreate(parent, name, type, inode)
  PROVE  Table(entries', used') /\ Tree(tree', used') /\ Mirrors(entries', tree')
<1> DEFINE a == NewEntry(name, type, inode)
<1>1. a \in EntryRecord /\ a.name = name
  BY DEF EntryRecord, NewEntry
<1>2. \A p \in DOMAIN tree : IsDir(tree, p) /\ tree[p].inode = parent <=> p \in PathsOf(parent)
  BY DEF IsDir, PathsOf
<1>3. \/ tree' = tree /\ \A p \in PathsOf(parent) : Append(p, name) \in DOMAIN tree
      \/ \E q \in PathsOf(parent) : /\ Append(q, name) \notin DOMAIN tree
                                    /\ tree' = Grown(tree, Append(q, name), NodeOf(a))
  BY TreeCreateIs
<1>4. CASE parent \notin DOMAIN entries
  <2>1. entries' = entries
    BY <1>4 DEF CreateEntry
  <2>2. PathsOf(parent) = {}
    BY <1>4 DEF PathsOf, Mirrors, IsDir
  <2>3. tree' = tree
    BY <1>3, <2>2
  <2>4. Table(entries, used \cup {inode}) /\ Tree(tree, used \cup {inode})
    BY TreeUses, Zenon DEF Table
  <2> QED
    BY <2>1, <2>3, <2>4
<1>5. CASE parent \in DOMAIN entries
  <2>1. Table(entries', used') /\ Entered(entries, entries', parent, a)
    BY <1>5, TableGrows
  <2> HIDE DEF a
  <2>2. CASE tree' = tree /\ \A p \in PathsOf(parent) : Append(p, name) \in DOMAIN tree
    <3>1. Tree(tree', used')
      BY <2>2, TreeUses, Zenon
    <3>2. \A p \in DOMAIN tree : IsDir(tree, p) /\ tree[p].inode = parent =>
            Append(p, a.name) \in DOMAIN tree
      BY <1>1, <1>2, <2>2
    <3>3. Mirrors(entries', tree)
      BY <1>1, <1>5, <2>1, <3>2, CreateHidden
    <3> QED
      BY <2>1, <2>2, <3>1, <3>3
  <2>3. ASSUME NEW q \in PathsOf(parent), Append(q, name) \notin DOMAIN tree,
               tree' = Grown(tree, Append(q, name), NodeOf(a))
        PROVE  Tree(tree', used') /\ Mirrors(entries', tree')
    <3> DEFINE r == Append(q, name)
               node == NodeOf(a)
    <3>1. IsDir(tree, q) /\ tree[q].inode = parent
      BY OnePath
    <3>2. node = [inode |-> inode, type |-> type]
      BY DEF NodeOf, a, NewEntry
    <3>3. r = Append(q, a.name)
      BY <1>1
    <3>4. r \notin DOMAIN tree /\ tree' = Grown(tree, r, node)
      BY <2>3
    <3>5. r = Append(q, name)
      OBVIOUS
    <3> HIDE DEF r
    <3>6. Mirrors(entries', Grown(tree, r, NodeOf(a)))
      BY <1>1, <1>5, <2>1, <3>1, <3>3, <3>4, CreateSeen, Zenon
    <3> HIDE DEF node
    <3>7. Tree(Grown(tree, r, node), used \cup {inode})
      BY <3>1, <3>2, <3>4, <3>5, TreeGrows, Zenon
    <3> QED
      BY <3>4, <3>6, <3>7 DEF node
  <2> QED
    BY <1>3, <2>1, <2>2, <2>3
<1> QED
  BY <1>4, <1>5

\* A removal keeps the table and the tree together.
LEMMA RemoveStep ==
  ASSUME Table(entries, used), Tree(tree, used), Mirrors(entries, tree),
         NEW parent, NEW name \in Names,
         entries' = RemoveEntry(entries, parent, name), TreeRemove(parent, name)
  PROVE  Table(entries', used) /\ Tree(tree', used) /\ Mirrors(entries', tree')
<1>1. \A p \in DOMAIN tree : IsDir(tree, p) /\ tree[p].inode = parent <=> p \in PathsOf(parent)
  BY DEF IsDir, PathsOf
<1>2. \/ tree' = tree /\ PathsOf(parent) = {}
      \/ \E q \in PathsOf(parent) : tree' = Pruned(tree, Append(q, name))
  BY TreeRemoveIs
<1>3. CASE parent \notin DOMAIN entries
  <2>1. entries' = entries
    BY <1>3 DEF RemoveEntry
  <2>2. PathsOf(parent) = {}
    BY <1>3 DEF PathsOf, Mirrors, IsDir
  <2> QED
    BY <1>2, <2>1, <2>2
<1>4. CASE parent \in DOMAIN entries
  <2>1. Table(entries', used) /\ Lost(entries, entries', parent, name)
    BY <1>4, TableShrinks
  <2>2. CASE tree' = tree /\ PathsOf(parent) = {}
    <3>1. \A p \in DOMAIN tree : IsDir(tree, p) => tree[p].inode # parent
      BY <1>1, <2>2
    <3>2. Mirrors(entries', tree)
      BY <1>4, <2>1, <3>1, RemoveHidden
    <3> QED
      BY <2>1, <2>2, <3>2
  <2>3. ASSUME NEW q \in PathsOf(parent), tree' = Pruned(tree, Append(q, name))
        PROVE  Tree(tree', used) /\ Mirrors(entries', tree')
    <3> DEFINE g == Append(q, name)
    <3>1. IsDir(tree, q) /\ tree[q].inode = parent
      BY OnePath
    <3>2. q \in Seq(Names)
      BY <3>1 DEF IsDir, Tree
    <3>3. tree' = Pruned(tree, g) /\ g = Append(q, name)
      BY <2>3
    <3> HIDE DEF g
    <3>4. Tree(Pruned(tree, g), used)
      BY <3>2, <3>3, TreeShrinks, Zenon
    <3>5. Mirrors(entries', Pruned(tree, g))
      BY <1>4, <2>1, <3>1, <3>3, RemoveSeen, Zenon
    <3> QED
      BY <3>3, <3>4, <3>5
  <2> QED
    BY <1>2, <2>1, <2>2, <2>3
<1> QED
  BY <1>3, <1>4

\* The empty namespace is the tree of the root.
LEMMA InitMirrors ==
  ASSUME Init
  PROVE  NamespaceInv
<1>1. entries = [i \in {Root} |-> <<>>] /\ used = {}
      /\ tree = [p \in {<<>>} |-> [inode |-> Root, type |-> "kDirectory"]]
      /\ job = [c \in Callers |-> Idle]
  BY DEF Init, EmptyNamespace
<1>2. Table(entries, used)
  <2>1. <<>> \in Seq(EntryRecord)
    OBVIOUS
  <2> QED
    BY <1>1, <2>1 DEF Table
<1>3. DOMAIN tree = {<<>>} /\ tree[<<>>].inode = Root /\ tree[<<>>].type = "kDirectory"
  BY <1>1
<1>4. Tree(tree, used)
  <2>1. DOMAIN tree \subseteq Seq(Names)
    <3>1. <<>> \in Seq(Names)
      OBVIOUS
    <3> QED
      BY <1>3, <3>1
  <2>2. [inode |-> Root, type |-> "kDirectory"] \in NodeRecord
    BY DEF NodeRecord, Types
  <2>3. tree \in [DOMAIN tree -> NodeRecord]
    BY <1>1, <2>2
  <2> QED
    BY <1>3, <2>1, <2>3 DEF Tree
<1>5. Mirrors(entries, tree)
  <2>1. ASSUME NEW x \in Names PROVE Append(<<>>, x) \notin DOMAIN tree
    <3>1. <<>> \in Seq(Names)
      OBVIOUS
    <3>2. Append(<<>>, x) # <<>>
      BY <3>1, AppendNotRoot
    <3> QED
      BY <1>3, <3>2
  <2>2. entries[Root] = <<>> /\ Root \in DOMAIN entries
    BY <1>1
  <2>3. \A x : NoneIn(<<>>, Len(<<>>), x)
    BY DEF NoneIn
  <2>4. ListMirrors(<<>>, tree, <<>>)
    BY <2>1, <2>3, Zenon DEF ListMirrors
  <2> QED
    BY <1>3, <2>2, <2>4 DEF Mirrors
<1>6. DOMAIN job = Callers /\ \A c \in Callers : job[c].at # "parent"
  BY <1>1, Zenon DEF Idle
<1> QED
  BY <1>2, <1>4, <1>5, <1>6 DEF NamespaceInv

\* Every step of a caller keeps the invariant.
LEMMA NextMirrors ==
  ASSUME NamespaceInv, [Next]_vars
  PROVE  NamespaceInv'
<1> DEFINE Jobs == DOMAIN job = Callers /\ \A c \in Callers : job[c].at = "parent" => job[c].name \in Names
<1>0. Table(entries, used) /\ Tree(tree, used) /\ Mirrors(entries, tree) /\ Jobs
  BY DEF NamespaceInv
<1>1. CASE UNCHANGED vars
  BY <1>1, SMTT(30) DEF NamespaceInv, vars, Table, Tree, Mirrors, ListMirrors, Denotes, IsDir, NoneIn, FirstIn
<1>2. ASSUME NEW c \in Callers, NEW dir \in Paths, NEW name \in Names, LookupParent(c, dir, name)
      PROVE  NamespaceInv'
  <2>1. entries' = entries /\ used' = used /\ tree' = tree
    BY <1>2 DEF LookupParent
  <2>2. Jobs'
    <3>1. PICK i : job' = [job EXCEPT ![c] = [at |-> "parent", parent |-> i, name |-> name]]
      BY <1>2, Zenon DEF LookupParent
    <3> QED
      BY <1>0, <3>1
  <2>3. (Table(entries, used) /\ Tree(tree, used) /\ Mirrors(entries, tree))'
    BY <1>0, <2>1, SMTT(30) DEF Table, Tree, Mirrors, ListMirrors, Denotes, IsDir, NoneIn, FirstIn
  <2> QED
    BY <2>2, <2>3, Zenon DEF NamespaceInv
<1>3. ASSUME NEW c \in Callers, NEW type \in Types, NEW inode \in Inodes, Create(c, type, inode)
      PROVE  NamespaceInv'
  <2> DEFINE parent == job[c].parent
             name == job[c].name
  <2>1. /\ name \in Names /\ inode \notin used /\ used' = used \cup {inode}
        /\ entries' = CreateEntry(entries, parent, name, type, inode)
        /\ TreeCreate(parent, name, type, inode)
    BY <1>0, <1>3 DEF Create
  <2>2. Jobs'
    BY <1>0, <1>3 DEF Create, Idle
  <2> HIDE DEF parent, name
  <2>3. Table(entries', used') /\ Tree(tree', used') /\ Mirrors(entries', tree')
    BY <1>0, <2>1, CreateStep, Zenon
  <2> QED
    BY <2>2, <2>3, Zenon DEF NamespaceInv
<1>4. ASSUME NEW c \in Callers, Remove(c)
      PROVE  NamespaceInv'
  <2> DEFINE parent == job[c].parent
             name == job[c].name
  <2>1. /\ name \in Names /\ used' = used
        /\ entries' = RemoveEntry(entries, parent, name)
        /\ TreeRemove(parent, name)
    BY <1>0, <1>4 DEF Remove
  <2>2. Jobs'
    BY <1>0, <1>4 DEF Remove, Idle
  <2> HIDE DEF parent, name
  <2>3. Table(entries', used) /\ Tree(tree', used) /\ Mirrors(entries', tree')
    BY <1>0, <2>1, RemoveStep
  <2> QED
    BY <2>1, <2>2, <2>3 DEF NamespaceInv
<1>5. ASSUME NEW c \in Callers, NEW dir \in Paths, LookupParentFails(c, dir)
      PROVE  NamespaceInv'
  BY <1>1, <1>5 DEF LookupParentFails
<1> QED
  BY <1>1, <1>2, <1>3, <1>4, <1>5 DEF Next

\* The table and the promised tree stay together: every directory a path denotes
\* has a list, and the first entry of a name in it is what the longer path denotes.
THEOREM NamespaceMirrorsTree == Spec => []NamespaceInv
<1>1. Init => NamespaceInv
  BY InitMirrors
<1>2. NamespaceInv /\ [Next]_vars => NamespaceInv'
  BY NextMirrors
<1> QED
  BY <1>1, <1>2, PTL DEF Spec

\* Namespace::lookup finds exactly what a path denotes, whatever creates and
\* removals came before and however the two halves of Deva::create interleave.
THEOREM LookupFindsWhatWasPromised == Spec => []LookupFollowsTree
<1>1. NamespaceInv => LookupFollowsTree
  <2> SUFFICES ASSUME NamespaceInv, NEW p \in Paths
               PROVE  IF p \in DOMAIN tree
                      THEN Lookup(entries, p) = Found(tree[p].inode, tree[p].type)
                      ELSE Lookup(entries, p).status = "ENOENT"
    BY DEF LookupFollowsTree
  <2>1. p \in Seq(Names)
    BY DEF Paths
  <2>2. Lookup(entries, p) =
          IF p \in DOMAIN tree THEN Found(tree[p].inode, tree[p].type) ELSE NotFound
    BY <2>1, LookupMirrors DEF NamespaceInv
  <2>3. NotFound.status = "ENOENT"
    BY DEF NotFound
  <2> QED
    BY <2>2, <2>3
<1> QED
  BY <1>1, NamespaceMirrorsTree, PTL
=============================================================================
