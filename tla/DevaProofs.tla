----------------------------- MODULE DevaProofs -----------------------------
(***************************************************************************)
(* The safety properties of Deva for any set of nodes and requests, any    *)
(* number of elections, crashes and snapshots and a log of any length: an  *)
(* operation takes effect at most once and a client is answered at most    *)
(* once; what was acknowledged is visible on the nodes that processed it   *)
(* and replicas that have caught up agree, with the exceptions the code    *)
(* makes.                                                                  *)
(***************************************************************************)
EXTENDS Deva, NamespaceOpsProofs

-----------------------------------------------------------------------------
(* The namespace as a function of the operations that were processed *)

EntryRecord == [inode : Nat, name : STRING, type : {"kFile", "kDirectory"}]
EntryOf(o) == [inode |-> o.inode, name |-> o.name, type |-> TypeOf(o)]

\* where directory d is: an inode is generated for one path
PathOf(d) ==
  IF d = Root THEN <<>>
  ELSE LET o == CHOOSE q \in Ops : q.inode = d IN Append(o.dir, o.name)

Dirs(D) == {o \in D : o.type = "kCreateDir"}

\* table e may be what processing the operations of D has left: its directories
\* and entries are theirs, each in the place it was asked for, and none twice
Holds(e, D) ==
  /\ Root \in DOMAIN e /\ DOMAIN e \subseteq {Root} \cup {o.inode : o \in Dirs(D)}
  /\ e \in [DOMAIN e -> Seq(EntryRecord)]
  /\ \A d \in DOMAIN e : \A k \in 1..Len(e[d]) :
       /\ \E o \in D : e[d][k] = EntryOf(o) /\ o.dir = PathOf(d)
       /\ e[d][k].type = "kDirectory" => e[d][k].inode \in DOMAIN e
  /\ \A c, d \in DOMAIN e : \A j \in 1..Len(e[c]), k \in 1..Len(e[d]) :
       e[c][j].inode = e[d][k].inode => c = d /\ j = k

\* what was asked for in the root is there
RootHolds(e, D) ==
  \A o \in D : o.dir = <<>> => \E k \in 1..Len(e[Root]) : e[Root][k] = EntryOf(o)

\* A path with one more component is not the root.
LEMMA AppendIsLonger ==
  ASSUME NEW S, NEW s \in Seq(S), NEW x \in S
  PROVE  Append(s, x) # <<>>
<1>1. Len(Append(s, x)) = Len(s) + 1 /\ Len(s) \in Nat /\ Len(<<>>) = 0
  OBVIOUS
<1> QED
  BY <1>1

\* The place of the directory a request makes.
LEMMA PathOfRequest ==
  ASSUME NEW o \in Ops
  PROVE  PathOf(o.inode) = Append(o.dir, o.name)
<1>1. (CHOOSE q \in Ops : q.inode = o.inode) = o
  BY InodesAreUnique
<1> QED
  BY <1>1, InodesAreUnique DEF PathOf

\* The empty table, that of a node that has just started.
LEMMA HoldsEmpty ==
  ASSUME NEW D
  PROVE  Holds(EmptyNamespace, D)
<1> DEFINE e == EmptyNamespace
<1>1. DOMAIN e = {Root} /\ e[Root] = <<>> /\ Len(e[Root]) = 0
  BY DEF EmptyNamespace
<1>2. e \in [DOMAIN e -> Seq(EntryRecord)]
  BY DEF EmptyNamespace
<1> HIDE DEF e
<1>3. ASSUME NEW d \in DOMAIN e, NEW k \in 1..Len(e[d]) PROVE FALSE
  BY <1>1, <1>3
<1>4. \A d \in DOMAIN e : \A k \in 1..Len(e[d]) :
        /\ \E o \in D : e[d][k] = EntryOf(o) /\ o.dir = PathOf(d)
        /\ e[d][k].type = "kDirectory" => e[d][k].inode \in DOMAIN e
  BY <1>3
<1>5. \A c, d \in DOMAIN e : \A j \in 1..Len(e[c]), k \in 1..Len(e[d]) :
        e[c][j].inode = e[d][k].inode => c = d /\ j = k
  BY <1>3
<1>6. Root \in DOMAIN e /\ DOMAIN e \subseteq {Root} \cup {o.inode : o \in Dirs(D)}
  BY <1>1, Zenon
<1>7. Holds(e, D)
  BY <1>2, <1>4, <1>5, <1>6, Zenon DEF Holds
<1> QED
  BY <1>7 DEF e

\* An entry is that of a request for the directory it is in.
LEMMA HoldsEntry ==
  ASSUME NEW e, NEW D, Holds(e, D), NEW d \in DOMAIN e, NEW k \in 1..Len(e[d])
  PROVE  \E o \in D : e[d][k] = EntryOf(o) /\ o.dir = PathOf(d)
BY Zenon DEF Holds

\* A directory other than the root is that of a request.
LEMMA HoldsDirectory ==
  ASSUME NEW e, NEW D, Holds(e, D), NEW d \in DOMAIN e, d # Root
  PROVE  \E o \in D : o.type = "kCreateDir" /\ o.inode = d
<1>1. d \in {o.inode : o \in Dirs(D)}
  BY Zenon DEF Holds
<1> QED
  BY <1>1, Zenon DEF Dirs

\* An inode is listed once.
LEMMA HoldsOnce ==
  ASSUME NEW e, NEW D, Holds(e, D), NEW c \in DOMAIN e, NEW d \in DOMAIN e,
         NEW j \in 1..Len(e[c]), NEW k \in 1..Len(e[d])
  PROVE  e[c][j].inode = e[d][k].inode => c = d /\ j = k
<1>1. \A a, b \in DOMAIN e : \A l \in 1..Len(e[a]), m \in 1..Len(e[b]) :
        e[a][l].inode = e[b][m].inode => a = b /\ l = m
  BY Zenon DEF Holds
<1> QED
  BY <1>1

\* More operations explain the same table.
LEMMA HoldsMore ==
  ASSUME NEW e, NEW D, NEW F, D \subseteq F, Holds(e, D)
  PROVE  Holds(e, F)
BY DEF Holds, Dirs

\* What EntryOf is made of.
LEMMA EntryOfFields ==
  ASSUME NEW o \in Ops
  PROVE  /\ EntryOf(o) \in EntryRecord
         /\ EntryOf(o).inode = o.inode /\ EntryOf(o).name = o.name
         /\ EntryOf(o).type = "kDirectory" <=> o.type = "kCreateDir"
         /\ o.dir \in Seq(STRING) /\ o.name \in STRING
<1>1. o \in OpRecord
  BY OpsAreRequests
<1>2. /\ o.inode \in Nat /\ o.name \in STRING /\ o.dir \in Seq(STRING)
  BY <1>1 DEF OpRecord
<1>3. TypeOf(o) \in {"kFile", "kDirectory"} /\ (TypeOf(o) = "kDirectory" <=> o.type = "kCreateDir")
  BY DEF TypeOf
<1> QED
  BY <1>2, <1>3 DEF EntryOf, EntryRecord

\* A lookup that ends in a directory has found the directory of the path.
LEMMA LookupLeads ==
  ASSUME NEW e, NEW D, D \subseteq Ops, Holds(e, D), NEW path \in Seq(STRING),
         Lookup(e, path).status = "OK", Lookup(e, path).type = "kDirectory"
  PROVE  Lookup(e, path).inode \in DOMAIN e /\ PathOf(Lookup(e, path).inode) = path
<1> DEFINE where == [d \in DOMAIN e |-> PathOf(d)]
<1>1. Root \in DOMAIN e /\ \A d \in DOMAIN e : e[d] \in Seq(EntryRecord)
  BY DEF Holds
<1>2. \A v \in EntryRecord : v.type \in {"kFile", "kDirectory"}
  BY DEF EntryRecord
<1>3. where[Root] = <<>>
  BY <1>1 DEF PathOf
<1>4. ASSUME NEW d \in DOMAIN e, NEW k \in 1..Len(e[d]), e[d][k].type = "kDirectory"
      PROVE  e[d][k].inode \in DOMAIN e /\ where[e[d][k].inode] = Append(where[d], e[d][k].name)
  <2>1. PICK o \in D : e[d][k] = EntryOf(o) /\ o.dir = PathOf(d)
    BY <1>4 DEF Holds
  <2>2. e[d][k].inode \in DOMAIN e
    BY <1>4 DEF Holds
  <2>3. e[d][k].inode = o.inode /\ e[d][k].name = o.name
    BY <2>1, EntryOfFields
  <2>4. PathOf(o.inode) = Append(o.dir, o.name)
    BY <2>1, PathOfRequest
  <2> QED
    BY <2>1, <2>2, <2>3, <2>4
<1>5. \A d \in DOMAIN e : \A k \in 1..Len(e[d]) : e[d][k].type = "kDirectory" =>
        e[d][k].inode \in DOMAIN e /\ where[e[d][k].inode] = Append(where[d], e[d][k].name)
  BY <1>4
<1> HIDE DEF where
<1>6. Located(e, EntryRecord, where)
  BY <1>1, <1>2, <1>3, <1>5, Zenon DEF Located
<1>7. LookupLocates(e, path, where)
  BY <1>6, LookupReaches
<1>8. Lookup(e, path).inode \in DOMAIN e /\ where[Lookup(e, path).inode] = path
  BY <1>7 DEF LookupLocates
<1> QED
  BY <1>8 DEF where

\* e has an entry of o
Has(e, o) == \E d \in DOMAIN e : \E k \in 1..Len(e[d]) : e[d][k].inode = o.inode

\* e is part of f: the lists of f go on where those of e end
Extends(e, f) ==
  /\ DOMAIN e \subseteq DOMAIN f
  /\ \A d \in DOMAIN e : \A k \in 1..Len(e[d]) : k \in 1..Len(f[d]) /\ f[d][k] = e[d][k]

\* e with the entry of o at the end of list P, and a list for a directory
Accepted(e, P, o) ==
  [i \in DOMAIN e \cup {q \in {o.inode} : o.type = "kCreateDir"} |->
     IF i = o.inode THEN <<>> ELSE IF i = P THEN Append(e[P], EntryOf(o)) ELSE e[i]]

\* Deva::process puts the entry of a request it accepts at the end of the list of
\* its directory, and a directory also gets an empty list of its own.
LEMMA ProcessAccepts ==
  ASSUME NEW e, NEW D, D \subseteq Ops, Holds(e, D), NEW o \in Ops, o \notin D,
         Status(e, o) = "OK"
  PROVE  \E P \in DOMAIN e :
           /\ PathOf(P) = o.dir /\ o.inode \notin DOMAIN e
           /\ Process(e, o) = Accepted(e, P, o)
<1> DEFINE P == Lookup(e, o.dir).inode
<1>1. Lookup(e, o.dir).status = "OK" /\ Lookup(e, o.dir).type = "kDirectory"
  BY DEF Status
<1>2. P \in DOMAIN e /\ PathOf(P) = o.dir
  BY <1>1, LookupLeads, EntryOfFields
<1>3. o.inode \notin DOMAIN e
  BY InodesAreUnique DEF Holds, Dirs
<1>4. TypeOf(o) = "kDirectory" <=> o.type = "kCreateDir"
  BY DEF TypeOf
<1>5. (IF TypeOf(o) = "kDirectory" THEN {o.inode} ELSE {}) = {q \in {o.inode} : o.type = "kCreateDir"}
  BY <1>4
<1>6. Process(e, o) = CreateEntry(e, P, o.name, TypeOf(o), o.inode)
  BY DEF Process
<1>7. Process(e, o) = Accepted(e, P, o)
  <2> HIDE DEF P
  <2> QED
    BY <1>2, <1>5, <1>6 DEF CreateEntry, EntryOf, Accepted
<1> HIDE DEF P
<1> QED
  BY <1>2, <1>3, <1>7

\* Processing one more request: the table holds it too, keeps what it had, and
\* has an entry of the request if it was accepted.
LEMMA ProcessHolds ==
  ASSUME NEW e, NEW D, D \subseteq Ops, Holds(e, D), NEW o \in Ops, o \notin D
  PROVE  /\ Holds(Process(e, o), D \cup {o})
         /\ Extends(e, Process(e, o))
         /\ RootHolds(e, D) => RootHolds(Process(e, o), D \cup {o})
         /\ Status(e, o) = "OK" => Has(Process(e, o), o)
<1> DEFINE F == D \cup {o}
           f == Process(e, o)
<1>0. Root \in DOMAIN e /\ \A d \in DOMAIN e : e[d] \in Seq(EntryRecord)
  BY DEF Holds
<1>1. CASE Status(e, o) # "OK"
  <2>1. f = e
    BY <1>1 DEF Process
  <2>2. Holds(e, F)
    BY HoldsMore
  <2>3. o.dir # <<>>
    BY <1>1, LookupRoot DEF Status, Found
  <2> QED
    BY <1>1, <2>1, <2>2, <2>3 DEF RootHolds, Extends
<1>2. CASE Status(e, o) = "OK"
  <2> DEFINE X == {q \in {o.inode} : o.type = "kCreateDir"}
  <2>1. PICK P \in DOMAIN e :
          /\ PathOf(P) = o.dir /\ o.inode \notin DOMAIN e
          /\ f = Accepted(e, P, o)
    BY <1>2, ProcessAccepts
  <2>2. EntryOf(o) \in EntryRecord /\ EntryOf(o).inode = o.inode
        /\ (EntryOf(o).type = "kDirectory" <=> o.type = "kCreateDir")
    BY EntryOfFields
  <2> DEFINE L == Len(e[P])
  <2>3. L \in Nat /\ e[P] \in Seq(EntryRecord)
    BY <1>0
  <2> HIDE DEF f
  <2>4. DOMAIN f = DOMAIN e \cup X
    BY <2>1 DEF Accepted
  <2>5. /\ f[P] = Append(e[P], EntryOf(o))
        /\ \A d \in DOMAIN e : d # P => f[d] = e[d]
        /\ \A d \in DOMAIN f : d \notin DOMAIN e => d = o.inode /\ f[d] = <<>>
    BY <2>1 DEF Accepted
  <2>6. /\ Len(f[P]) = L + 1 /\ f[P][L + 1] = EntryOf(o)
        /\ \A k \in 1..L : f[P][k] = e[P][k]
    BY <2>2, <2>3, <2>5
  \* an entry of f is one of e or the new one
  <2>7. ASSUME NEW d \in DOMAIN f, NEW k \in 1..Len(f[d])
        PROVE  \/ d \in DOMAIN e /\ k \in 1..Len(e[d]) /\ f[d][k] = e[d][k]
               \/ d = P /\ k = L + 1 /\ f[d][k] = EntryOf(o)
    <3>1. CASE d = P
      BY <2>3, <2>6, <2>7, <3>1
    <3>2. CASE d # P /\ d \in DOMAIN e
      BY <2>5, <2>7, <3>2
    <3>3. CASE d \notin DOMAIN e
      BY <2>5, <2>7, <3>3
    <3> QED
      BY <3>1, <3>2, <3>3
  <2>8. Extends(e, f)
    <3>1. ASSUME NEW d \in DOMAIN e, NEW k \in 1..Len(e[d])
          PROVE  k \in 1..Len(f[d]) /\ f[d][k] = e[d][k]
      <4>1. CASE d = P
        BY <2>3, <2>6, <4>1
      <4>2. CASE d # P
        BY <2>5, <4>2
      <4> QED
        BY <4>1, <4>2
    <3> QED
      BY <2>4, <3>1 DEF Extends
  <2>9. Holds(f, F)
    <3>1. Root \in DOMAIN f /\ DOMAIN f \subseteq {Root} \cup {q.inode : q \in Dirs(F)}
      BY <2>4 DEF Holds, Dirs
    <3>2. f \in [DOMAIN f -> Seq(EntryRecord)]
      <4>1. ASSUME NEW d \in DOMAIN f PROVE f[d] \in Seq(EntryRecord)
        <5>1. CASE d = P
          BY <2>2, <2>3, <2>5, <5>1
        <5>2. CASE d # P /\ d \in DOMAIN e
          BY <1>0, <2>5, <5>2
        <5>3. CASE d \notin DOMAIN e
          <6>1. f[d] = <<>>
            BY <2>5, <5>3
          <6> QED
            BY <6>1
        <5> QED
          BY <5>1, <5>2, <5>3
      <4>2. f = [d \in DOMAIN f |-> f[d]]
        BY <2>1 DEF Accepted
      <4> QED
        BY <4>1, <4>2
    <3>3. ASSUME NEW d \in DOMAIN f, NEW k \in 1..Len(f[d])
          PROVE  /\ \E q \in F : f[d][k] = EntryOf(q) /\ q.dir = PathOf(d)
                 /\ f[d][k].type = "kDirectory" => f[d][k].inode \in DOMAIN f
      <4>1. CASE d \in DOMAIN e /\ k \in 1..Len(e[d]) /\ f[d][k] = e[d][k]
        <5>1. /\ \E q \in D : e[d][k] = EntryOf(q) /\ q.dir = PathOf(d)
              /\ e[d][k].type = "kDirectory" => e[d][k].inode \in DOMAIN e
          BY <4>1 DEF Holds
        <5> QED
          BY <2>4, <4>1, <5>1
      <4>2. CASE d = P /\ k = L + 1 /\ f[d][k] = EntryOf(o)
        BY <2>1, <2>2, <2>4, <4>2
      <4> QED
        BY <2>7, <4>1, <4>2
    <3>4. ASSUME NEW d \in DOMAIN e, NEW k \in 1..Len(e[d])
          PROVE  e[d][k].inode # o.inode
      <4>1. PICK q \in D : e[d][k] = EntryOf(q)
        BY DEF Holds
      <4> QED
        BY <4>1, EntryOfFields, InodesAreUnique
    <3>5. ASSUME NEW c \in DOMAIN f, NEW d \in DOMAIN f,
                 NEW j \in 1..Len(f[c]), NEW k \in 1..Len(f[d]),
                 f[c][j].inode = f[d][k].inode
          PROVE  c = d /\ j = k
      <4>1. \/ c \in DOMAIN e /\ j \in 1..Len(e[c]) /\ f[c][j] = e[c][j]
            \/ c = P /\ j = L + 1 /\ f[c][j] = EntryOf(o)
        BY <2>7
      <4>2. \/ d \in DOMAIN e /\ k \in 1..Len(e[d]) /\ f[d][k] = e[d][k]
            \/ d = P /\ k = L + 1 /\ f[d][k] = EntryOf(o)
        BY <2>7
      <4>3. \A a, b \in DOMAIN e : \A x \in 1..Len(e[a]), y \in 1..Len(e[b]) :
              e[a][x].inode = e[b][y].inode => a = b /\ x = y
        BY DEF Holds
      <4> QED
        BY <2>2, <3>4, <3>5, <4>1, <4>2, <4>3
    <3> QED
      BY <3>1, <3>2, <3>3, <3>5, ZenonT(30) DEF Holds
  <2>10. RootHolds(e, D) => RootHolds(f, F)
    <3>1. SUFFICES ASSUME RootHolds(e, D), NEW q \in F, q.dir = <<>>
                   PROVE  \E k \in 1..Len(f[Root]) : f[Root][k] = EntryOf(q)
      BY DEF RootHolds
    <3>2. CASE q \in D
      <4>1. PICK k \in 1..Len(e[Root]) : e[Root][k] = EntryOf(q)
        BY <3>1, <3>2 DEF RootHolds
      <4> QED
        BY <1>0, <2>8, <4>1 DEF Extends
    <3>3. CASE q = o
      <4>1. Lookup(e, <<>>).inode = Root
        BY LookupRoot DEF Found
      <4>2. P = Root
        <5>1. ASSUME P # Root PROVE FALSE
          <6>1. PICK r \in D : r.inode = P
            BY <5>1 DEF Holds, Dirs
          <6>2. PathOf(P) = Append(r.dir, r.name)
            BY <6>1, PathOfRequest
          <6>3. r.dir \in Seq(STRING) /\ r.name \in STRING
            BY <6>1, EntryOfFields
          <6>4. Append(r.dir, r.name) = <<>>
            BY <2>1, <3>1, <3>3, <6>2, ZenonT(30)
          <6> QED
            BY <6>3, <6>4, AppendIsLonger
        <5> QED
          BY <5>1
      <4>3. L + 1 \in 1..Len(f[P])
        BY <2>3, <2>6
      <4> QED
        BY <2>6, <3>3, <4>2, <4>3
    <3> QED
      BY <3>2, <3>3
  <2>11. Has(f, o)
    <3>1. L + 1 \in 1..Len(f[P]) /\ P \in DOMAIN f
      BY <2>3, <2>4, <2>6
    <3> QED
      BY <2>2, <2>6, <3>1 DEF Has
  <2> QED
    BY <2>8, <2>9, <2>10, <2>11 DEF f
<1> QED
  BY <1>1, <1>2

\* Where a list has two entries after a request, the first was there before, and
\* so was the second, unless it is the one of the request.
LEMMA ProcessAppends ==
  ASSUME NEW e, NEW D, D \subseteq Ops, Holds(e, D), NEW o \in Ops, o \notin D,
         NEW f, f = Process(e, o),
         NEW d \in DOMAIN f, NEW a \in 1..Len(f[d]), NEW b \in 1..Len(f[d]), a < b
  PROVE  /\ d \in DOMAIN e /\ a \in 1..Len(e[d]) /\ f[d][a] = e[d][a]
         /\ \/ b \in 1..Len(e[d]) /\ f[d][b] = e[d][b]
            \/ f[d][b].inode = o.inode
<1>1. CASE Status(e, o) # "OK"
  <2>1. f = e
    BY <1>1 DEF Process
  <2> QED
    BY <2>1
<1>2. CASE Status(e, o) = "OK"
  <2>1. PICK Q \in DOMAIN e : o.inode \notin DOMAIN e /\ f = Accepted(e, Q, o)
    BY <1>2, ProcessAccepts
  <2>2. /\ \A c \in DOMAIN e : e[c] \in Seq(EntryRecord)
        /\ EntryOf(o) \in EntryRecord /\ EntryOf(o).inode = o.inode
    BY EntryOfFields DEF Holds
  <2>3. /\ f[Q] = Append(e[Q], EntryOf(o))
        /\ \A c \in DOMAIN e : c # Q => f[c] = e[c]
        /\ \A c \in DOMAIN f : c \notin DOMAIN e => f[c] = <<>>
    BY <2>1 DEF Accepted
  <2>4. d \in DOMAIN e
    <3>1. f[d] # <<>>
      BY <1>2
    <3> QED
      BY <2>3, <3>1
  <2>5. CASE d = Q
    <3>1. /\ e[Q] \in Seq(EntryRecord) /\ Len(e[Q]) \in Nat /\ Len(f[Q]) = Len(e[Q]) + 1
          /\ f[Q][Len(e[Q]) + 1] = EntryOf(o) /\ \A k \in 1..Len(e[Q]) : f[Q][k] = e[Q][k]
      BY <2>1, <2>2, <2>3
    <3>2. a \in 1..Len(e[Q]) /\ (b \in 1..Len(e[Q]) \/ b = Len(e[Q]) + 1)
      BY <2>5, <3>1
    <3> QED
      BY <2>2, <2>4, <2>5, <3>1, <3>2
  <2>6. CASE d # Q
    BY <2>3, <2>4, <2>6
  <2> QED
    BY <2>5, <2>6
<1> QED
  BY <1>1, <1>2

-----------------------------------------------------------------------------
(* The inductive invariant *)

TaskRecord == [op : Ops, done : Nodes \cup {None}]

\* the operations that on_apply or a closure has processed on n
DoneOps(n) == {log[i].op : i \in Done(n)}

TypeInv ==
  /\ leader \in Nodes \cup {None} /\ up \subseteq Nodes /\ started \subseteq Nodes
  /\ pending \subseteq TaskRecord /\ log \in Seq(TaskRecord)
  /\ applied \in [Nodes -> Nat] /\ snap \in [Nodes -> Nat]
  /\ closures \in [Nodes -> SUBSET Nat]
  /\ DOMAIN ns = Nodes
  /\ answer = [o \in Ops |-> answer[o]]
  /\ \A n \in Nodes : /\ applied[n] <= Len(log) /\ snap[n] <= applied[n]
                      /\ closures[n] \subseteq 1..applied[n]

\* a request is proposed once
ProposedOnce ==
  /\ \A i, j \in 1..Len(log) : log[i].op = log[j].op => i = j
  /\ \A p, q \in pending : p.op = q.op => p = q
  /\ \A p \in pending : \A i \in 1..Len(log) : p.op # log[i].op
  /\ \A p \in pending : answer[p.op] \notin {"none", "OK"}
  /\ \A i \in 1..Len(log) : answer[log[i].op] # "none"

\* a closure that has not run has a client that waits
ClosureWaits ==
  /\ \A p \in pending : p.done # None => answer[p.op] = "waits"
  /\ \A n \in Nodes : \A i \in 1..Len(log) :
       /\ log[i].done = n /\ (i > applied[n] \/ i \in closures[n]) => answer[log[i].op] = "waits"
       /\ i \in closures[n] => log[i].done = n

\* what a snapshot skipped is below it and has no closure
SkippedInv ==
  /\ skipped \in [Nodes -> SUBSET Nat]
  /\ \A n \in Nodes : skipped[n] \subseteq 1..snap[n] /\ closures[n] \cap skipped[n] = {}

NsInv == \A n \in Nodes : Holds(ns[n], DoneOps(n))

ControlInv == TypeInv /\ ProposedOnce /\ ClosureWaits

DevaInv == ControlInv /\ SkippedInv /\ NsInv

\* what was asked for in the root is there, and a creation of a directory that no
\* snapshot skipped was processed by its own closure
ReplayInv ==
  \A n \in Nodes :
    /\ RootHolds(ns[n], DoneOps(n))
    /\ \A k \in (1..applied[n]) \ skipped[n] : ~Decodable(log[k].op) => log[k].done = n

\* n lists what is at b after what is at a, in one directory, for one of two
\* reasons: it comes later in the log, or a closure of n created it
OrderInv ==
  \A n \in Nodes : \A i, j \in Done(n) : \A d \in DOMAIN ns[n] : \A a, b \in 1..Len(ns[n][d]) :
    a < b /\ ns[n][d][a].inode = log[i].op.inode /\ ns[n][d][b].inode = log[j].op.inode =>
      i < j \/ log[j].done = n

Visible(n, o) == Has(ns[n], o)

\* only a node that has o got past the entry at j with its closure
PassedWith(o, j) == \A n \in Nodes : log[j].done = n => Visible(n, o)

\* the operation o at index i of the log is in the root; or in a directory whose
\* creation is in the log, behind it or where only a node that has o gets past,
\* and it is the same before i, except where a snapshot skipped
PlaceKnown(o, i) ==
  \/ o.dir = <<>>
  \/ /\ \E j \in 1..Len(log) : Makes(log[j].op, o.dir) /\ (j > i \/ (j < i /\ PassedWith(o, j)))
     /\ \A k \in 1..Len(log) : k < i /\ Makes(log[k].op, o.dir) =>
          PassedWith(o, k) \/ \E m \in Nodes : k \in skipped[m]

AckInv ==
  \A o \in Ops : answer[o] = "OK" =>
    \E i \in 1..Len(log) : log[i].op = o /\ PlaceKnown(o, i)

ReplicaInv == DevaInv /\ ReplayInv /\ OrderInv /\ AckInv

-----------------------------------------------------------------------------
(* Control: tasks, closures and answers *)

\* A task whose closure changes hands is a task of the same operation.
LEMMA TaskFields ==
  ASSUME NEW t \in TaskRecord, NEW d \in Nodes \cup {None}
  PROVE  /\ t.op \in Ops /\ t.done \in Nodes \cup {None}
         /\ [t EXCEPT !.done = d] \in TaskRecord
         /\ [t EXCEPT !.done = d].op = t.op /\ [t EXCEPT !.done = d].done = d
BY DEF TaskRecord

\* What is in the log and on its way there.
LEMMA TasksTyped ==
  ASSUME TypeInv
  PROVE  /\ Len(log) \in Nat
         /\ \A p \in pending : /\ p \in TaskRecord
                                /\ p.op \in Ops /\ p.done \in Nodes \cup {None}
         /\ \A i \in 1..Len(log) : /\ log[i] \in TaskRecord
                                    /\ log[i].op \in Ops /\ log[i].done \in Nodes \cup {None}
<1>1. log \in Seq(TaskRecord) /\ pending \subseteq TaskRecord
  BY DEF TypeInv
<1>2. \A t \in TaskRecord : t.op \in Ops /\ t.done \in Nodes \cup {None}
  BY DEF TaskRecord
<1> QED
  BY <1>1, <1>2

\* The initial state: nothing was asked for.
LEMMA ControlInit == Init => ControlInv
<1> SUFFICES ASSUME Init PROVE ControlInv
  OBVIOUS
<1>1. TypeInv
  <2>1. log \in Seq(TaskRecord) /\ Len(log) = 0
    BY DEF Init
  <2> QED
    BY <2>1 DEF Init, TypeInv
<1>2. ProposedOnce /\ ClosureWaits
  BY DEF Init, ProposedOnce, ClosureWaits
<1> QED
  BY <1>1, <1>2 DEF ControlInv

\* Handlers and start: a request is handed to the state machine.
LEMMA ControlRequest ==
  ASSUME ControlInv, NEW n \in Nodes, NEW o \in Ops,
         ApplyNotStarted(n, o) \/ ApplyTask(n, o)
  PROVE  ControlInv'
<1> USE DEF ControlInv
<1>0. /\ leader' = leader /\ log' = log /\ started' = started /\ up' = up /\ applied' = applied
      /\ closures' = closures /\ ns' = ns /\ snap' = snap /\ answer[o] = "none"
  BY DEF ApplyNotStarted, ApplyTask
<1>1. PICK a \in {"hangs", "waits", "EPERM"} : answer' = [answer EXCEPT ![o] = a]
  BY DEF ApplyNotStarted, ApplyTask
<1>2. \/ pending' = pending
      \/ pending' = pending \cup {Task(n, o)} /\ a = "waits"
  <2>1. CASE ApplyNotStarted(n, o)
    BY <2>1 DEF ApplyNotStarted
  <2>2. CASE ApplyTask(n, o) /\ n # leader
    BY <2>2 DEF ApplyTask
  <2>3. CASE ApplyTask(n, o) /\ n = leader
    <3>1. answer' = [answer EXCEPT ![o] = "waits"] /\ pending' = pending \cup {Task(n, o)}
      BY <2>3 DEF ApplyTask
    <3>2. answer = [q \in Ops |-> answer[q]]
      BY DEF TypeInv
    <3> QED
      BY <1>1, <3>1, <3>2
  <2> QED
    BY <2>1, <2>2, <2>3
<1>3. /\ Task(n, o) \in TaskRecord /\ Task(n, o).op = o /\ Task(n, o).done = n
  BY DEF Task, TaskRecord
<1>4. answer' = [q \in Ops |-> answer'[q]] /\ answer'[o] = a /\ \A q \in Ops : q # o => answer'[q] = answer[q]
  BY <1>1, ZenonT(30) DEF TypeInv
<1>5. TypeInv'
  BY <1>0, <1>2, <1>3, <1>4 DEF TypeInv
<1>6. /\ \A p \in pending : p.op \in Ops /\ p.op # o
      /\ \A i \in 1..Len(log) : log[i].op \in Ops /\ log[i].op # o
  BY <1>0, TasksTyped DEF ProposedOnce
<1>7. ProposedOnce'
  BY <1>0, <1>2, <1>3, <1>4, <1>6 DEF ProposedOnce
<1>8. ClosureWaits'
  BY <1>0, <1>2, <1>3, <1>4, <1>6 DEF ClosureWaits
<1> QED
  BY <1>5, <1>7, <1>8

\* A task is committed: it moves from pending to the end of the log.
LEMMA ControlCommit ==
  ASSUME ControlInv, NEW p \in pending, Commit(p)
  PROVE  ControlInv'
<1> USE DEF ControlInv
<1>0. /\ log' = Append(log, p) /\ pending' = pending \ {p}
      /\ leader' = leader /\ started' = started /\ up' = up /\ applied' = applied
      /\ closures' = closures /\ ns' = ns /\ snap' = snap /\ answer' = answer
  BY DEF Commit
<1>1. log \in Seq(TaskRecord) /\ p \in TaskRecord /\ Len(log) \in Nat
  BY TasksTyped DEF TypeInv
<1>2. /\ log' \in Seq(TaskRecord) /\ Len(log') = Len(log) + 1 /\ log'[Len(log) + 1] = p
      /\ \A i \in 1..Len(log) : log'[i] = log[i]
  BY <1>0, <1>1
<1>3. TypeInv'
  BY <1>0, <1>1, <1>2 DEF TypeInv
<1>4. \A i \in 1..Len(log') : i \in 1..Len(log) \/ i = Len(log) + 1
  BY <1>1, <1>2
<1>5. ProposedOnce'
  BY <1>0, <1>1, <1>2, <1>4 DEF ProposedOnce
<1>6. ClosureWaits'
  <2>1. ASSUME NEW n \in Nodes, NEW i \in 1..Len(log'),
               log'[i].done = n, i > applied[n] \/ i \in closures[n]
        PROVE  answer[log'[i].op] = "waits"
    <3>1. CASE i \in 1..Len(log)
      BY <1>2, <2>1, <3>1 DEF ClosureWaits
    <3>2. CASE i = Len(log) + 1
      BY <1>2, <2>1, <3>2, NoneIsNoNode DEF ClosureWaits
    <3> QED
      BY <1>4, <3>1, <3>2
  <2>2. ASSUME NEW n \in Nodes, NEW i \in 1..Len(log'), i \in closures[n]
        PROVE  log'[i].done = n
    <3>1. i \in 1..Len(log)
      BY <1>1, <2>2 DEF TypeInv
    <3> QED
      BY <1>2, <2>2, <3>1 DEF ClosureWaits
  <2> QED
    BY <1>0, <2>1, <2>2 DEF ClosureWaits
<1> QED
  BY <1>3, <1>5, <1>6

\* A new leader: closures that fail are taken from their tasks, and their
\* clients waited until then.
LEMMA ControlElect ==
  ASSUME ControlInv, NEW n \in Nodes, Elect(n)
  PROVE  /\ ControlInv'
         /\ \A o \in Ops : answer[o] \notin {"none", "waits"} => answer'[o] = answer[o]
         /\ \A o \in Ops : answer'[o] = "OK" => answer[o] = "OK"
         /\ Len(log') = Len(log)
         /\ \A i \in 1..Len(log) : /\ log'[i].op = log[i].op
                                   /\ log'[i].done = log[i].done \/ log'[i].done = None
                                   /\ \A m \in Nodes : log[i].done = m /\ i <= applied[m] =>
                                                         log'[i].done = m
<1> USE DEF ControlInv
<1>0. /\ leader' = n /\ started' = started /\ up' = up /\ applied' = applied
      /\ closures' = closures /\ ns' = ns /\ snap' = snap
  BY DEF Elect
<1> DEFINE Lost(clear) == IF clear /\ leader # None
                          THEN {i \in applied[leader] + 1..Len(log) : log[i].done = leader} ELSE {}
           Failed(lost) == {p.op : p \in {q \in pending : q.done # None}} \cup {log[i].op : i \in lost}
<1>1. PICK kept \in SUBSET pending, clear \in BOOLEAN :
        /\ pending' = {[p EXCEPT !.done = None] : p \in kept}
        /\ log' = [i \in 1..Len(log) |->
                     IF i \in Lost(clear) THEN [log[i] EXCEPT !.done = None] ELSE log[i]]
        /\ answer' = [o \in Ops |-> IF o \in Failed(Lost(clear)) THEN "EPERM" ELSE answer[o]]
  BY ZenonT(30) DEF Elect
<1> DEFINE lost == Lost(clear)
           failed == Failed(lost)
<1>2. \A i \in lost : /\ i \in 1..Len(log) /\ leader \in Nodes
                      /\ log[i].done = leader /\ i > applied[leader]
  BY TasksTyped DEF TypeInv
<1>3. \A t \in TaskRecord : /\ [t EXCEPT !.done = None] \in TaskRecord
                            /\ [t EXCEPT !.done = None].op = t.op
                            /\ [t EXCEPT !.done = None].done = None
  BY TaskFields
<1>4. \A o \in failed : /\ o \in Ops /\ answer[o] = "waits"
                        /\ \/ \E p \in pending : p.op = o /\ p.done # None
                           \/ \E i \in lost : log[i].op = o
  <2> HIDE DEF lost
  <2>1. \A i \in lost : log[i].op \in Ops /\ answer[log[i].op] = "waits"
    BY <1>2, TasksTyped DEF ClosureWaits
  <2>2. \A p \in pending : p.op \in Ops /\ (p.done # None => answer[p.op] = "waits")
    BY TasksTyped DEF ClosureWaits
  <2> QED
    BY <2>1, <2>2
<1> HIDE DEF lost
<1>5. /\ log' = [i \in 1..Len(log) |->
                     IF i \in lost THEN [log[i] EXCEPT !.done = None] ELSE log[i]]
      /\ answer' = [o \in Ops |-> IF o \in failed THEN "EPERM" ELSE answer[o]]
  BY <1>1 DEF lost
<1> HIDE DEF failed
<1>6. /\ Len(log') = Len(log) /\ log' \in Seq(TaskRecord)
      /\ \A i \in 1..Len(log) : log'[i].op = log[i].op
      /\ \A i \in lost : log'[i].done = None
      /\ \A i \in 1..Len(log) : i \notin lost => log'[i] = log[i]
  <2>1. \A i \in 1..Len(log) : log[i] \in TaskRecord
    BY TasksTyped
  <2>2. /\ \A i \in 1..Len(log) : log'[i] \in TaskRecord /\ log'[i].op = log[i].op
        /\ \A i \in lost : log'[i].done = None
        /\ \A i \in 1..Len(log) : i \notin lost => log'[i] = log[i]
    BY <1>2, <1>3, <1>5, <2>1
  <2>3. Len(log) \in Nat
    BY TasksTyped
  <2>4. log' = [i \in 1..Len(log) |-> log'[i]]
    BY <1>5
  <2>5. log' \in [1..Len(log) -> TaskRecord]
    BY <2>2, <2>4
  <2>6. log' \in Seq(TaskRecord) /\ Len(log') = Len(log)
    BY <2>3, <2>5
  <2> QED
    BY <2>2, <2>6
<1>7. \A p \in pending' : /\ p \in TaskRecord /\ p.done = None
                          /\ \E q \in pending : p.op = q.op /\ p = [q EXCEPT !.done = None]
  <2>1. pending' = {[p EXCEPT !.done = None] : p \in kept} /\ kept \subseteq pending
    BY <1>1
  <2>2. \A q \in pending : q \in TaskRecord
    BY TasksTyped
  <2>3. ASSUME NEW p \in pending'
        PROVE  \E q \in pending : p = [q EXCEPT !.done = None]
    BY <2>1
  <2> QED
    BY <1>3, <2>2, <2>3, ZenonT(30)
<1>8. TypeInv'
  BY <1>0, <1>5, <1>6, <1>7 DEF TypeInv
<1>9. ProposedOnce'
  <2>1. \A p, q \in pending' : p.op = q.op => p = q
    BY <1>7 DEF ProposedOnce
  <2>2. \A p \in pending' : \A i \in 1..Len(log') : p.op # log'[i].op
    BY <1>6, <1>7 DEF ProposedOnce
  <2>3. \A i, j \in 1..Len(log') : log'[i].op = log'[j].op => i = j
    BY <1>6 DEF ProposedOnce
  <2>4. \A o \in Ops : answer[o] # "none" => answer'[o] # "none"
    BY <1>5
  <2>5. \A o \in Ops : answer[o] # "OK" => answer'[o] # "OK"
    BY <1>5
  <2>6. \A p \in pending' : answer'[p.op] \notin {"none", "OK"}
    BY <1>7, <2>4, <2>5, TasksTyped DEF ProposedOnce
  <2>7. \A i \in 1..Len(log') : answer'[log'[i].op] # "none"
    BY <1>6, <2>4, TasksTyped DEF ProposedOnce
  <2> QED
    BY <2>1, <2>2, <2>3, <2>6, <2>7 DEF ProposedOnce
<1>10. ClosureWaits'
  <2>1. ASSUME NEW m \in Nodes, NEW i \in 1..Len(log),
               log'[i].done = m, i > applied[m] \/ i \in closures[m]
        PROVE  answer'[log'[i].op] = "waits"
    <3>1. i \notin lost /\ log'[i] = log[i]
      BY <1>6, <2>1, NoneIsNoNode
    <3>2. answer[log[i].op] = "waits" /\ log[i].op \in Ops /\ log[i].done # None
      BY <2>1, <3>1, TasksTyped, NoneIsNoNode DEF ClosureWaits
    <3>3. log[i].op \notin failed
      <4>1. \A p \in pending : p.op # log[i].op
        BY DEF ProposedOnce
      <4>2. \A k \in lost : log[k].op # log[i].op
        BY <1>2, <3>1 DEF ProposedOnce
      <4> QED
        BY <1>4, <4>1, <4>2
    <3> QED
      BY <1>5, <3>1, <3>2, <3>3
  <2>2. ASSUME NEW m \in Nodes, NEW i \in 1..Len(log), i \in closures[m]
        PROVE  log'[i].done = m
    <3>1. log[i].done = m /\ i <= applied[m]
      BY <2>2 DEF ClosureWaits, TypeInv
    <3>2. i \notin lost
      BY <1>2, <3>1 DEF TypeInv
    <3> QED
      BY <1>6, <3>1, <3>2
  <2>3. \A p \in pending' : p.done = None
    BY <1>7
  <2> QED
    BY <1>0, <1>6, <2>1, <2>2, <2>3 DEF ClosureWaits
<1>11. \A o \in Ops : answer[o] \notin {"none", "waits"} => answer'[o] = answer[o]
  BY <1>4, <1>5
<1>12. \A o \in Ops : answer'[o] = "OK" => answer[o] = "OK"
  BY <1>5
<1>13. ASSUME NEW i \in 1..Len(log)
       PROVE  /\ log'[i].done = log[i].done \/ log'[i].done = None
              /\ \A m \in Nodes : log[i].done = m /\ i <= applied[m] => log'[i].done = m
  BY <1>2, <1>6 DEF TypeInv
<1> QED
  BY <1>6, <1>8, <1>9, <1>10, <1>11, <1>12, <1>13

\* The death of a process takes its closures with it.
LEMMA ControlDie ==
  ASSUME ControlInv, NEW n \in Nodes, Die(n)
  PROVE  /\ ControlInv'
         /\ \A o \in Ops : answer[o] \notin {"none", "waits"} => answer'[o] = answer[o]
         /\ \A o \in Ops : answer'[o] = "OK" => answer[o] = "OK"
         /\ Len(log') = Len(log)
         /\ \A i \in 1..Len(log) : /\ log'[i].op = log[i].op
                                   /\ log'[i].done = IF log[i].done = n THEN None ELSE log[i].done
<1> USE DEF ControlInv
<1>0. /\ up' = up \ {n} /\ started' = started \ {n}
      /\ leader' = IF leader = n THEN None ELSE leader
      /\ closures' = [closures EXCEPT ![n] = {}]
      /\ ns' = [ns EXCEPT ![n] = EmptyNamespace]
      /\ applied' = [applied EXCEPT ![n] = snap[n]]
      /\ pending' = {[p EXCEPT !.done = IF @ = n THEN None ELSE @] : p \in pending}
      /\ log' = [i \in 1..Len(log) |-> [log[i] EXCEPT !.done = IF @ = n THEN None ELSE @]]
      /\ snap' = snap
  BY DEF Die
<1>1. answer' = [o \in Ops |->
        IF answer[o] = "waits" /\ (\/ \E p \in pending : p.op = o /\ p.done = n
                                   \/ \E i \in 1..Len(log) : log[i].op = o /\ log[i].done = n)
        THEN "broken" ELSE answer[o]]
  BY DEF Die
<1> DEFINE Freed(t) == [t EXCEPT !.done = IF t.done = n THEN None ELSE t.done]
<1>2. \A t \in TaskRecord : /\ Freed(t) \in TaskRecord /\ Freed(t).op = t.op
                            /\ Freed(t).done = IF t.done = n THEN None ELSE t.done
  <2> TAKE t \in TaskRecord
  <2> DEFINE d == IF t.done = n THEN None ELSE t.done
  <2>1. d \in Nodes \cup {None}
    BY DEF TaskRecord
  <2>2. Freed(t) = [t EXCEPT !.done = d]
    OBVIOUS
  <2>3. Freed(t) \in TaskRecord /\ Freed(t).op = t.op /\ Freed(t).done = d
    <3> HIDE DEF d, Freed
    <3> QED
      BY <2>1, <2>2, TaskFields
  <2> QED
    BY <2>3
<1>3. /\ pending' = {Freed(p) : p \in pending}
      /\ log' = [i \in 1..Len(log) |-> Freed(log[i])]
  BY <1>0
<1> HIDE DEF Freed
<1>4. /\ Len(log') = Len(log) /\ log' \in Seq(TaskRecord)
      /\ \A i \in 1..Len(log) : /\ log'[i].op = log[i].op
                                /\ log'[i].done = IF log[i].done = n THEN None ELSE log[i].done
  <2>1. \A i \in 1..Len(log) : log[i] \in TaskRecord
    BY TasksTyped
  <2>2. \A i \in 1..Len(log) : /\ log'[i] \in TaskRecord /\ log'[i].op = log[i].op
                               /\ log'[i].done = IF log[i].done = n THEN None ELSE log[i].done
    BY <1>2, <1>3, <2>1
  <2>3. Len(log) \in Nat
    BY TasksTyped
  <2>4. log' \in [1..Len(log) -> TaskRecord]
    BY <1>3, <2>2
  <2>5. log' \in Seq(TaskRecord) /\ Len(log') = Len(log)
    BY <2>3, <2>4
  <2> QED
    BY <2>2, <2>5
<1>5. \A p \in pending' : /\ p \in TaskRecord
                          /\ \E q \in pending : /\ p.op = q.op /\ p = Freed(q)
                                                /\ p.done = IF q.done = n THEN None ELSE q.done
  BY <1>2, <1>3, TasksTyped
<1>6. /\ closures'[n] = {} /\ applied'[n] = snap[n]
      /\ \A m \in Nodes : m # n => closures'[m] = closures[m] /\ applied'[m] = applied[m]
  BY <1>0 DEF TypeInv
<1>7. TypeInv'
  <2>1. applied' \in [Nodes -> Nat] /\ closures' \in [Nodes -> SUBSET Nat] /\ DOMAIN ns' = Nodes
    BY <1>0 DEF TypeInv
  <2>2. \A m \in Nodes : /\ applied'[m] <= Len(log') /\ snap'[m] <= applied'[m]
                         /\ closures'[m] \subseteq 1..applied'[m]
    <3>1. \A m \in Nodes : /\ applied[m] \in Nat /\ snap[m] \in Nat
                           /\ applied[m] <= Len(log) /\ snap[m] <= applied[m]
                           /\ closures[m] \subseteq 1..applied[m]
      BY DEF TypeInv
    <3> QED
      BY <1>0, <1>4, <1>6, <3>1, TasksTyped
  <2>3. answer' = [o \in Ops |-> answer'[o]]
    BY <1>1
  <2> QED
    BY <1>0, <1>4, <1>5, <2>1, <2>2, <2>3 DEF TypeInv
<1>8. /\ \A o \in Ops : answer[o] \notin {"none", "waits"} => answer'[o] = answer[o]
      /\ \A o \in Ops : answer'[o] = "OK" => answer[o] = "OK"
      /\ \A o \in Ops : answer[o] # "none" => answer'[o] # "none"
  BY <1>1
<1>9. ProposedOnce'
  <2>1. \A p, q \in pending' : p.op = q.op => p = q
    BY <1>5 DEF ProposedOnce
  <2>2. \A p \in pending' : \A i \in 1..Len(log') : p.op # log'[i].op
    BY <1>4, <1>5 DEF ProposedOnce
  <2>3. \A i, j \in 1..Len(log') : log'[i].op = log'[j].op => i = j
    BY <1>4 DEF ProposedOnce
  <2>4. \A p \in pending' : answer'[p.op] \notin {"none", "OK"}
    BY <1>5, <1>8, TasksTyped DEF ProposedOnce
  <2>5. \A i \in 1..Len(log') : answer'[log'[i].op] # "none"
    BY <1>4, <1>8, TasksTyped DEF ProposedOnce
  <2> QED
    BY <2>1, <2>2, <2>3, <2>4, <2>5 DEF ProposedOnce
<1>10. ClosureWaits'
  \* only the clients of n's closures see their connection break
  <2>1. ASSUME NEW m \in Nodes, NEW i \in 1..Len(log), m # n, log[i].done = m,
               answer[log[i].op] = "waits"
        PROVE  answer'[log[i].op] = "waits"
    <3>1. \A p \in pending : p.op # log[i].op
      BY DEF ProposedOnce
    <3>2. \A k \in 1..Len(log) : log[k].op = log[i].op => log[k].done # n
      BY <2>1 DEF ProposedOnce
    <3> QED
      BY <1>1, <2>1, <3>1, <3>2, TasksTyped
  <2>2. ASSUME NEW m \in Nodes, NEW i \in 1..Len(log),
               log'[i].done = m, i > applied'[m] \/ i \in closures'[m]
        PROVE  answer'[log'[i].op] = "waits"
    <3>1. m # n /\ log[i].done = m
      BY <1>4, <2>2, NoneIsNoNode
    <3>2. answer[log[i].op] = "waits"
      BY <1>6, <2>2, <3>1 DEF ClosureWaits
    <3> QED
      BY <1>4, <2>1, <3>1, <3>2
  <2>3. ASSUME NEW m \in Nodes, NEW i \in 1..Len(log), i \in closures'[m]
        PROVE  log'[i].done = m
    <3>1. m # n /\ log[i].done = m
      BY <1>6, <2>3 DEF ClosureWaits
    <3> QED
      BY <1>4, <3>1
  <2>4. ASSUME NEW p \in pending', p.done # None
        PROVE  answer'[p.op] = "waits"
    <3>1. PICK q \in pending : p.op = q.op /\ q.done # n /\ q.done # None
      BY <1>5, <2>4
    <3>2. answer[q.op] = "waits" /\ q.op \in Ops
      BY <3>1, TasksTyped DEF ClosureWaits
    <3>3. /\ \A r \in pending : r.op = q.op => r.done # n
          /\ \A k \in 1..Len(log) : log[k].op # q.op
      BY <3>1 DEF ProposedOnce
    <3> QED
      BY <1>1, <3>1, <3>2, <3>3
  <2> QED
    BY <1>4, <2>2, <2>3, <2>4 DEF ClosureWaits
<1> QED
  BY <1>4, <1>7, <1>8, <1>9, <1>10

\* What a closure tells its client.
LEMMA StatusIsAnswer ==
  ASSUME NEW e, NEW o \in Ops
  PROVE  Status(e, o) \in {"OK", "ENOENT", "EINVAL"}
<1>1. Len(o.dir) \in Nat
  BY EntryOfFields
<1>2. Lookup(e, o.dir).status \in {"OK", "ENOENT"}
  BY <1>1, LookupStatus
<1> QED
  BY <1>2 DEF Status

\* on_apply takes the next entry: it gets a closure of its own, is processed on
\* the spot, or ends the process.
LEMMA ControlOnApply ==
  ASSUME ControlInv, NEW n \in Nodes, OnApply(n), ~Die(n)
  PROVE  ControlInv'
<1> USE DEF ControlInv
<1> DEFINE i == applied[n] + 1
<1>0. /\ leader' = leader /\ pending' = pending /\ log' = log /\ started' = started /\ up' = up
      /\ snap' = snap /\ answer' = answer /\ i <= Len(log)
      /\ applied' = [applied EXCEPT ![n] = i]
      /\ \/ log[i].done = n /\ closures' = [closures EXCEPT ![n] = @ \cup {i}] /\ ns' = ns
         \/ log[i].done # n /\ closures' = closures /\ ns' = [ns EXCEPT ![n] = Process(@, log[i].op)]
  BY DEF OnApply
<1>1. /\ applied[n] \in Nat /\ snap[n] <= applied[n] /\ snap[n] \in Nat
      /\ closures[n] \subseteq 1..applied[n]
  BY DEF TypeInv
<1>2. i \in 1..Len(log)
  BY <1>0, <1>1, TasksTyped, SMTT(30)
<1>3. /\ applied'[n] = i /\ \A m \in Nodes : m # n => applied'[m] = applied[m] /\ closures'[m] = closures[m]
      /\ closures'[n] = closures[n] \/ (closures'[n] = closures[n] \cup {i} /\ log[i].done = n)
      /\ log[i].done = n => i \in closures'[n]
  BY <1>0 DEF TypeInv
<1>4. TypeInv'
  <2>1. applied' \in [Nodes -> Nat] /\ closures' \in [Nodes -> SUBSET Nat] /\ DOMAIN ns' = Nodes
    BY <1>0, <1>1 DEF TypeInv
  <2>2. \A m \in Nodes : /\ applied'[m] <= Len(log') /\ snap'[m] <= applied'[m]
                         /\ closures'[m] \subseteq 1..applied'[m]
    <3>1. \A m \in Nodes : /\ applied[m] <= Len(log) /\ snap[m] <= applied[m]
                           /\ closures[m] \subseteq 1..applied[m]
      BY DEF TypeInv
    <3>2. closures'[n] \subseteq 1..i
      BY <1>1, <1>3
    <3> QED
      BY <1>0, <1>1, <1>3, <3>1, <3>2
  <2> QED
    BY <1>0, <2>1, <2>2 DEF TypeInv
<1>5. ProposedOnce'
  BY <1>0 DEF ProposedOnce
<1>6. ClosureWaits'
  <2>1. ASSUME NEW m \in Nodes, NEW k \in 1..Len(log),
               log[k].done = m, k > applied'[m] \/ k \in closures'[m]
        PROVE  answer[log[k].op] = "waits"
    <3>1. CASE m # n
      BY <1>3, <2>1, <3>1 DEF ClosureWaits
    <3>2. CASE m = n
      <4>1. k > applied[n] \/ k \in closures[n]
        BY <1>1, <1>3, <2>1, <3>2
      <4> QED
        BY <2>1, <3>2, <4>1 DEF ClosureWaits
    <3> QED
      BY <3>1, <3>2
  <2>2. \A m \in Nodes : \A k \in 1..Len(log) : k \in closures'[m] => log[k].done = m
    BY <1>3 DEF ClosureWaits
  <2> QED
    BY <1>0, <2>1, <2>2 DEF ClosureWaits
<1> QED
  BY <1>4, <1>5, <1>6

\* A closure runs: the client that waited for it is answered.
LEMMA ControlRunClosure ==
  ASSUME ControlInv, NEW n \in Nodes, NEW i \in closures[n], RunClosure(n, i)
  PROVE  ControlInv' /\ i \in 1..Len(log) /\ log[i].op \in Ops /\ answer[log[i].op] = "waits"
<1> USE DEF ControlInv
<1>0. /\ leader' = leader /\ pending' = pending /\ log' = log /\ started' = started /\ up' = up
      /\ snap' = snap /\ applied' = applied
      /\ closures' = [closures EXCEPT ![n] = @ \ {i}]
      /\ ns' = [ns EXCEPT ![n] = Process(@, log[i].op)]
      /\ answer' = [answer EXCEPT ![log[i].op] = Status(ns[n], log[i].op)]
  BY DEF RunClosure
<1>1. i \in 1..applied[n] /\ applied[n] \in Nat /\ i \in 1..Len(log)
  BY TasksTyped DEF TypeInv
<1>2. log[i].done = n /\ log[i].op \in Ops /\ answer[log[i].op] = "waits"
  BY <1>1, TasksTyped DEF ClosureWaits
<1>3. /\ closures'[n] = closures[n] \ {i}
      /\ \A m \in Nodes : m # n => closures'[m] = closures[m]
  BY <1>0 DEF TypeInv
<1>4. /\ answer' = [o \in Ops |-> answer'[o]]
      /\ \A o \in Ops : o # log[i].op => answer'[o] = answer[o]
      /\ answer'[log[i].op] = Status(ns[n], log[i].op)
  BY <1>0, <1>2, ZenonT(30) DEF TypeInv
<1>5. TypeInv'
  <2>1. closures' \in [Nodes -> SUBSET Nat] /\ DOMAIN ns' = Nodes
    BY <1>0 DEF TypeInv
  <2>2. \A m \in Nodes : closures'[m] \subseteq 1..applied[m]
    BY <1>3 DEF TypeInv
  <2> QED
    BY <1>0, <1>4, <2>1, <2>2 DEF TypeInv
<1>6. Status(ns[n], log[i].op) # "none"
  BY <1>2, StatusIsAnswer
<1>7. /\ \A p \in pending : p.op # log[i].op
      /\ \A k \in 1..Len(log) : k # i => log[k].op # log[i].op
  BY <1>1 DEF ProposedOnce
<1>8. ProposedOnce'
  BY <1>0, <1>1, <1>4, <1>6, <1>7, TasksTyped, SMTT(30) DEF ProposedOnce
<1>9. ClosureWaits'
  <2>1. ASSUME NEW m \in Nodes, NEW k \in 1..Len(log),
               log[k].done = m, k > applied[m] \/ k \in closures'[m]
        PROVE  answer'[log[k].op] = "waits"
    <3>1. k # i
      BY <1>1, <1>2, <1>3, <2>1
    <3>2. answer[log[k].op] = "waits"
      BY <1>3, <2>1 DEF ClosureWaits
    <3> QED
      BY <1>4, <1>7, <3>1, <3>2, TasksTyped
  <2>2. \A m \in Nodes : \A k \in 1..Len(log) : k \in closures'[m] => log[k].done = m
    BY <1>3 DEF ClosureWaits
  <2>3. \A p \in pending : p.done # None => answer'[p.op] = "waits"
    BY <1>4, <1>7, TasksTyped DEF ClosureWaits
  <2> QED
    BY <1>0, <2>1, <2>2, <2>3, SMTT(30) DEF ClosureWaits
<1> QED
  BY <1>1, <1>2, <1>5, <1>8, <1>9

\* A step that only starts a node or does nothing.
LEMMA ControlStart ==
  ASSUME ControlInv, NEW n \in Nodes, Start(n) \/ Restart(n)
  PROVE  ControlInv'
<1>0. /\ leader' = leader /\ pending' = pending /\ log' = log /\ applied' = applied
      /\ closures' = closures /\ ns' = ns /\ snap' = snap /\ answer' = answer
      /\ up' \subseteq up \cup {n} /\ started' \subseteq started \cup {n}
  BY DEF Start, Restart
<1>1. TypeInv'
  BY <1>0 DEF ControlInv, TypeInv
<1> QED
  BY <1>0, <1>1 DEF ControlInv, ProposedOnce, ClosureWaits

\* Snapshots move applied only over entries without a closure on the node.
LEMMA ControlSnapshot ==
  ASSUME ControlInv, NEW n \in Nodes, SaveSnapshot(n) \/ LoadSnapshot(n)
  PROVE  ControlInv'
<1> USE DEF ControlInv
<1>0. /\ leader' = leader /\ pending' = pending /\ log' = log /\ started' = started /\ up' = up
      /\ closures' = closures /\ ns' = ns /\ answer' = answer
  BY DEF SaveSnapshot, LoadSnapshot
<1>1. \A m \in Nodes : /\ applied[m] \in Nat /\ snap[m] \in Nat
                       /\ applied[m] <= Len(log) /\ snap[m] <= applied[m]
                       /\ closures[m] \subseteq 1..applied[m]
  BY DEF TypeInv
<1> DEFINE MovesTo(a) == /\ a >= applied[n] /\ a <= Len(log)
                         /\ applied' = [applied EXCEPT ![n] = a] /\ snap' = [snap EXCEPT ![n] = a]
                         /\ \A i \in applied[n] + 1..a : log[i].done # n
<1>2. \E a \in Nat : MovesTo(a)
  <2>1. CASE SaveSnapshot(n)
    <3>1. applied' = [applied EXCEPT ![n] = applied[n]]
      BY <2>1 DEF SaveSnapshot, TypeInv
    <3>2. snap' = [snap EXCEPT ![n] = applied[n]]
      BY <2>1 DEF SaveSnapshot
    <3>3. MovesTo(applied[n])
      BY <1>1, <3>1, <3>2
    <3> HIDE DEF MovesTo
    <3> QED
      BY <1>1, <3>3
  <2>2. CASE LoadSnapshot(n)
    <3>1. leader \in Nodes
      BY <2>2 DEF LoadSnapshot, TypeInv
    <3>2. snap[leader] \in Nat /\ snap[leader] <= Len(log)
      BY <1>1, <3>1, TasksTyped
    <3>3. applied[n] < snap[leader]
      BY <2>2 DEF LoadSnapshot
    <3>4. MovesTo(snap[leader])
      BY <1>1, <2>2, <3>2, <3>3 DEF LoadSnapshot
    <3> HIDE DEF MovesTo
    <3> QED
      BY <3>2, <3>4
  <2> QED
    BY <2>1, <2>2
<1>3. PICK a \in Nat : MovesTo(a)
  BY <1>2, ZenonT(30)
<1>4. /\ applied'[n] = a /\ snap'[n] = a
      /\ \A m \in Nodes : m # n => applied'[m] = applied[m] /\ snap'[m] = snap[m]
      /\ applied' \in [Nodes -> Nat] /\ snap' \in [Nodes -> Nat]
  BY <1>3 DEF TypeInv
<1>5. TypeInv'
  <2>1. closures[n] \subseteq 1..a
    BY <1>1, <1>3
  <2>2. \A m \in Nodes : /\ applied'[m] <= Len(log) /\ snap'[m] <= applied'[m]
                         /\ closures[m] \subseteq 1..applied'[m]
    BY <1>1, <1>3, <1>4, <2>1
  <2> QED
    BY <1>0, <1>4, <2>2 DEF TypeInv
<1>6. ProposedOnce'
  BY <1>0 DEF ProposedOnce
<1>7. ClosureWaits'
  <2>1. ASSUME NEW m \in Nodes, NEW k \in 1..Len(log),
               log[k].done = m, k > applied'[m] \/ k \in closures[m]
        PROVE  answer[log[k].op] = "waits"
    <3>1. k > applied[m] \/ k \in closures[m]
      BY <1>1, <1>3, <1>4, <2>1
    <3> QED
      BY <2>1, <3>1 DEF ClosureWaits
  <2> QED
    BY <1>0, <2>1 DEF ClosureWaits
<1> QED
  BY <1>5, <1>6, <1>7

\* The actions of Next, with Crash and the failed assertion of decode as Die.
LEMMA NextCases ==
  ASSUME [Next]_vars
  PROVE  \/ \E n \in Nodes, o \in Ops : ApplyNotStarted(n, o) \/ ApplyTask(n, o)
         \/ \E n \in Nodes : Start(n) \/ Restart(n)
         \/ \E n \in Nodes : Elect(n)
         \/ \E n \in Nodes : Die(n)
         \/ \E n \in Nodes : OnApply(n) /\ ~Die(n)
         \/ \E n \in Nodes : \E i \in closures[n] : RunClosure(n, i)
         \/ \E n \in Nodes : SaveSnapshot(n) \/ LoadSnapshot(n)
         \/ \E p \in pending : Commit(p)
         \/ UNCHANGED vars
BY ZenonT(30) DEF Next, Crash, Idle

\* Every step keeps the control invariant.
LEMMA ControlStep == ControlInv /\ [Next]_vars => ControlInv'
<1> SUFFICES ASSUME ControlInv, [Next]_vars PROVE ControlInv'
  OBVIOUS
<1>1. ASSUME UNCHANGED vars PROVE ControlInv'
  BY <1>1 DEF vars, ControlInv, TypeInv, ProposedOnce, ClosureWaits
<1> QED
  BY <1>1, NextCases, ControlRequest, ControlStart, ControlElect, ControlDie, ControlOnApply,
     ControlRunClosure, ControlSnapshot, ControlCommit, Zenon

-----------------------------------------------------------------------------
(* A client is answered once *)

\* A client is answered once: the closure of its task does not run again after
\* a step-down failed it, and neither does the step-down fail an entry whose
\* closure has run.
RepliedOnce ==
  [][\A o \in Ops : answer[o] \notin {"none", "waits"} => answer'[o] = answer[o]]_vars

\* A client is answered once, whatever fails: by the closure of its task, by the
\* step-down of the leader or by the end of the process (OpClosure::Run).
THEOREM ClientsAreAnsweredOnce == Spec => RepliedOnce
<1> DEFINE Answers == \A o \in Ops : answer[o] \notin {"none", "waits"} => answer'[o] = answer[o]
<1>1. ASSUME ControlInv, [Next]_vars PROVE Answers
  <2>1. ASSUME NEW n \in Nodes, NEW o \in Ops, ApplyNotStarted(n, o) \/ ApplyTask(n, o)
        PROVE  Answers
    <3>1. answer[o] = "none" /\ \E a : answer' = [answer EXCEPT ![o] = a]
      BY <2>1 DEF ApplyNotStarted, ApplyTask
    <3> QED
      BY <1>1, <3>1 DEF ControlInv, TypeInv
  <2>2. ASSUME NEW n \in Nodes, NEW i \in closures[n], RunClosure(n, i)
        PROVE  Answers
    <3>1. answer[log[i].op] = "waits"
      BY <1>1, <2>2, ControlRunClosure
    <3>2. \E a : answer' = [answer EXCEPT ![log[i].op] = a]
      BY <2>2, ZenonT(30) DEF RunClosure
    <3> QED
      BY <1>1, <3>1, <3>2 DEF ControlInv, TypeInv
  <2>3. ASSUME NEW n \in Nodes, Elect(n) PROVE Answers
    BY <1>1, <2>3, ControlElect
  <2>4. ASSUME NEW n \in Nodes, Die(n) PROVE Answers
    BY <1>1, <2>4, ControlDie
  <2>5. ASSUME NEW n \in Nodes, Start(n) \/ Restart(n) PROVE Answers
    BY <2>5 DEF Start, Restart
  <2>6. ASSUME NEW n \in Nodes, OnApply(n), ~Die(n) PROVE Answers
    BY <2>6 DEF OnApply
  <2>7. ASSUME NEW n \in Nodes, SaveSnapshot(n) \/ LoadSnapshot(n) PROVE Answers
    BY <2>7 DEF SaveSnapshot, LoadSnapshot
  <2>8. ASSUME NEW p \in pending, Commit(p) PROVE Answers
    BY <2>8 DEF Commit
  <2>9. ASSUME UNCHANGED vars PROVE Answers
    BY <2>9 DEF vars
  <2> HIDE DEF Answers
  <2> QED
    BY <1>1, NextCases, <2>1, <2>2, <2>3, <2>4, <2>5, <2>6, <2>7, <2>8, <2>9, Zenon
<1>2. Spec => []ControlInv
  BY ControlInit, ControlStep, PTL DEF Spec
<1>3. ControlInv /\ [Next]_vars => [Answers]_vars
  BY <1>1
<1> QED
  BY <1>2, <1>3, PTL DEF Spec, RepliedOnce

-----------------------------------------------------------------------------
(* What a step does to the namespace of a node *)

\* A node skips entries with a snapshot only, and stays past them.
LEMMA SkippedStep ==
  ASSUME ControlInv, SkippedInv, [Next]_vars
  PROVE  SkippedInv' /\ \A m \in Nodes : skipped[m] \subseteq skipped'[m]
<1> USE DEF ControlInv
<1>0. \A m \in Nodes : /\ applied[m] \in Nat /\ snap[m] \in Nat /\ snap[m] <= applied[m]
                       /\ closures[m] \subseteq 1..applied[m]
                       /\ skipped[m] \subseteq 1..snap[m] /\ closures[m] \cap skipped[m] = {}
  BY DEF TypeInv, SkippedInv
<1> DEFINE SkippedGrows == SkippedInv' /\ \A m \in Nodes : skipped[m] \subseteq skipped'[m]
<1>1. ASSUME skipped' = skipped, snap' = snap, closures' = closures PROVE SkippedGrows
  BY <1>1 DEF SkippedInv
<1>2. ASSUME NEW n \in Nodes, NEW o \in Ops, ApplyNotStarted(n, o) \/ ApplyTask(n, o)
      PROVE  skipped' = skipped /\ snap' = snap /\ closures' = closures
  BY <1>2 DEF ApplyNotStarted, ApplyTask
<1>3. ASSUME NEW n \in Nodes, Start(n) \/ Restart(n) \/ Elect(n)
      PROVE  skipped' = skipped /\ snap' = snap /\ closures' = closures
  BY <1>3 DEF Start, Restart, Elect
<1>4. ASSUME NEW p \in pending, Commit(p)
      PROVE  skipped' = skipped /\ snap' = snap /\ closures' = closures
  BY <1>4 DEF Commit
<1>5. ASSUME UNCHANGED vars PROVE skipped' = skipped /\ snap' = snap /\ closures' = closures
  BY <1>5 DEF vars
<1>6. ASSUME NEW n \in Nodes, Die(n) PROVE SkippedGrows
  <2>1. /\ snap' = snap /\ closures' = [closures EXCEPT ![n] = {}]
        /\ skipped' = [skipped EXCEPT ![n] = 1..snap[n]]
    BY <1>6 DEF Die
  <2>2. /\ skipped' \in [Nodes -> SUBSET Nat] /\ skipped'[n] = 1..snap[n] /\ closures'[n] = {}
        /\ \A m \in Nodes : m # n => skipped'[m] = skipped[m] /\ closures'[m] = closures[m]
    BY <1>0, <2>1 DEF TypeInv, SkippedInv
  <2> QED
    BY <1>0, <2>1, <2>2 DEF SkippedInv
<1>7. ASSUME NEW n \in Nodes, OnApply(n), ~Die(n) PROVE SkippedGrows
  <2>1. /\ skipped' = skipped /\ snap' = snap
        /\ closures' = closures \/ closures' = [closures EXCEPT ![n] = @ \cup {applied[n] + 1}]
    BY <1>7 DEF OnApply
  <2>2. \A m \in Nodes : /\ m # n => closures'[m] = closures[m]
                         /\ closures'[n] \subseteq closures[n] \cup {applied[n] + 1}
    BY <2>1 DEF TypeInv
  <2>3. applied[n] + 1 \notin skipped[n]
    BY <1>0
  <2> QED
    BY <1>0, <2>1, <2>2, <2>3 DEF SkippedInv
<1>8. ASSUME NEW n \in Nodes, NEW i \in closures[n], RunClosure(n, i) PROVE SkippedGrows
  <2>1. skipped' = skipped /\ snap' = snap /\ closures' = [closures EXCEPT ![n] = @ \ {i}]
    BY <1>8, Zenon DEF RunClosure
  <2>2. \A m \in Nodes : closures'[m] \subseteq closures[m]
    BY <2>1 DEF TypeInv
  <2> QED
    BY <1>0, <2>1, <2>2 DEF SkippedInv
<1>9. ASSUME NEW n \in Nodes, SaveSnapshot(n) PROVE SkippedGrows
  <2>1. skipped' = skipped /\ closures' = closures /\ snap' = [snap EXCEPT ![n] = applied[n]]
    BY <1>9 DEF SaveSnapshot
  <2>2. \A m \in Nodes : snap'[m] \in Nat /\ snap[m] <= snap'[m]
    BY <1>0, <2>1 DEF TypeInv
  <2>3. \A m \in Nodes : skipped[m] \subseteq 1..snap'[m]
    BY <1>0, <2>2
  <2> QED
    BY <1>0, <2>1, <2>3 DEF SkippedInv
<1>10. ASSUME NEW n \in Nodes, LoadSnapshot(n) PROVE SkippedGrows
  <2>1. /\ closures' = closures /\ leader \in Nodes /\ applied[n] < snap[leader]
        /\ snap' = [snap EXCEPT ![n] = snap[leader]]
        /\ skipped' = [skipped EXCEPT ![n] = @ \cup (applied[n] + 1..snap[leader])]
    BY <1>10 DEF LoadSnapshot, TypeInv
  <2>2. /\ skipped'[n] = skipped[n] \cup (applied[n] + 1..snap[leader]) /\ snap'[n] = snap[leader]
        /\ \A m \in Nodes : m # n => skipped'[m] = skipped[m] /\ snap'[m] = snap[m]
        /\ skipped' = [m \in Nodes |-> skipped'[m]]
    BY <2>1, Zenon DEF TypeInv, SkippedInv
  <2>3. skipped'[n] \subseteq 1..snap'[n] /\ closures[n] \cap skipped'[n] = {}
    BY <1>0, <2>1, <2>2
  <2>4. \A m \in Nodes : skipped'[m] \in SUBSET Nat
    BY <1>0, <2>1, <2>2
  <2> QED
    BY <1>0, <2>1, <2>2, <2>3, <2>4 DEF SkippedInv
<1> HIDE DEF SkippedGrows
<1>11. SkippedGrows
  BY NextCases, <1>1, <1>2, <1>3, <1>4, <1>5, <1>6, <1>7, <1>8, <1>9, <1>10, ZenonT(30)
<1> QED
  BY <1>11 DEF SkippedGrows

\* What has been processed on a node is an operation of the log.
LEMMA DoneIsLogged ==
  ASSUME TypeInv, NEW n \in Nodes
  PROVE  Done(n) \subseteq 1..Len(log) /\ DoneOps(n) \subseteq Ops
<1>1. Done(n) \subseteq 1..Len(log)
  BY TasksTyped DEF TypeInv, Done
<1> QED
  BY <1>1, TasksTyped DEF DoneOps

\* What does not touch a node leaves it the operations it has processed.
LEMMA SameDone ==
  ASSUME TypeInv, NEW n \in Nodes, applied'[n] = applied[n], closures'[n] = closures[n],
         skipped'[n] = skipped[n], \A i \in 1..Len(log) : log'[i].op = log[i].op
  PROVE  Done(n)' = Done(n) /\ DoneOps(n)' = DoneOps(n)
<1>1. Done(n)' = Done(n)
  BY DEF Done
<1>2. \A i \in Done(n) : log'[i].op = log[i].op
  BY DoneIsLogged
<1> QED
  BY <1>1, <1>2 DEF DoneOps

\* one step of the namespace of n: nothing, the death of its process, or the
\* processing of one operation more, which is the latest or has a closure of n
Stays(n) == ns'[n] = ns[n] /\ Done(n)' = Done(n) /\ DoneOps(n)' = DoneOps(n)
Starts(n) == ns'[n] = EmptyNamespace /\ Done(n)' = {} /\ DoneOps(n)' = {}
GrowsBy(n, i) ==
  /\ log' = log /\ log[i].op \notin DoneOps(n)
  /\ ns'[n] = Process(ns[n], log[i].op)
  /\ Done(n)' = Done(n) \cup {i} /\ DoneOps(n)' = DoneOps(n) \cup {log[i].op}
  /\ log[i].done = n \/ \A k \in Done(n) : k < i
Grows(n) == \E i \in 1..Len(log) : GrowsBy(n, i)

\* on_apply of an entry without a closure processes it, and it was not processed
\* before.
LEMMA OnApplyEffect ==
  ASSUME ControlInv, SkippedInv, NEW n \in Nodes, OnApply(n), ~Die(n), NEW m \in Nodes
  PROVE  Stays(m) \/ Grows(m)
<1> USE DEF ControlInv
<1> DEFINE i == applied[n] + 1
<1>0. /\ log' = log /\ i <= Len(log) /\ skipped' = skipped
      /\ applied' = [applied EXCEPT ![n] = i]
      /\ \/ log[i].done = n /\ closures' = [closures EXCEPT ![n] = @ \cup {i}] /\ ns' = ns
         \/ log[i].done # n /\ closures' = closures /\ ns' = [ns EXCEPT ![n] = Process(@, log[i].op)]
  BY DEF OnApply
<1>1. /\ applied[n] \in Nat /\ closures[n] \subseteq 1..applied[n]
      /\ snap[n] \in Nat /\ snap[n] <= applied[n] /\ skipped[n] \subseteq 1..snap[n]
  BY DEF TypeInv, SkippedInv
<1>2. i \in 1..Len(log)
  BY <1>0, <1>1, TasksTyped, SMTT(30)
<1>3. applied'[n] = i /\ i \notin Done(n) /\ i \notin closures[n] /\ i \notin skipped[n]
  BY <1>0, <1>1 DEF TypeInv, Done
<1>4. CASE m # n
  <2>1. /\ applied'[m] = applied[m] /\ closures'[m] = closures[m] /\ ns'[m] = ns[m]
        /\ skipped'[m] = skipped[m]
    BY <1>0, <1>4 DEF TypeInv
  <2>2. Done(m)' = Done(m) /\ DoneOps(m)' = DoneOps(m)
    BY <1>0, <2>1, SameDone
  <2> QED
    BY <2>1, <2>2 DEF Stays
<1>5. CASE m = n /\ log[i].done = n
  <2>1. closures'[n] = closures[n] \cup {i} /\ ns' = ns
    BY <1>0, <1>5 DEF TypeInv
  <2>2. Done(n)' = Done(n)
    BY <1>0, <1>1, <1>3, <2>1, SMTT(30) DEF Done
  <2>3. DoneOps(n)' = DoneOps(n)
    BY <1>0, <2>2 DEF DoneOps
  <2> QED
    BY <1>5, <2>1, <2>2, <2>3 DEF Stays
<1>6. CASE m = n /\ log[i].done # n
  <2>1. closures'[n] = closures[n] /\ ns'[n] = Process(ns[n], log[i].op)
    BY <1>0, <1>6 DEF TypeInv
  <2>2. Done(n)' = Done(n) \cup {i} /\ \A k \in Done(n) : k < i
    BY <1>0, <1>1, <1>3, <2>1, SMTT(30) DEF Done
  <2>3. DoneOps(n)' = DoneOps(n) \cup {log[i].op}
    <3> HIDE DEF i
    <3> QED
      BY <1>0, <2>2 DEF DoneOps
  <2>4. log[i].op \notin DoneOps(n)
    <3>1. \A k \in Done(n) : k \in 1..Len(log) /\ k # i
      BY <1>3, DoneIsLogged
    <3>2. \A k \in 1..Len(log) : k # i => log[k].op # log[i].op
      BY <1>2, Zenon DEF ProposedOnce
    <3> QED
      BY <3>1, <3>2 DEF DoneOps
  <2> HIDE DEF i
  <2>5. GrowsBy(n, i)
    BY <1>0, <2>1, <2>2, <2>3, <2>4, Zenon DEF GrowsBy
  <2> QED
    BY <1>2, <1>6, <2>5 DEF Grows
<1> QED
  BY <1>4, <1>5, <1>6

\* A closure processes its operation, and it was not processed before.
LEMMA RunClosureEffect ==
  ASSUME ControlInv, SkippedInv, NEW n \in Nodes, NEW i \in closures[n], RunClosure(n, i),
         NEW m \in Nodes
  PROVE  /\ Stays(m) \/ Grows(m)
         /\ i \in Done(n)'
         /\ ns'[n] = Process(ns[n], log[i].op) /\ log[i].op \notin DoneOps(n)
<1> USE DEF ControlInv
<1>0. /\ log' = log /\ applied' = applied /\ skipped' = skipped
      /\ closures' = [closures EXCEPT ![n] = @ \ {i}]
      /\ ns' = [ns EXCEPT ![n] = Process(@, log[i].op)]
  BY Zenon DEF RunClosure
<1>1. i \in 1..applied[n] /\ i \in 1..Len(log) /\ i \notin skipped[n] /\ log[i].done = n
  BY TasksTyped DEF TypeInv, SkippedInv, ClosureWaits
<1>2. closures'[n] = closures[n] \ {i} /\ ns'[n] = Process(ns[n], log[i].op)
  BY <1>0 DEF TypeInv
<1>3. Done(n)' = Done(n) \cup {i} /\ i \notin Done(n)
  BY <1>0, <1>1, <1>2 DEF Done
<1>4. DoneOps(n)' = DoneOps(n) \cup {log[i].op}
  BY <1>0, <1>3 DEF DoneOps
<1>5. log[i].op \notin DoneOps(n)
  <2>1. \A k \in Done(n) : k \in 1..Len(log) /\ k # i
    BY <1>3, DoneIsLogged
  <2>2. \A k \in 1..Len(log) : k # i => log[k].op # log[i].op
    BY <1>1 DEF ProposedOnce
  <2> QED
    BY <2>1, <2>2 DEF DoneOps
<1>6. GrowsBy(n, i)
  BY <1>0, <1>1, <1>2, <1>3, <1>4, <1>5, Zenon DEF GrowsBy
<1>7. Grows(n)
  BY <1>1, <1>6 DEF Grows
<1>8. CASE m # n
  <2>1. closures'[m] = closures[m] /\ ns'[m] = ns[m]
    BY <1>0, <1>8 DEF TypeInv
  <2>2. Done(m)' = Done(m) /\ DoneOps(m)' = DoneOps(m)
    BY <1>0, <2>1, SameDone
  <2>3. Stays(m)
    BY <2>1, <2>2 DEF Stays
  <2> QED
    BY <1>2, <1>3, <1>5, <2>3
<1> QED
  BY <1>2, <1>3, <1>5, <1>7, <1>8, Zenon

\* Every step does one of the three to the namespace of a node.
LEMMA StepEffect ==
  ASSUME ControlInv, SkippedInv, [Next]_vars, NEW m \in Nodes
  PROVE  Stays(m) \/ (Die(m) /\ Starts(m)) \/ Grows(m)
<1> USE DEF ControlInv
<1>1. ASSUME NEW n \in Nodes, NEW o \in Ops, ApplyNotStarted(n, o) \/ ApplyTask(n, o)
      PROVE  Stays(m)
  <2>1. log' = log /\ applied' = applied /\ closures' = closures /\ skipped' = skipped /\ ns' = ns
    BY <1>1 DEF ApplyNotStarted, ApplyTask
  <2> QED
    BY <2>1, SameDone DEF Stays
<1>2. ASSUME NEW n \in Nodes, Start(n) \/ Restart(n) PROVE Stays(m)
  <2>1. log' = log /\ applied' = applied /\ closures' = closures /\ skipped' = skipped /\ ns' = ns
    BY <1>2 DEF Start, Restart
  <2> QED
    BY <2>1, SameDone DEF Stays
<1>3. ASSUME NEW n \in Nodes, Elect(n) PROVE Stays(m)
  <2>1. applied' = applied /\ closures' = closures /\ skipped' = skipped /\ ns' = ns
    BY <1>3 DEF Elect
  <2>2. \A i \in 1..Len(log) : log'[i].op = log[i].op
    BY <1>3, ControlElect
  <2> QED
    BY <2>1, <2>2, SameDone DEF Stays
<1>4. ASSUME NEW n \in Nodes, Die(n) PROVE Stays(m) \/ (Die(m) /\ Starts(m))
  <2>1. /\ applied' = [applied EXCEPT ![n] = snap[n]] /\ closures' = [closures EXCEPT ![n] = {}]
        /\ ns' = [ns EXCEPT ![n] = EmptyNamespace] /\ skipped' = [skipped EXCEPT ![n] = 1..snap[n]]
    BY <1>4 DEF Die
  <2>2. CASE m # n
    <3>1. \A i \in 1..Len(log) : log'[i].op = log[i].op
      BY <1>4, ControlDie
    <3>2. /\ applied'[m] = applied[m] /\ closures'[m] = closures[m] /\ ns'[m] = ns[m]
          /\ skipped'[m] = skipped[m]
      BY <2>1, <2>2 DEF TypeInv, SkippedInv
    <3> QED
      BY <3>1, <3>2, SameDone DEF Stays
  <2>3. CASE m = n
    <3>1. ns'[m] = EmptyNamespace /\ applied'[m] = snap[m] /\ skipped'[m] = 1..snap[m]
      BY <2>1, <2>3 DEF TypeInv, SkippedInv
    <3>2. Done(m)' = {}
      BY <3>1 DEF Done
    <3> QED
      BY <1>4, <2>3, <3>1, <3>2 DEF Starts, DoneOps
  <2> QED
    BY <2>2, <2>3
<1>5. ASSUME NEW n \in Nodes, SaveSnapshot(n) PROVE Stays(m)
  <2>1. log' = log /\ applied' = applied /\ closures' = closures /\ skipped' = skipped /\ ns' = ns
    BY <1>5 DEF SaveSnapshot
  <2> QED
    BY <2>1, SameDone DEF Stays
<1>6. ASSUME NEW n \in Nodes, LoadSnapshot(n) PROVE Stays(m)
  <2>1. /\ log' = log /\ closures' = closures /\ ns' = ns
        /\ leader \notin {n, None} /\ applied[n] < snap[leader]
        /\ applied' = [applied EXCEPT ![n] = snap[leader]]
        /\ skipped' = [skipped EXCEPT ![n] = @ \cup (applied[n] + 1..snap[leader])]
    BY <1>6 DEF LoadSnapshot
  <2>2. leader \in Nodes /\ snap[leader] \in Nat /\ applied[n] \in Nat
    BY <2>1 DEF TypeInv
  <2>3. CASE m # n
    <3>1. applied'[m] = applied[m] /\ skipped'[m] = skipped[m]
      BY <2>1, <2>3 DEF TypeInv, SkippedInv
    <3> QED
      BY <2>1, <3>1, SameDone, Zenon DEF Stays
  <2>4. CASE m = n
    <3>1. /\ applied'[m] = snap[leader] /\ applied[m] < snap[leader]
          /\ skipped'[m] = skipped[m] \cup (applied[m] + 1..snap[leader])
      BY <2>1, <2>4 DEF TypeInv, SkippedInv
    <3>2. Done(m)' = Done(m)
      BY <2>1, <2>2, <2>4, <3>1 DEF Done
    <3> QED
      BY <2>1, <3>2 DEF Stays, DoneOps
  <2> QED
    BY <2>3, <2>4
<1>7. ASSUME NEW p \in pending, Commit(p) PROVE Stays(m)
  <2>1. /\ log' = Append(log, p) /\ applied' = applied /\ closures' = closures
        /\ skipped' = skipped /\ ns' = ns
    BY <1>7 DEF Commit
  <2>2. log \in Seq(TaskRecord) /\ p \in TaskRecord
    BY TasksTyped DEF TypeInv
  <2>3. \A i \in 1..Len(log) : log'[i] = log[i]
    BY <2>1, <2>2
  <2> QED
    BY <2>1, <2>3, SameDone DEF Stays
<1>8. ASSUME UNCHANGED vars PROVE Stays(m)
  <2>1. log' = log /\ applied' = applied /\ closures' = closures /\ skipped' = skipped /\ ns' = ns
    BY <1>8 DEF vars
  <2> QED
    BY <2>1, SameDone, Zenon DEF Stays
<1>9. ASSUME NEW n \in Nodes, OnApply(n), ~Die(n) PROVE Stays(m) \/ Grows(m)
  BY <1>9, OnApplyEffect
<1>10. ASSUME NEW n \in Nodes, NEW i \in closures[n], RunClosure(n, i) PROVE Stays(m) \/ Grows(m)
  BY <1>10, RunClosureEffect
<1> QED
  BY NextCases, <1>1, <1>2, <1>3, <1>4, <1>5, <1>6, <1>7, <1>8, <1>9, <1>10, ZenonT(30)

-----------------------------------------------------------------------------
(* An operation takes effect at most once *)

\* The initial state: empty namespaces.
LEMMA DevaInit == Init => DevaInv
<1> SUFFICES ASSUME Init PROVE DevaInv
  OBVIOUS
<1>1. \A n \in Nodes : ns[n] = EmptyNamespace
  BY DEF Init
<1>2. SkippedInv
  BY DEF Init, SkippedInv
<1> QED
  BY <1>1, <1>2, ControlInit, HoldsEmpty DEF DevaInv, NsInv

\* What a namespace grows by is an operation of the log.
LEMMA GrowsOperation ==
  ASSUME TypeInv, NEW n \in Nodes, Grows(n)
  PROVE  \E o \in Ops \ DoneOps(n) : /\ ns'[n] = Process(ns[n], o)
                                     /\ DoneOps(n)' = DoneOps(n) \cup {o}
<1>1. PICK i \in 1..Len(log) : GrowsBy(n, i)
  BY DEF Grows
<1>2. log[i].op \in Ops
  BY TasksTyped
<1> QED
  BY <1>1, <1>2 DEF GrowsBy

\* Every step keeps the namespaces explained by the operations processed.
LEMMA DevaStep == DevaInv /\ [Next]_vars => DevaInv'
<1> SUFFICES ASSUME DevaInv, [Next]_vars PROVE DevaInv'
  OBVIOUS
<1> USE DEF DevaInv
<1>1. ControlInv' /\ SkippedInv'
  BY ControlStep, SkippedStep
<1>2. ASSUME NEW n \in Nodes PROVE Holds(ns[n], DoneOps(n))'
  <2>1. Holds(ns[n], DoneOps(n))
    BY DEF NsInv
  <2>2. CASE Stays(n)
    BY <2>1, <2>2 DEF Stays
  <2>3. CASE Starts(n)
    BY <2>3, HoldsEmpty DEF Starts
  <2>4. CASE Grows(n)
    <3>1. PICK o \in Ops \ DoneOps(n) : /\ ns'[n] = Process(ns[n], o)
                                        /\ DoneOps(n)' = DoneOps(n) \cup {o}
      BY <2>4, GrowsOperation DEF ControlInv
    <3>2. DoneOps(n) \subseteq Ops
      BY DoneIsLogged DEF ControlInv
    <3>3. Holds(Process(ns[n], o), DoneOps(n) \cup {o})
      BY <2>1, <3>1, <3>2, ProcessHolds, Zenon
    <3> QED
      BY <3>1, <3>3
  <2> QED
    BY <2>2, <2>3, <2>4, StepEffect
<1> QED
  BY <1>1, <1>2 DEF NsInv

\* The invariant of every behaviour: what a namespace holds are operations its
\* node has processed.
THEOREM DevaInvariant == Spec => []DevaInv
BY DevaInit, DevaStep, PTL DEF Spec

\* The entries of a namespace, one by one.
LEMMA EntriesAre ==
  ASSUME NEW n, NEW at \in Entries(n)
  PROVE  /\ at[1] \in DOMAIN ns[n] /\ at[2] \in 1..Len(ns[n][at[1]])
         /\ at = <<at[1], at[2]>> /\ EntryAt(n, at) = ns[n][at[1]][at[2]]
BY DEF Entries, EntryAt

\* An operation takes effect on a node at most once, and only once committed and
\* handed to on_apply, for any requests, elections, crashes and snapshots.
THEOREM OperationsApplyOnce == Spec => []AppliedOnce
<1>1. DevaInv => AppliedOnce
  <2> SUFFICES ASSUME DevaInv, NEW n \in Nodes
               PROVE  /\ \A at \in Entries(n) : \E i \in Done(n) :
                           /\ log[i].op.inode = EntryAt(n, at).inode
                           /\ log[i].op.name = EntryAt(n, at).name
                      /\ \A a, b \in Entries(n) :
                           EntryAt(n, a).inode = EntryAt(n, b).inode => a = b
    BY DEF AppliedOnce
  <2>0. Holds(ns[n], DoneOps(n)) /\ DoneOps(n) \subseteq Ops
    BY DoneIsLogged DEF DevaInv, ControlInv, NsInv
  <2>1. ASSUME NEW at \in Entries(n)
        PROVE  \E i \in Done(n) :
                 log[i].op.inode = EntryAt(n, at).inode /\ log[i].op.name = EntryAt(n, at).name
    <3>1. /\ at[1] \in DOMAIN ns[n] /\ at[2] \in 1..Len(ns[n][at[1]])
          /\ EntryAt(n, at) = ns[n][at[1]][at[2]]
      BY EntriesAre
    <3>2. PICK o \in DoneOps(n) : ns[n][at[1]][at[2]] = EntryOf(o)
      BY <2>0, <3>1, HoldsEntry
    <3>3. EntryAt(n, at).inode = o.inode /\ EntryAt(n, at).name = o.name
      BY <2>0, <3>1, <3>2, EntryOfFields
    <3>4. PICK i \in Done(n) : log[i].op = o
      BY <3>2 DEF DoneOps
    <3> QED
      BY <3>3, <3>4
  <2>2. ASSUME NEW a \in Entries(n), NEW b \in Entries(n),
               EntryAt(n, a).inode = EntryAt(n, b).inode
        PROVE  a = b
    <3>1. /\ a[1] \in DOMAIN ns[n] /\ a[2] \in 1..Len(ns[n][a[1]])
          /\ a = <<a[1], a[2]>> /\ EntryAt(n, a) = ns[n][a[1]][a[2]]
      BY EntriesAre
    <3>2. /\ b[1] \in DOMAIN ns[n] /\ b[2] \in 1..Len(ns[n][b[1]])
          /\ b = <<b[1], b[2]>> /\ EntryAt(n, b) = ns[n][b[1]][b[2]]
      BY EntriesAre
    <3>3. a[1] = b[1] /\ a[2] = b[2]
      BY <2>0, <2>2, <3>1, <3>2, HoldsOnce
    <3> QED
      BY <3>1, <3>2, <3>3
  <2> QED
    BY <2>1, <2>2
<1> QED
  BY <1>1, DevaInvariant, PTL

-----------------------------------------------------------------------------
(* What replicas have *)

\* The log only grows, and a closure is taken from an entry or stays.
LEMMA LogStep ==
  ASSUME ControlInv, [Next]_vars
  PROVE  \A i \in 1..Len(log) : /\ i \in 1..Len(log') /\ log'[i].op = log[i].op
                                /\ \A m \in Nodes : log'[i].done = m => log[i].done = m /\ ~Die(m)
<1> DEFINE Goes == \A i \in 1..Len(log) : /\ i \in 1..Len(log') /\ log'[i].op = log[i].op
                                          /\ log'[i].done = log[i].done \/ log'[i].done = None
<1>1. ASSUME NEW n \in Nodes, Elect(n) PROVE Goes
  BY <1>1, ControlElect
<1>2. ASSUME NEW n \in Nodes, Die(n) PROVE Goes
  BY <1>2, ControlDie
<1>3. ASSUME NEW p \in pending, Commit(p) PROVE Goes
  <2>1. log' = Append(log, p) /\ log \in Seq(TaskRecord) /\ p \in TaskRecord
    BY <1>3, TasksTyped DEF Commit, ControlInv, TypeInv
  <2> QED
    BY <2>1
<1>4. ASSUME log' = log PROVE Goes
  BY <1>4
<1>5. ASSUME NEW n \in Nodes, NEW o \in Ops, ApplyNotStarted(n, o) \/ ApplyTask(n, o)
      PROVE  log' = log
  BY <1>5 DEF ApplyNotStarted, ApplyTask
<1>6. ASSUME NEW n \in Nodes, \/ Start(n) \/ Restart(n) \/ (OnApply(n) /\ ~Die(n))
                              \/ SaveSnapshot(n) \/ LoadSnapshot(n)
      PROVE  log' = log
  BY <1>6 DEF Start, Restart, OnApply, SaveSnapshot, LoadSnapshot
<1>7. ASSUME NEW n \in Nodes, NEW i \in closures[n], RunClosure(n, i) PROVE log' = log
  BY <1>7 DEF RunClosure
<1>8. ASSUME UNCHANGED vars PROVE log' = log
  BY <1>8 DEF vars
<1>9. Goes
  <2> HIDE DEF Goes
  <2> QED
    BY NextCases, <1>1, <1>2, <1>3, <1>4, <1>5, <1>6, <1>7, <1>8, ZenonT(30)
<1>10. ASSUME NEW m \in Nodes, Die(m), NEW i \in 1..Len(log) PROVE log'[i].done # m
  BY <1>10, ControlDie, NoneIsNoNode, ZenonT(30)
<1> QED
  BY <1>9, <1>10, NoneIsNoNode

\* What a node is past without a snapshot it was past before, in the same process,
\* or it has just got to it: with its closure, or by decoding it.
LEMMA PassedStep ==
  ASSUME ControlInv, SkippedInv, [Next]_vars,
         NEW m \in Nodes, NEW k \in (1..applied'[m]) \ skipped'[m]
  PROVE  \/ /\ k \in (1..applied[m]) \ skipped[m]
            /\ log'[k].op = log[k].op /\ (log[k].done = m => log'[k].done = m)
         \/ log' = log /\ (log[k].done = m \/ Decodable(log[k].op))
<1> USE DEF ControlInv
<1> DEFINE Was == /\ k \in (1..applied[m]) \ skipped[m]
                  /\ log'[k].op = log[k].op /\ (log[k].done = m => log'[k].done = m)
<1>0. /\ applied[m] \in Nat /\ Len(log) \in Nat /\ \A j \in 1..applied[m] : j \in 1..Len(log)
  BY TasksTyped DEF TypeInv
<1>1. ASSUME NEW n \in Nodes, Elect(n) PROVE Was
  <2>1. applied' = applied /\ skipped' = skipped
    BY <1>1 DEF Elect
  <2>2. k \in 1..Len(log) /\ k \in (1..applied[m]) \ skipped[m] /\ k <= applied[m]
    BY <1>0, <2>1
  <2> QED
    BY <1>1, <2>2, ControlElect
<1>2. ASSUME NEW n \in Nodes, Die(n) PROVE Was
  <2>1. applied' = [applied EXCEPT ![n] = snap[n]] /\ skipped' = [skipped EXCEPT ![n] = 1..snap[n]]
    BY <1>2 DEF Die
  <2>2. m # n
    BY <2>1 DEF TypeInv, SkippedInv
  <2>3. k \in (1..applied[m]) \ skipped[m] /\ k \in 1..Len(log)
    BY <1>0, <2>1, <2>2 DEF TypeInv, SkippedInv
  <2> QED
    BY <1>2, <2>2, <2>3, ControlDie
<1>3. ASSUME NEW p \in pending, Commit(p) PROVE Was
  <2>1. /\ log' = Append(log, p) /\ applied' = applied /\ skipped' = skipped
        /\ log \in Seq(TaskRecord) /\ p \in TaskRecord
    BY <1>3, TasksTyped, Zenon DEF Commit, TypeInv
  <2>2. k \in 1..Len(log) /\ k \in (1..applied[m]) \ skipped[m]
    BY <1>0, <2>1
  <2>3. log'[k] = log[k]
    BY <2>1, <2>2
  <2> QED
    BY <2>2, <2>3
<1>4. ASSUME NEW n \in Nodes, OnApply(n), ~Die(n)
      PROVE  Was \/ (log' = log /\ (log[k].done = m \/ Decodable(log[k].op)))
  <2> DEFINE i == applied[n] + 1
  <2>1. /\ log' = log /\ applied' = [applied EXCEPT ![n] = i] /\ skipped' = skipped
        /\ log[i].done = n \/ Decodable(log[i].op)
    BY <1>4, ZenonT(30) DEF OnApply
  <2>2. CASE m = n /\ k = i
    BY <2>1, <2>2
  <2>3. CASE ~(m = n /\ k = i)
    <3>1. k \in (1..applied[m]) \ skipped[m]
      BY <1>0, <2>1, <2>3 DEF TypeInv
    <3> QED
      BY <2>1, <3>1
  <2> QED
    BY <2>2, <2>3
<1>5. ASSUME NEW n \in Nodes, LoadSnapshot(n) PROVE Was
  <2>1. /\ log' = log /\ applied' = [applied EXCEPT ![n] = snap[leader]]
        /\ skipped' = [skipped EXCEPT ![n] = @ \cup (applied[n] + 1..snap[leader])]
        /\ leader \in Nodes
    BY <1>5 DEF LoadSnapshot, TypeInv
  <2>2. snap[leader] \in Nat
    BY <2>1 DEF TypeInv
  <2>3. CASE m = n
    <3>1. /\ applied'[m] = snap[leader]
          /\ skipped'[m] = skipped[m] \cup (applied[m] + 1..snap[leader])
      BY <2>1, <2>3 DEF TypeInv, SkippedInv
    <3> QED
      BY <1>0, <2>1, <2>2, <3>1
  <2>4. CASE m # n
    BY <2>1, <2>4 DEF TypeInv, SkippedInv
  <2> QED
    BY <2>3, <2>4
<1>6. ASSUME log' = log, applied' = applied, skipped' = skipped PROVE Was
  BY <1>6
<1>7. ASSUME NEW n \in Nodes, NEW o \in Ops, ApplyNotStarted(n, o) \/ ApplyTask(n, o)
      PROVE  log' = log /\ applied' = applied /\ skipped' = skipped
  BY <1>7 DEF ApplyNotStarted, ApplyTask
<1>8. ASSUME NEW n \in Nodes, Start(n) \/ Restart(n) \/ SaveSnapshot(n)
      PROVE  log' = log /\ applied' = applied /\ skipped' = skipped
  BY <1>8 DEF Start, Restart, SaveSnapshot
<1>9. ASSUME NEW n \in Nodes, NEW i \in closures[n], RunClosure(n, i)
      PROVE  log' = log /\ applied' = applied /\ skipped' = skipped
  BY <1>9, Zenon DEF RunClosure
<1>10. ASSUME UNCHANGED vars PROVE log' = log /\ applied' = applied /\ skipped' = skipped
  BY <1>10 DEF vars
<1> HIDE DEF Was
<1>11. Was \/ (log' = log /\ (log[k].done = m \/ Decodable(log[k].op)))
  BY NextCases, <1>1, <1>2, <1>3, <1>4, <1>5, <1>6, <1>7, <1>8, <1>9, <1>10, ZenonT(30)
<1> QED
  BY <1>11 DEF Was

\* A node gets past the creation of a directory only with its closure or with a
\* snapshot.
LEMMA ReplayStep ==
  ASSUME DevaInv, ReplayInv, [Next]_vars
  PROVE  ReplayInv'
<1> USE DEF DevaInv
<1>1. ASSUME NEW n \in Nodes PROVE RootHolds(ns[n], DoneOps(n))'
  <2>1. RootHolds(ns[n], DoneOps(n)) /\ Holds(ns[n], DoneOps(n))
    BY DEF ReplayInv, NsInv
  <2>2. CASE Stays(n)
    BY <2>1, <2>2 DEF Stays
  <2>3. CASE Starts(n)
    BY <2>3 DEF Starts, RootHolds
  <2>4. CASE Grows(n)
    <3>1. PICK o \in Ops \ DoneOps(n) : /\ ns'[n] = Process(ns[n], o)
                                        /\ DoneOps(n)' = DoneOps(n) \cup {o}
      BY <2>4, GrowsOperation DEF ControlInv
    <3>2. DoneOps(n) \subseteq Ops
      BY DoneIsLogged DEF ControlInv
    <3>3. RootHolds(Process(ns[n], o), DoneOps(n) \cup {o})
      BY <2>1, <3>1, <3>2, ProcessHolds, Zenon
    <3> QED
      BY <3>1, <3>3
  <2> QED
    BY <2>2, <2>3, <2>4, StepEffect
<1>2. ASSUME NEW m \in Nodes, NEW k \in (1..applied'[m]) \ skipped'[m], ~Decodable(log'[k].op)
      PROVE  log'[k].done = m
  <2>1. \A j \in (1..applied[m]) \ skipped[m] : ~Decodable(log[j].op) => log[j].done = m
    BY DEF ReplayInv
  <2>2. \/ /\ k \in (1..applied[m]) \ skipped[m]
           /\ log'[k].op = log[k].op /\ (log[k].done = m => log'[k].done = m)
        \/ log' = log /\ (log[k].done = m \/ Decodable(log[k].op))
    BY PassedStep
  <2> QED
    BY <1>2, <2>1, <2>2, Zenon
<1> QED
  BY <1>1, <1>2 DEF ReplayInv

\* A node adds to a list only at its end: what comes next in the log, or what a
\* closure of its own brings.
LEMMA OrderStep ==
  ASSUME DevaInv, OrderInv, [Next]_vars
  PROVE  OrderInv'
<1> USE DEF DevaInv
<1>1. SUFFICES ASSUME NEW n \in Nodes, NEW i \in Done(n)', NEW j \in Done(n)',
                      NEW d \in DOMAIN ns'[n], NEW a \in 1..Len(ns'[n][d]), NEW b \in 1..Len(ns'[n][d]),
                      a < b, ns'[n][d][a].inode = log'[i].op.inode,
                      ns'[n][d][b].inode = log'[j].op.inode
               PROVE  i < j \/ log'[j].done = n
  BY ZenonT(30) DEF OrderInv
<1>2. ASSUME NEW k \in Done(n), NEW l \in Done(n), d \in DOMAIN ns[n],
             a \in 1..Len(ns[n][d]), b \in 1..Len(ns[n][d]),
             ns[n][d][a].inode = log[k].op.inode, ns[n][d][b].inode = log[l].op.inode
      PROVE  k < l \/ log[l].done = n
  BY <1>1, <1>2, Zenon DEF OrderInv
<1>3. CASE Starts(n)
  BY <1>1, <1>3 DEF Starts
<1>4. CASE Stays(n)
  <2>1. i \in Done(n) /\ j \in Done(n) /\ ns'[n] = ns[n]
    BY <1>1, <1>4 DEF Stays
  <2>2. log'[i].op = log[i].op /\ log'[j].op = log[j].op
    BY <2>1, DoneIsLogged, LogStep DEF ControlInv
  <2>3. i < j \/ log[j].done = n
    BY <1>1, <1>2, <2>1, <2>2
  <2>4. j \in (1..applied'[n]) \ skipped'[n]
    BY <1>1 DEF Done
  <2>5. log[j].done = n => log'[j].done = n
    BY <2>4, PassedStep
  <2> QED
    BY <2>3, <2>5
<1>5. CASE Grows(n)
  <2>1. PICK l \in 1..Len(log) : GrowsBy(n, l)
    BY <1>5 DEF Grows
  <2> DEFINE o == log[l].op
  <2>2. /\ log' = log /\ o \notin DoneOps(n) /\ ns'[n] = Process(ns[n], o)
        /\ Done(n)' = Done(n) \cup {l}
        /\ log[l].done = n \/ \A k \in Done(n) : k < l
    BY <2>1 DEF GrowsBy
  <2>3. o \in Ops /\ DoneOps(n) \subseteq Ops /\ Holds(ns[n], DoneOps(n))
    BY TasksTyped, DoneIsLogged DEF ControlInv, NsInv
  <2>4. /\ d \in DOMAIN ns[n] /\ a \in 1..Len(ns[n][d]) /\ ns'[n][d][a] = ns[n][d][a]
        /\ \/ b \in 1..Len(ns[n][d]) /\ ns'[n][d][b] = ns[n][d][b]
           \/ ns'[n][d][b].inode = o.inode
    <3> HIDE DEF o
    <3> QED
      BY <1>1, <2>2, <2>3, ProcessAppends
  \* the entries that were there are not those of o
  <2>5. ASSUME NEW c \in 1..Len(ns[n][d]) PROVE ns[n][d][c].inode # o.inode
    <3>1. PICK q \in DoneOps(n) : ns[n][d][c] = EntryOf(q)
      BY <2>3, <2>4, <2>5, HoldsEntry
    <3>2. ns[n][d][c].inode = q.inode /\ q \in Ops /\ q # o
      BY <2>2, <2>3, <3>1, EntryOfFields
    <3> QED
      BY <2>3, <3>2, InodesAreUnique
  <2>6. i # l /\ i \in Done(n)
    BY <1>1, <2>2, <2>4, <2>5
  <2>7. CASE ns'[n][d][b].inode = o.inode
    <3>1. j \in 1..Len(log) /\ log[j].op \in Ops /\ log[j].op.inode = o.inode
      BY <1>1, <2>2, <2>7, DoneIsLogged, TasksTyped DEF ControlInv
    <3>2. log[j].op = o
      BY <2>3, <3>1, InodesAreUnique
    <3>3. j = l
      BY <3>1, <3>2 DEF ControlInv, ProposedOnce
    <3> QED
      BY <2>2, <2>6, <3>3
  <2>8. CASE b \in 1..Len(ns[n][d]) /\ ns'[n][d][b] = ns[n][d][b]
    <3>1. j # l /\ j \in Done(n)
      BY <1>1, <2>2, <2>5, <2>8
    <3> QED
      BY <1>1, <1>2, <2>2, <2>4, <2>6, <2>8, <3>1
  <2> QED
    BY <2>4, <2>7, <2>8
<1> QED
  BY <1>3, <1>4, <1>5, StepEffect

\* An entry stays visible on a node that does not die.
LEMMA VisibleStays ==
  ASSUME DevaInv, [Next]_vars, NEW n \in Nodes, NEW o \in Ops, Visible(n, o), ~Die(n)
  PROVE  Visible(n, o)'
<1> USE DEF DevaInv
<1>1. CASE Stays(n)
  BY <1>1 DEF Stays, Visible
<1>2. CASE Grows(n)
  <2>1. PICK q \in Ops \ DoneOps(n) : ns'[n] = Process(ns[n], q)
    BY <1>2, GrowsOperation DEF ControlInv
  <2>2. DoneOps(n) \subseteq Ops /\ Holds(ns[n], DoneOps(n))
    BY DoneIsLogged DEF ControlInv, NsInv
  <2>3. Extends(ns[n], ns'[n])
    BY <2>1, <2>2, ProcessHolds, ZenonT(30)
  <2>4. PICK d \in DOMAIN ns[n] : \E k \in 1..Len(ns[n][d]) : ns[n][d][k].inode = o.inode
    BY DEF Visible, Has
  <2>5. PICK k \in 1..Len(ns[n][d]) : ns[n][d][k].inode = o.inode
    BY <2>4
  <2>6. d \in DOMAIN ns'[n] /\ k \in 1..Len(ns'[n][d]) /\ ns'[n][d][k].inode = o.inode
    BY <2>3, <2>5 DEF Extends
  <2> QED
    BY <2>6 DEF Visible, Has
<1> QED
  BY <1>1, <1>2, StepEffect

\* Only a closure answers OK.
LEMMA AnswerOK ==
  ASSUME ControlInv, [Next]_vars, NEW o \in Ops, answer'[o] = "OK"
  PROVE  \/ answer[o] = "OK"
         \/ \E n \in Nodes : \E i \in closures[n] :
              RunClosure(n, i) /\ log[i].op = o /\ Status(ns[n], o) = "OK"
<1>0. answer = [q \in Ops |-> answer[q]]
  BY DEF ControlInv, TypeInv
<1>1. ASSUME NEW n \in Nodes, NEW q \in Ops, ApplyNotStarted(n, q) \/ ApplyTask(n, q)
      PROVE  answer[o] = "OK"
  <2>1. PICK a \in {"hangs", "waits", "EPERM"} : answer' = [answer EXCEPT ![q] = a]
    BY <1>1 DEF ApplyNotStarted, ApplyTask
  <2> QED
    BY <1>0, <2>1
<1>2. ASSUME NEW n \in Nodes, NEW i \in closures[n], RunClosure(n, i)
      PROVE  answer[o] = "OK" \/ (log[i].op = o /\ Status(ns[n], o) = "OK")
  <2>1. answer' = [answer EXCEPT ![log[i].op] = Status(ns[n], log[i].op)]
    BY <1>2 DEF RunClosure
  <2> QED
    BY <1>0, <2>1
<1>3. ASSUME NEW n \in Nodes, Elect(n) \/ Die(n) PROVE answer[o] = "OK"
  BY <1>3, ControlElect, ControlDie, Zenon
<1>4. ASSUME NEW n \in Nodes, \/ Start(n) \/ Restart(n) \/ (OnApply(n) /\ ~Die(n))
                              \/ SaveSnapshot(n) \/ LoadSnapshot(n)
      PROVE  answer[o] = "OK"
  BY <1>4, Zenon DEF Start, Restart, OnApply, SaveSnapshot, LoadSnapshot
<1>5. ASSUME NEW p \in pending, Commit(p) PROVE answer[o] = "OK"
  BY <1>5 DEF Commit
<1>6. ASSUME UNCHANGED vars PROVE answer[o] = "OK"
  BY <1>6 DEF vars
<1> QED
  BY NextCases, <1>1, <1>2, <1>3, <1>4, <1>5, <1>6, ZenonT(30)

\* The closure that answers OK has found the directory, by an operation its node
\* has processed.
LEMMA AckStart ==
  ASSUME DevaInv, ReplayInv, [Next]_vars, NEW o \in Ops,
         NEW n \in Nodes, NEW i \in closures[n],
         RunClosure(n, i), log[i].op = o, Status(ns[n], o) = "OK"
  PROVE  i \in 1..Len(log') /\ log'[i].op = o /\ PlaceKnown(o, i)'
<1> USE DEF DevaInv
<1>0. log' = log /\ i \in 1..Len(log)
  BY ControlRunClosure, ZenonT(30) DEF RunClosure
<1>1. /\ ns'[n] = Process(ns[n], o) /\ o \notin DoneOps(n)
      /\ DoneOps(n) \subseteq Ops /\ Holds(ns[n], DoneOps(n))
  BY RunClosureEffect, DoneIsLogged, ZenonT(30) DEF ControlInv, NsInv
<1>2. Visible(n, o)'
  <2>1. Has(Process(ns[n], o), o)
    BY <1>1, ProcessHolds, ZenonT(30)
  <2> QED
    BY <1>1, <2>1, Zenon DEF Visible
<1> DEFINE d == Lookup(ns[n], o.dir).inode
<1>3. d \in DOMAIN ns[n] /\ PathOf(d) = o.dir
  <2>1. Lookup(ns[n], o.dir).status = "OK" /\ Lookup(ns[n], o.dir).type = "kDirectory"
    BY DEF Status
  <2>2. o.dir \in Seq(STRING)
    BY EntryOfFields
  <2> QED
    BY <1>1, <2>1, <2>2, LookupLeads, ZenonT(30)
<1> HIDE DEF d
<1>4. CASE d = Root
  <2>1. o.dir = <<>>
    BY <1>3, <1>4 DEF PathOf
  <2> QED
    BY <1>0, <2>1 DEF PlaceKnown
<1>5. CASE d # Root
  <2>1. PICK r \in DoneOps(n) : r.type = "kCreateDir" /\ r.inode = d
    BY <1>1, <1>3, <1>5, HoldsDirectory
  <2>2. Makes(r, o.dir)
    BY <1>1, <1>3, <2>1, PathOfRequest DEF Makes
  <2>3. PICK j \in Done(n) : log[j].op = r
    BY <2>1 DEF DoneOps
  <2>4. j \in 1..Len(log) /\ j \in (1..applied[n]) \ skipped[n] /\ j # i
    BY <1>1, <2>1, <2>3, DoneIsLogged DEF ControlInv, Done
  \* what n got past without a snapshot it passed with a closure of its own
  <2>5. ASSUME NEW k \in (1..applied[n]) \ skipped[n], Makes(log[k].op, o.dir)
        PROVE  PassedWith(o, k)'
    <3>1. log[k].done = n
      BY <2>5, Zenon DEF ReplayInv, Decodable, Makes
    <3> QED
      BY <1>0, <1>2, <3>1, Zenon DEF PassedWith
  <2>6. PassedWith(o, j)'
    BY <2>2, <2>3, <2>4, <2>5
  <2>7. j > i \/ j < i
    BY <1>0, <2>4, SMTT(30)
  <2>8. j \in 1..Len(log') /\ Makes(log'[j].op, o.dir)
    BY <1>0, <2>2, <2>3, <2>4
  <2>9. ASSUME NEW k \in 1..Len(log'), k < i, Makes(log'[k].op, o.dir)
        PROVE  PassedWith(o, k)' \/ \E m \in Nodes : k \in skipped'[m]
    <3>1. skipped' = skipped
      BY Zenon DEF RunClosure
    <3>2. k \in 1..applied[n]
      BY <1>0, <2>9 DEF ControlInv, TypeInv
    <3>3. CASE k \in skipped[n]
      BY <3>1, <3>3
    <3>4. CASE k \notin skipped[n]
      BY <1>0, <2>5, <2>9, <3>2, <3>4
    <3> QED
      BY <3>3, <3>4
  <2>10. PlaceKnown(o, i)'
    BY <2>6, <2>7, <2>8, <2>9, ZenonT(30) DEF PlaceKnown
  <2> QED
    BY <1>0, <2>10
<1> QED
  BY <1>4, <1>5

\* Every step keeps what is known of acknowledged operations.
LEMMA AckStep ==
  ASSUME DevaInv, ReplayInv, AckInv, [Next]_vars
  PROVE  AckInv'
<1> USE DEF DevaInv
<1>1. SUFFICES ASSUME NEW o \in Ops, answer'[o] = "OK"
               PROVE  \E i \in 1..Len(log') : log'[i].op = o /\ PlaceKnown(o, i)'
  BY DEF AckInv
<1>2. CASE answer[o] = "OK"
  <2>1. PICK i \in 1..Len(log) : log[i].op = o /\ PlaceKnown(o, i)
    BY <1>2 DEF AckInv
  <2>2. i \in 1..Len(log') /\ log'[i].op = o
    BY <2>1, LogStep
  <2>3. CASE o.dir = <<>>
    BY <2>2, <2>3 DEF PlaceKnown
  <2>4. CASE o.dir # <<>>
    <3>1. ASSUME NEW k \in 1..Len(log), PassedWith(o, k) PROVE PassedWith(o, k)'
      <4>1. SUFFICES ASSUME NEW n \in Nodes, log'[k].done = n PROVE Visible(n, o)'
        BY DEF PassedWith
      <4>2. log[k].done = n /\ ~Die(n)
        BY <4>1, LogStep
      <4>3. Visible(n, o)
        BY <3>1, <4>2 DEF PassedWith
      <4> QED
        BY <4>2, <4>3, VisibleStays
    <3>2. PICK j \in 1..Len(log) : Makes(log[j].op, o.dir) /\ (j > i \/ (j < i /\ PassedWith(o, j)))
      BY <2>1, <2>4 DEF PlaceKnown
    <3>3. j \in 1..Len(log') /\ Makes(log'[j].op, o.dir) /\ (j > i \/ (j < i /\ PassedWith(o, j)'))
      BY <3>1, <3>2, LogStep
    <3>4. ASSUME NEW k \in 1..Len(log'), k < i, Makes(log'[k].op, o.dir)
          PROVE  PassedWith(o, k)' \/ \E m \in Nodes : k \in skipped'[m]
      <4>1. k \in 1..Len(log)
        BY <2>1, <3>4, TasksTyped DEF ControlInv
      <4>2. Makes(log[k].op, o.dir)
        BY <3>4, <4>1, LogStep
      <4>3. PassedWith(o, k) \/ \E m \in Nodes : k \in skipped[m]
        BY <2>1, <2>4, <3>4, <4>1, <4>2, Zenon DEF PlaceKnown
      <4> QED
        BY <3>1, <4>1, <4>3, SkippedStep
    <3>5. PlaceKnown(o, i)'
      BY <3>3, <3>4, ZenonT(30) DEF PlaceKnown
    <3> QED
      BY <2>2, <3>5
  <2> QED
    BY <2>3, <2>4
<1>3. CASE answer[o] # "OK"
  <2>1. PICK n \in Nodes : \E i \in closures[n] :
          RunClosure(n, i) /\ log[i].op = o /\ Status(ns[n], o) = "OK"
    BY <1>1, <1>3, AnswerOK, Zenon
  <2>2. \E i \in closures[n] : i \in 1..Len(log') /\ log'[i].op = o /\ PlaceKnown(o, i)'
    BY <2>1, AckStart
  <2> QED
    BY <2>2
<1> QED
  BY <1>2, <1>3

\* The invariant of every behaviour, snapshots included.
THEOREM ReplicaInvariant == Spec => []ReplicaInv
<1>1. Init => ReplicaInv
  <2> SUFFICES ASSUME Init PROVE ReplicaInv
    OBVIOUS
  <2>1. \A n \in Nodes : applied[n] = 0
    BY DEF Init
  <2>2. \A n \in Nodes : Done(n) = {} /\ DoneOps(n) = {}
    BY <2>1 DEF DoneOps, Done
  <2>3. ReplayInv /\ OrderInv
    BY <2>1, <2>2 DEF ReplayInv, OrderInv, RootHolds
  <2>4. AckInv
    BY DEF Init, AckInv
  <2> QED
    BY <2>3, <2>4, DevaInit DEF ReplicaInv
<1>2. ReplicaInv /\ [Next]_vars => ReplicaInv'
  <2> SUFFICES ASSUME ReplicaInv, [Next]_vars PROVE ReplicaInv'
    OBVIOUS
  <2> QED
    BY DevaStep, ReplayStep, OrderStep, AckStep DEF ReplicaInv
<1> QED
  BY <1>1, <1>2, PTL DEF Spec

\* What is visible is among the entries.
LEMMA VisibleIsEntry ==
  ASSUME NEW n, NEW o, Visible(n, o)
  PROVE  \E at \in Entries(n) : EntryAt(n, at).inode = o.inode
<1>1. PICK d \in DOMAIN ns[n] : \E k \in 1..Len(ns[n][d]) : ns[n][d][k].inode = o.inode
  BY DEF Visible, Has
<1>2. PICK k \in 1..Len(ns[n][d]) : ns[n][d][k].inode = o.inode
  BY <1>1
<1>3. <<d, k>> \in Entries(n) /\ EntryAt(n, <<d, k>>) = ns[n][d][k]
  BY DEF Entries, EntryAt
<1> QED
  BY <1>2, <1>3

\* What OpenFile acknowledged is committed and is on every node that has processed
\* its entry, unless the creation of its directory was skipped there by a
\* snapshot or overtaken on the node that answered.
THEOREM AcknowledgedIsVisible == Spec => []AckedVisible
<1>1. ReplicaInv => AckedVisible
  <2> SUFFICES ASSUME ReplicaInv, NEW o \in Ops, answer[o] = "OK"
               PROVE  \E i \in 1..Len(log) :
                        /\ log[i].op = o
                        /\ \A n \in {m \in up : i \in Done(m)} :
                             \/ \E at \in Entries(n) : EntryAt(n, at).inode = o.inode
                             \/ \E j \in skipped[n] : Makes(log[j].op, o.dir)
                             \/ Overtaken(i)
    BY ZenonT(30) DEF AckedVisible
  <2> USE DEF ReplicaInv, DevaInv, ControlInv
  <2>1. PICK i \in 1..Len(log) : log[i].op = o /\ PlaceKnown(o, i)
    BY DEF AckInv
  <2>2. SUFFICES ASSUME NEW n \in up, i \in Done(n), ~Visible(n, o),
                        \A j \in skipped[n] : ~Makes(log[j].op, o.dir)
                 PROVE  Overtaken(i)
    BY <2>1, VisibleIsEntry, ZenonT(30)
  <2>3. n \in Nodes /\ applied[n] \in Nat /\ Len(log) \in Nat /\ i \in 1..applied[n]
    BY <2>2, TasksTyped DEF TypeInv, Done
  <2>4. o.dir # <<>>
    <3>1. SUFFICES ASSUME o.dir = <<>> PROVE Visible(n, o)
      BY <2>2
    <3>2. o \in DoneOps(n)
      BY <2>1, <2>2 DEF DoneOps
    <3>3. PICK k \in 1..Len(ns[n][Root]) : ns[n][Root][k] = EntryOf(o)
      BY <2>3, <3>1, <3>2 DEF ReplayInv, RootHolds
    <3>4. Root \in DOMAIN ns[n]
      BY <2>3, ZenonT(30) DEF NsInv, Holds
    <3>5. ns[n][Root][k].inode = o.inode
      BY <3>3, EntryOfFields
    <3> QED
      BY <3>4, <3>5 DEF Visible, Has
  \* n passed a creation of the directory before i with a closure, and has not o
  <2>5. ASSUME NEW k \in 1..Len(log), k < i, Makes(log[k].op, o.dir)
        PROVE  ~PassedWith(o, k)
    <3>1. k \in (1..applied[n]) \ skipped[n]
      BY <2>2, <2>3, <2>5
    <3>2. log[k].done = n
      BY <2>3, <2>5, <3>1, ZenonT(30) DEF ReplayInv, Decodable, Makes
    <3> QED
      BY <2>2, <2>3, <3>2 DEF PassedWith
  <2>6. \E j \in i + 1..Len(log) : Makes(log[j].op, o.dir)
    <3>1. PICK j \in 1..Len(log) : Makes(log[j].op, o.dir) /\ (j > i \/ (j < i /\ PassedWith(o, j)))
      BY <2>1, <2>4 DEF PlaceKnown
    <3>2. j \in i + 1..Len(log)
      BY <2>3, <2>5, <3>1
    <3> QED
      BY <3>1, <3>2
  <2>7. ASSUME NEW k \in 1..i - 1, Makes(log[k].op, o.dir)
        PROVE  \E m \in Nodes : k \in skipped[m]
    <3>1. k \in 1..Len(log) /\ k < i
      BY <2>3
    <3> QED
      BY <2>1, <2>4, <2>5, <2>7, <3>1, Zenon DEF PlaceKnown
  <2> QED
    BY <2>1, <2>6, <2>7 DEF Overtaken
<1> QED
  BY <1>1, ReplicaInvariant, PTL

\* A node with no directory but the root lists what was asked for in the root.
LEMMA RootLists ==
  ASSUME NEW n, NEW D, D \subseteq Ops, Holds(ns[n], D), RootHolds(ns[n], D), Dirs(D) = {}
  PROVE  {<<at[1], EntryAt(n, at)>> : at \in Entries(n)}
           = {<<Root, EntryOf(o)>> : o \in {q \in D : q.dir = <<>>}}
<1>1. DOMAIN ns[n] = {Root}
  BY ZenonT(30) DEF Holds
<1>2. ASSUME NEW at \in Entries(n)
      PROVE  \E o \in D : o.dir = <<>> /\ at[1] = Root /\ EntryAt(n, at) = EntryOf(o)
  <2>1. at[1] = Root /\ at[2] \in 1..Len(ns[n][Root]) /\ EntryAt(n, at) = ns[n][Root][at[2]]
    BY <1>1, EntriesAre
  <2>2. PathOf(Root) = <<>>
    BY DEF PathOf
  <2>3. PICK o \in D : ns[n][Root][at[2]] = EntryOf(o) /\ o.dir = PathOf(Root)
    BY <1>1, <2>1, HoldsEntry
  <2> QED
    BY <2>1, <2>2, <2>3
<1>3. ASSUME NEW o \in D, o.dir = <<>>
      PROVE  \E at \in Entries(n) : at[1] = Root /\ EntryAt(n, at) = EntryOf(o)
  <2>1. PICK k \in 1..Len(ns[n][Root]) : ns[n][Root][k] = EntryOf(o)
    BY <1>3, Zenon DEF RootHolds
  <2>2. <<Root, k>> \in Entries(n) /\ EntryAt(n, <<Root, k>>) = ns[n][Root][k]
    BY <1>1 DEF Entries, EntryAt
  <2>3. <<Root, k>>[1] = Root
    OBVIOUS
  <2> QED
    BY <2>1, <2>2, <2>3, Zenon
<1> QED
  BY <1>2, <1>3

\* Where a node lists x before y it has processed the creations of both, and that
\* of y comes later in the log or was a closure.
LEMMA OrderOfEntries ==
  ASSUME ReplicaInv, NEW n \in Nodes, NEW x, NEW y, Precedes(n, x, y)
  PROVE  \E i, j \in 1..Len(log) : /\ log[i].op.inode = x.inode /\ log[j].op.inode = y.inode
                                   /\ i < j \/ log[j].done = n
<1> USE DEF ReplicaInv, DevaInv, ControlInv
<1>1. PICK a \in Entries(n), b \in Entries(n) :
        a[1] = b[1] /\ a[2] < b[2] /\ EntryAt(n, a) = x /\ EntryAt(n, b) = y
  BY DEF Precedes
<1> DEFINE d == a[1]
<1>2. /\ d \in DOMAIN ns[n] /\ a[2] \in 1..Len(ns[n][d]) /\ b[2] \in 1..Len(ns[n][d])
      /\ x = ns[n][d][a[2]] /\ y = ns[n][d][b[2]]
  BY <1>1, EntriesAre
<1>3. Holds(ns[n], DoneOps(n)) /\ DoneOps(n) \subseteq Ops /\ Done(n) \subseteq 1..Len(log)
  BY DoneIsLogged DEF NsInv
<1>4. ASSUME NEW c \in 1..Len(ns[n][d])
      PROVE  \E k \in Done(n) : log[k].op.inode = ns[n][d][c].inode
  <2>1. PICK o \in DoneOps(n) : ns[n][d][c] = EntryOf(o)
    BY <1>2, <1>3, <1>4, HoldsEntry
  <2>2. ns[n][d][c].inode = o.inode
    BY <1>3, <2>1, EntryOfFields
  <2> QED
    BY <2>2 DEF DoneOps
<1>5. PICK i \in Done(n) : log[i].op.inode = x.inode
  BY <1>2, <1>4
<1>6. PICK j \in Done(n) : log[j].op.inode = y.inode
  BY <1>2, <1>4
<1>7. i < j \/ log[j].done = n
  <2> HIDE DEF d
  <2> QED
    BY <1>1, <1>2, <1>5, <1>6, ZenonT(30) DEF OrderInv
<1> QED
  BY <1>3, <1>5, <1>6, <1>7

\* Two nodes that have processed the same entries list the same files in the same
\* directories, and in the same order but for those that closures created.
THEOREM CaughtUpNodesAgree == Spec => []CaughtUpAgree
<1>1. ReplicaInv => CaughtUpAgree
  <2> DEFINE Listed(k) == {<<at[1], EntryAt(k, at)>> : at \in Entries(k)}
             ByClosure(m, n, x, y) ==
               \E i \in 1..Len(log) : log[i].done \in {m, n} /\ log[i].op.inode \in {x.inode, y.inode}
  <2> SUFFICES ASSUME ReplicaInv, NEW m \in up, NEW n \in up, applied[m] = applied[n],
                      skipped[m] = skipped[n], closures[m] \cup closures[n] = {}
               PROVE  /\ Listed(m) = Listed(n)
                      /\ \A x, y \in {e[2] : e \in Listed(m)} :
                           Precedes(m, x, y) /\ Precedes(n, y, x) => ByClosure(m, n, x, y)
    BY ZenonT(30) DEF CaughtUpAgree
  <2> USE DEF ReplicaInv, DevaInv, ControlInv
  <2>1. m \in Nodes /\ n \in Nodes
    BY DEF TypeInv
  <2>2. Done(m) = (1..applied[m]) \ skipped[m] /\ Done(n) = Done(m) /\ DoneOps(m) = DoneOps(n)
    BY DEF Done, DoneOps
  <2>3. Listed(m) = Listed(n)
    <3>1. CASE m = n
      BY <3>1
    <3>2. CASE m # n
      <4>1. Dirs(DoneOps(m)) = {}
        <5>1. SUFFICES ASSUME NEW o \in DoneOps(m), o.type = "kCreateDir" PROVE FALSE
          BY DEF Dirs
        <5>2. PICK i \in (1..applied[m]) \ skipped[m] : log[i].op = o
          BY <2>2, <5>1 DEF DoneOps
        <5>3. log[i].done = m /\ log[i].done = n
          BY <2>1, <5>1, <5>2 DEF ReplayInv, Decodable
        <5> QED
          BY <3>2, <5>3
      <4>2. /\ DoneOps(m) \subseteq Ops /\ DoneOps(n) \subseteq Ops
            /\ Holds(ns[m], DoneOps(m)) /\ Holds(ns[n], DoneOps(n))
            /\ RootHolds(ns[m], DoneOps(m)) /\ RootHolds(ns[n], DoneOps(n))
        BY <2>1, DoneIsLogged, ZenonT(30) DEF NsInv, ReplayInv
      <4>3. Listed(m) = {<<Root, EntryOf(o)>> : o \in {q \in DoneOps(m) : q.dir = <<>>}}
        BY <4>1, <4>2, RootLists
      <4>4. Listed(n) = {<<Root, EntryOf(o)>> : o \in {q \in DoneOps(n) : q.dir = <<>>}}
        BY <2>2, <4>1, <4>2, RootLists
      <4> HIDE DEF Listed
      <4> QED
        BY <2>2, <4>3, <4>4
    <3> QED
      BY <3>1, <3>2
  <2>4. ASSUME NEW x, NEW y, Precedes(m, x, y), Precedes(n, y, x)
        PROVE  ByClosure(m, n, x, y)
    <3>1. PICK i, j \in 1..Len(log) : /\ log[i].op.inode = x.inode /\ log[j].op.inode = y.inode
                                      /\ i < j \/ log[j].done = m
      <4> HIDE DEF ReplicaInv, Listed, ByClosure
      <4> QED
        BY <2>1, <2>4, OrderOfEntries
    <3>2. PICK k, l \in 1..Len(log) : /\ log[k].op.inode = y.inode /\ log[l].op.inode = x.inode
                                      /\ k < l \/ log[l].done = n
      <4> HIDE DEF ReplicaInv, Listed, ByClosure
      <4> QED
        BY <2>1, <2>4, OrderOfEntries
    <3>3. k = j /\ l = i
      <4>1. log[k].op = log[j].op /\ log[l].op = log[i].op
        BY <3>1, <3>2, TasksTyped, InodesAreUnique, Zenon
      <4> QED
        BY <4>1, Zenon DEF ProposedOnce
    <3>4. ~(i < j /\ j < i)
      BY TasksTyped
    <3>5. log[j].done = m \/ log[i].done = n
      BY <3>1, <3>2, <3>3, <3>4, Zenon
    <3> QED
      BY <3>1, <3>5, Zenon
  <2> HIDE DEF Listed, ByClosure
  <2> QED
    BY <2>3, <2>4
<1> QED
  BY <1>1, ReplicaInvariant, PTL

-----------------------------------------------------------------------------
(* A client that waits has somebody who will answer *)

Runs(n) == n \in up \cap started

\* the task of o is with the leader that accepted it
AtLeader(o) == Runs(leader) /\ \E p \in pending : p.op = o /\ p.done = leader

\* the task of o is committed and a node that runs has its closure, which it has
\* not reached or not run yet
AtClosure(o) ==
  \E i \in 1..Len(log), n \in Nodes :
    /\ log[i].op = o /\ log[i].done = n /\ Runs(n)
    /\ i > applied[n] \/ i \in closures[n]

\* A client that was not answered has its closure in one of the places
\* from which it will run: with braft's leader, or with a node that runs.
WaiterHasClosure == \A o \in Ops : answer[o] = "waits" => AtLeader(o) \/ AtClosure(o)

\* An election leaves a client waiting only if its task lost nothing by it.
LEMMA ElectLeaves ==
  ASSUME TypeInv, NEW n \in Nodes, Elect(n), NEW o \in Ops, answer'[o] = "waits"
  PROVE  /\ answer[o] = "waits"
         /\ \A p \in pending : p.op = o => p.done = None
         /\ Len(log') = Len(log)
         /\ \A i \in 1..Len(log) : log[i].op = o => log'[i] = log[i]
<1> DEFINE Lost(clear) == IF clear /\ leader # None
                          THEN {i \in applied[leader] + 1..Len(log) : log[i].done = leader} ELSE {}
           Failed(lost) == {p.op : p \in {q \in pending : q.done # None}} \cup {log[i].op : i \in lost}
<1>1. PICK clear \in BOOLEAN :
        /\ log' = [i \in 1..Len(log) |->
                     IF i \in Lost(clear) THEN [log[i] EXCEPT !.done = None] ELSE log[i]]
        /\ answer' = [q \in Ops |-> IF q \in Failed(Lost(clear)) THEN "EPERM" ELSE answer[q]]
  BY ZenonT(30) DEF Elect
<1>2. o \notin Failed(Lost(clear)) /\ answer[o] = "waits"
  <2> HIDE DEF Failed
  <2> QED
    BY <1>1
<1>3. Len(log') = Len(log)
  <2>1. Len(log) \in Nat
    BY TasksTyped
  <2> HIDE DEF Lost
  <2> QED
    BY <1>1, <2>1
<1> HIDE DEF Lost
<1>4. \A i \in 1..Len(log) : log[i].op = o => log'[i] = log[i]
  BY <1>1, <1>2
<1>5. \A p \in pending : p.op = o => p.done = None
  BY <1>2
<1> QED
  BY <1>2, <1>3, <1>4, <1>5

\* Every step keeps it: a closure that goes away, with a leader, a process or its
\* run, answers its client in the same step.
LEMMA WaiterStep ==
  ASSUME ControlInv, WaiterHasClosure, [Next]_vars PROVE WaiterHasClosure'
<1>0. TypeInv /\ up \subseteq Nodes /\ None \notin Nodes
  BY NoneIsNoNode DEF ControlInv, TypeInv
\* where nothing moves but the answers of others, o stays where it is
<1>1. ASSUME NEW n \in Nodes, NEW o \in Ops, ApplyNotStarted(n, o) \/ ApplyTask(n, o)
      PROVE  WaiterHasClosure'
  <2>1. /\ leader' = leader /\ log' = log /\ started' = started /\ up' = up
        /\ applied' = applied /\ closures' = closures /\ pending \subseteq pending'
        /\ \A q \in Ops : q # o => answer'[q] = answer[q]
    BY <1>1 DEF ApplyNotStarted, ApplyTask, ControlInv, TypeInv
  <2>2. ASSUME answer'[o] = "waits" PROVE AtLeader(o)'
    <3>1. n = leader /\ Runs(n) /\ Task(n, o) \in pending'
      BY <1>0, <1>1, <2>2 DEF ApplyNotStarted, ApplyTask, TypeInv, Runs
    <3>2. Task(n, o).op = o /\ Task(n, o).done = n
      BY DEF Task
    <3> QED
      BY <2>1, <3>1, <3>2 DEF AtLeader, Runs
  <2>3. ASSUME NEW q \in Ops, q # o, answer'[q] = "waits"
        PROVE  AtLeader(q)' \/ AtClosure(q)'
    <3>1. AtLeader(q) \/ AtClosure(q)
      BY <2>1, <2>3 DEF WaiterHasClosure
    <3>2. AtLeader(q) => AtLeader(q)'
      BY <2>1 DEF AtLeader, Runs
    <3>3. AtClosure(q) => AtClosure(q)'
      BY <2>1 DEF AtClosure, Runs
    <3> QED
      BY <3>1, <3>2, <3>3
  <2> QED
    BY <2>2, <2>3 DEF WaiterHasClosure
<1>2. ASSUME NEW n \in Nodes, Start(n) \/ Restart(n) PROVE WaiterHasClosure'
  <2>1. /\ leader' = leader /\ log' = log /\ pending' = pending /\ answer' = answer
        /\ applied' = applied /\ closures' = closures
        /\ up \subseteq up' /\ started \subseteq started'
    BY <1>2 DEF Start, Restart
  <2> QED
    BY <2>1, Zenon DEF WaiterHasClosure, AtLeader, AtClosure, Runs
<1>3. ASSUME NEW n \in Nodes, Elect(n) PROVE WaiterHasClosure'
  <2> SUFFICES ASSUME NEW o \in Ops, answer'[o] = "waits" PROVE AtClosure(o)'
    BY DEF WaiterHasClosure
  <2>1. /\ answer[o] = "waits" /\ Len(log') = Len(log)
        /\ \A p \in pending : p.op = o => p.done = None
        /\ \A i \in 1..Len(log) : log[i].op = o => log'[i] = log[i]
    BY <1>0, <1>3, ElectLeaves
  <2>2. applied' = applied /\ closures' = closures /\ up' = up /\ started' = started
    BY <1>3 DEF Elect
  <2>3. AtClosure(o)
    BY <1>0, <2>1 DEF WaiterHasClosure, AtLeader, Runs
  <2> QED
    BY <2>1, <2>2, <2>3 DEF AtClosure, Runs
<1>4. ASSUME NEW n \in Nodes, Die(n) PROVE WaiterHasClosure'
  <2> SUFFICES ASSUME NEW o \in Ops, answer'[o] = "waits" PROVE AtLeader(o)' \/ AtClosure(o)'
    BY DEF WaiterHasClosure
  <2>1. /\ answer[o] = "waits"
        /\ \A p \in pending : p.op = o => p.done # n
        /\ \A i \in 1..Len(log) : log[i].op = o => log[i].done # n
    BY <1>4 DEF Die
  <2>2. /\ up' = up \ {n} /\ started' = started \ {n}
        /\ leader' = IF leader = n THEN None ELSE leader
        /\ \A m \in Nodes : m # n => closures'[m] = closures[m] /\ applied'[m] = applied[m]
    BY <1>0, <1>4 DEF Die, TypeInv
  <2>3. CASE AtLeader(o)
    <3>1. PICK p \in pending : p.op = o /\ p.done = leader
      BY <2>3 DEF AtLeader
    <3>2. leader # n /\ leader' = leader /\ Runs(leader)'
      BY <2>1, <2>2, <2>3, <3>1 DEF AtLeader, Runs
    <3>3. p \in pending'
      <4> DEFINE Freed(t) == [t EXCEPT !.done = IF t.done = n THEN None ELSE t.done]
      <4>1. pending' = {Freed(t) : t \in pending}
        BY <1>4 DEF Die
      <4>2. Freed(p) = p
        <5>1. p \in TaskRecord /\ p.done # n
          BY <1>0, <2>1, <3>1, TasksTyped
        <5> QED
          BY <5>1 DEF TaskRecord
      <4> HIDE DEF Freed
      <4> QED
        BY <4>1, <4>2
    <3> QED
      BY <3>1, <3>2, <3>3 DEF AtLeader
  <2>4. CASE AtClosure(o)
    <3>1. PICK i \in 1..Len(log), m \in Nodes :
            /\ log[i].op = o /\ log[i].done = m /\ Runs(m)
            /\ i > applied[m] \/ i \in closures[m]
      BY <2>4 DEF AtClosure
    <3>2. m # n
      BY <2>1, <3>1
    <3>3. i \in 1..Len(log') /\ log'[i].op = log[i].op /\ log'[i].done = m
      BY <1>4, <3>1, <3>2, ControlDie
    <3>4. Runs(m)' /\ (i > applied'[m] \/ i \in closures'[m])
      BY <2>2, <3>1, <3>2 DEF Runs
    <3> QED
      BY <3>1, <3>3, <3>4 DEF AtClosure
  <2> QED
    BY <2>1, <2>3, <2>4 DEF WaiterHasClosure
<1>5. ASSUME NEW n \in Nodes, OnApply(n), ~Die(n) PROVE WaiterHasClosure'
  <2>1. /\ leader' = leader /\ pending' = pending /\ log' = log /\ started' = started /\ up' = up
        /\ answer' = answer /\ applied' = [applied EXCEPT ![n] = applied[n] + 1]
        /\ \/ /\ log[applied[n] + 1].done = n
              /\ closures' = [closures EXCEPT ![n] = @ \cup {applied[n] + 1}]
           \/ log[applied[n] + 1].done # n /\ closures' = closures
    BY <1>5 DEF OnApply
  <2>2. /\ applied'[n] = applied[n] + 1 /\ applied[n] \in Nat
        /\ \A m \in Nodes : m # n => applied'[m] = applied[m]
        /\ \A m \in Nodes : closures[m] \subseteq closures'[m]
        /\ log[applied[n] + 1].done = n => applied[n] + 1 \in closures'[n]
    BY <1>0, <2>1, ZenonT(30) DEF TypeInv
  <2>3. ASSUME NEW o \in Ops, AtClosure(o) PROVE AtClosure(o)'
    <3>1. PICK i \in 1..Len(log), m \in Nodes :
            /\ log[i].op = o /\ log[i].done = m /\ Runs(m)
            /\ i > applied[m] \/ i \in closures[m]
      BY <2>3 DEF AtClosure
    <3>2. i > applied'[m] \/ i \in closures'[m]
      BY <2>2, <3>1
    <3> QED
      BY <2>1, <3>1, <3>2, Zenon DEF AtClosure, Runs
  <2>4. ASSUME NEW o \in Ops, AtLeader(o) PROVE AtLeader(o)'
    BY <2>1, <2>4 DEF AtLeader, Runs
  <2> QED
    BY <2>1, <2>3, <2>4 DEF WaiterHasClosure
<1>6. ASSUME NEW n \in Nodes, NEW i \in closures[n], RunClosure(n, i) PROVE WaiterHasClosure'
  <2>1. i \in 1..Len(log) /\ log[i].op \in Ops
    BY <1>6, ControlRunClosure
  <2>2. /\ leader' = leader /\ pending' = pending /\ log' = log /\ started' = started /\ up' = up
        /\ applied' = applied
        /\ answer' = [answer EXCEPT ![log[i].op] = Status(ns[n], log[i].op)]
        /\ closures' = [closures EXCEPT ![n] = @ \ {i}]
    BY <1>6 DEF RunClosure
  <2>3. Status(ns[n], log[i].op) # "waits"
    BY <2>1, StatusIsAnswer
  <2>4. ASSUME NEW o \in Ops, answer'[o] = "waits" PROVE o # log[i].op /\ answer[o] = "waits"
    <3>1. answer = [q \in Ops |-> answer[q]]
      BY <1>0 DEF TypeInv
    <3> QED
      BY <2>1, <2>2, <2>3, <2>4, <3>1
  <2>5. \A m \in Nodes : \A k \in closures[m] : k # i => k \in closures'[m]
    BY <1>0, <2>2 DEF TypeInv
  <2>6. ASSUME NEW o \in Ops, o # log[i].op, AtClosure(o) PROVE AtClosure(o)'
    <3>1. PICK k \in 1..Len(log), m \in Nodes :
            /\ log[k].op = o /\ log[k].done = m /\ Runs(m)
            /\ k > applied[m] \/ k \in closures[m]
      BY <2>6 DEF AtClosure
    <3>2. k # i
      BY <2>6, <3>1
    <3> QED
      BY <2>2, <2>5, <3>1, <3>2, Zenon DEF AtClosure, Runs
  <2>7. ASSUME NEW o \in Ops, AtLeader(o) PROVE AtLeader(o)'
    BY <2>2, <2>7 DEF AtLeader, Runs
  <2> QED
    BY <2>4, <2>6, <2>7 DEF WaiterHasClosure
<1>7. ASSUME NEW n \in Nodes, SaveSnapshot(n) \/ LoadSnapshot(n) PROVE WaiterHasClosure'
  <2>1. /\ leader' = leader /\ pending' = pending /\ log' = log /\ started' = started /\ up' = up
        /\ closures' = closures /\ answer' = answer
    BY <1>7 DEF SaveSnapshot, LoadSnapshot
  <2>2. ASSUME NEW m \in Nodes, NEW k \in 1..Len(log), log[k].done = m, k > applied[m]
        PROVE  k > applied'[m]
    <3>1. CASE SaveSnapshot(n)
      BY <2>2, <3>1 DEF SaveSnapshot
    <3>2. CASE LoadSnapshot(n)
      <4>1. /\ applied' = [applied EXCEPT ![n] = snap[leader]]
            /\ \A j \in applied[n] + 1..snap[leader] : log[j].done # n
            /\ leader \in Nodes
        BY <1>0, <3>2 DEF LoadSnapshot, TypeInv
      <4>2. snap[leader] \in Nat /\ applied[n] \in Nat /\ applied[m] \in Nat /\ k \in Nat
        BY <1>0, <4>1 DEF TypeInv
      <4>3. CASE m = n
        <5>1. applied'[m] = snap[leader]
          BY <1>0, <4>1, <4>3 DEF TypeInv
        <5>2. k \notin applied[n] + 1..snap[leader]
          BY <2>2, <4>1, <4>3
        <5> QED
          BY <2>2, <4>2, <4>3, <5>1, <5>2
      <4>4. CASE m # n
        BY <1>0, <2>2, <4>1, <4>4 DEF TypeInv
      <4> QED
        BY <4>3, <4>4
    <3> QED
      BY <1>7, <3>1, <3>2
  <2>3. ASSUME NEW o \in Ops, AtClosure(o) PROVE AtClosure(o)'
    BY <2>1, <2>2, <2>3, Zenon DEF AtClosure, Runs
  <2>4. ASSUME NEW o \in Ops, AtLeader(o) PROVE AtLeader(o)'
    BY <2>1, <2>4 DEF AtLeader, Runs
  <2> QED
    BY <2>1, <2>3, <2>4 DEF WaiterHasClosure
<1>8. ASSUME NEW p \in pending, Commit(p) PROVE WaiterHasClosure'
  <2>1. /\ log' = Append(log, p) /\ pending' = pending \ {p}
        /\ leader' = leader /\ started' = started /\ up' = up /\ applied' = applied
        /\ closures' = closures /\ answer' = answer
    BY <1>8 DEF Commit
  <2>2. log \in Seq(TaskRecord) /\ p \in TaskRecord /\ Len(log) \in Nat
    BY <1>0, TasksTyped DEF TypeInv
  <2>3. /\ Len(log') = Len(log) + 1 /\ log'[Len(log) + 1] = p
        /\ \A i \in 1..Len(log) : i \in 1..Len(log') /\ log'[i] = log[i]
        /\ Len(log) + 1 \in 1..Len(log')
    BY <2>1, <2>2
  <2>4. ASSUME NEW o \in Ops, AtClosure(o) PROVE AtClosure(o)'
    BY <2>1, <2>3, <2>4, Zenon DEF AtClosure, Runs
  <2>5. ASSUME NEW o \in Ops, AtLeader(o) PROVE AtLeader(o)' \/ AtClosure(o)'
    <3>1. PICK q \in pending : q.op = o /\ q.done = leader
      BY <2>5 DEF AtLeader
    <3>2. CASE q # p
      BY <2>1, <2>5, <3>1, <3>2 DEF AtLeader, Runs
    <3>3. CASE q = p
      <4>1. leader \in Nodes /\ Runs(leader)
        BY <1>0, <2>5 DEF AtLeader, Runs
      <4>2. Len(log) + 1 > applied[leader]
        BY <1>0, <2>2, <4>1 DEF TypeInv
      <4>3. /\ log'[Len(log) + 1].op = o /\ log'[Len(log) + 1].done = leader
            /\ Len(log) + 1 > applied'[leader] /\ Runs(leader)'
        BY <2>1, <2>3, <3>1, <3>3, <4>1, <4>2 DEF Runs
      <4> QED
        BY <2>1, <2>3, <4>1, <4>3, Zenon DEF AtClosure, Runs
    <3> QED
      BY <3>2, <3>3
  <2> QED
    BY <2>1, <2>4, <2>5 DEF WaiterHasClosure
<1>9. ASSUME UNCHANGED vars PROVE WaiterHasClosure'
  BY <1>9 DEF vars, WaiterHasClosure, AtLeader, AtClosure, Runs
<1> QED
  BY NextCases, <1>1, <1>2, <1>3, <1>4, <1>5, <1>6, <1>7, <1>8, <1>9, Zenon

\* The safety half of TaskAnswered: through commits, elections, deaths, replays
\* and snapshots no client of OpenFile or Mkdir is left with a future that nobody
\* will set (bridge, OpClosure::Run).
THEOREM ClientsAreNotForgotten == Spec => []WaiterHasClosure
<1>1. Init => WaiterHasClosure
  BY DEF Init, WaiterHasClosure
<1>2. Spec => []ControlInv
  BY ControlInit, ControlStep, PTL DEF Spec
<1>3. ControlInv /\ WaiterHasClosure /\ [Next]_vars => WaiterHasClosure'
  BY WaiterStep
<1> QED
  BY <1>1, <1>2, <1>3, PTL DEF Spec

-----------------------------------------------------------------------------
(* deva implements OpLog *)

\* the operations of the log and of what braft has accepted, as OpLog sees them
LoggedOps == [i \in 1..Len(log) |-> log[i].op]
PendingOps == {p.op : p \in pending}

\* A task without its closure has a client that does not wait any more.
LEMMA LostIsTold ==
  ASSUME ControlInv, WaiterHasClosure, NEW p \in pending, p.done = None
  PROVE  answer[p.op] # "waits"
<1> SUFFICES ASSUME answer[p.op] = "waits" PROVE FALSE
  OBVIOUS
<1>1. p.op \in Ops /\ up \subseteq Nodes /\ None \notin Nodes
  BY TasksTyped, NoneIsNoNode DEF ControlInv, TypeInv
<1>2. AtLeader(p.op) \/ AtClosure(p.op)
  BY <1>1 DEF WaiterHasClosure
<1>3. ~AtLeader(p.op)
  BY <1>1 DEF AtLeader, Runs, ControlInv, ProposedOnce
<1>4. ~AtClosure(p.op)
  BY DEF AtClosure, ControlInv, ProposedOnce
<1> QED
  BY <1>2, <1>3, <1>4

\* Whatever takes closures from their tasks is a failure of OpLog: the log keeps
\* its operations, those that braft drops have clients that were told.
LEMMA FailureMaps ==
  ASSUME NEW e \in {"EPERM", "broken"}, NEW failed \in SUBSET {o \in Ops : answer[o] = "waits"},
         LoggedOps' = LoggedOps, PendingOps' \subseteq PendingOps,
         answer' = [o \in Ops |-> IF o \in failed THEN e ELSE answer[o]],
         \A o \in PendingOps \ PendingOps' : answer'[o] # "waits"
  PROVE  Promised!OpNext
<1>1. Promised!Fail(failed, e)
  BY DEF Promised!Fail, LoggedOps, PendingOps
<1>2. failed \in SUBSET Promised!Waiting /\ e \in Promised!Failures
  BY DEF Promised!Waiting, Promised!Failures
<1> QED
  BY <1>1, <1>2, Zenon DEF Promised!OpNext

\* Every step of deva is a step of OpLog or leaves it alone: a request is taken in
\* or turned away, a commit enters the log, a closure answers, an election and
\* the death of a process fail.
LEMMA OpLogStep ==
  ASSUME ControlInv, WaiterHasClosure, [Next]_vars
  PROVE  [Promised!OpNext]_(Promised!opVars)
<1>0. TypeInv /\ answer = [o \in Ops |-> answer[o]]
  BY DEF ControlInv, TypeInv
<1>1. ASSUME LoggedOps' = LoggedOps, PendingOps' = PendingOps, answer' = answer
      PROVE  [Promised!OpNext]_(Promised!opVars)
  BY <1>1, Zenon DEF Promised!opVars, LoggedOps, PendingOps
<1>2. ASSUME Len(log') = Len(log), \A i \in 1..Len(log) : log'[i].op = log[i].op
      PROVE  LoggedOps' = LoggedOps
  BY <1>2 DEF LoggedOps
<1>3. ASSUME log' = log, pending' = pending, answer' = answer
      PROVE  [Promised!OpNext]_(Promised!opVars)
  BY <1>1, <1>3 DEF LoggedOps, PendingOps
<1>4. ASSUME NEW n \in Nodes, NEW o \in Ops, ApplyNotStarted(n, o) \/ ApplyTask(n, o)
      PROVE  Promised!OpNext
  <2>1. answer[o] = "none" /\ LoggedOps' = LoggedOps
    BY <1>4 DEF ApplyNotStarted, ApplyTask, LoggedOps
  <2>2. CASE answer' = [answer EXCEPT ![o] = "waits"] /\ pending' = pending \cup {Task(n, o)}
    <3>1. PendingOps' = PendingOps \cup {o}
      <4>1. Task(n, o).op = o
        BY DEF Task
      <4> QED
        BY <2>2, <4>1 DEF PendingOps
    <3>2. Promised!TakeIn(o)
      BY <2>1, <2>2, <3>1 DEF Promised!TakeIn, LoggedOps, PendingOps
    <3> QED
      BY <3>2, Zenon DEF Promised!OpNext
  <2>3. CASE pending' = pending /\ \E e \in {"EPERM", "hangs"} : answer' = [answer EXCEPT ![o] = e]
    <3>1. PendingOps' = PendingOps
      BY <2>3 DEF PendingOps
    <3>2. Promised!TurnAway(o)
      BY <2>1, <2>3, <3>1, Zenon DEF Promised!TurnAway, LoggedOps, PendingOps
    <3> QED
      BY <3>2, Zenon DEF Promised!OpNext
  <2> QED
    BY <1>4, <2>2, <2>3 DEF ApplyNotStarted, ApplyTask
<1>5. ASSUME NEW p \in pending, Commit(p) PROVE Promised!OpNext
  <2>1. log' = Append(log, p) /\ pending' = pending \ {p} /\ answer' = answer
    BY <1>5 DEF Commit
  <2>2. p.op \in Ops /\ log \in Seq(TaskRecord) /\ Len(log) \in Nat /\ p \in TaskRecord
    BY <1>0, TasksTyped DEF TypeInv
  <2>3. PendingOps' = PendingOps \ {p.op}
    BY <2>1 DEF PendingOps, ControlInv, ProposedOnce
  <2>4. LoggedOps' = Append(LoggedOps, p.op)
    <3>1. /\ Len(log') = Len(log) + 1 /\ log'[Len(log) + 1] = p
          /\ \A i \in 1..Len(log) : log'[i] = log[i]
      BY <2>1, <2>2
    <3>2. LoggedOps \in Seq(Ops) /\ Len(LoggedOps) = Len(log)
      BY <1>0, <2>2, TasksTyped DEF LoggedOps
    <3>3. LoggedOps' = [i \in 1..Len(log) + 1 |-> IF i = Len(log) + 1 THEN p.op ELSE log[i].op]
      BY <2>2, <3>1 DEF LoggedOps
    <3>4. Append(LoggedOps, p.op) = [i \in 1..Len(log) + 1 |->
                                       IF i = Len(log) + 1 THEN p.op ELSE LoggedOps[i]]
      BY <2>2, <3>2
    <3> QED
      BY <2>2, <3>3, <3>4 DEF LoggedOps
  <2>5. Promised!Enter(p.op)
    BY <2>1, <2>3, <2>4 DEF Promised!Enter, LoggedOps, PendingOps
  <2> QED
    BY <2>2, <2>5, Zenon DEF Promised!OpNext
<1>6. ASSUME NEW n \in Nodes, NEW i \in closures[n], RunClosure(n, i) PROVE Promised!OpNext
  <2>1. i \in 1..Len(log) /\ log[i].op \in Ops /\ answer[log[i].op] = "waits"
    BY <1>6, ControlRunClosure
  <2>2. Status(ns[n], log[i].op) \in Promised!Outcomes
    BY <2>1, StatusIsAnswer DEF Promised!Outcomes
  <2>3. /\ log' = log /\ pending' = pending
        /\ answer' = [answer EXCEPT ![log[i].op] = Status(ns[n], log[i].op)]
    BY <1>6 DEF RunClosure
  <2>4. Promised!Answer(log[i].op)
    <3>1. log[i].op \in Promised!Waiting
      BY <2>1 DEF Promised!Waiting
    <3>2. \E k \in 1..Len(LoggedOps) : LoggedOps[k] = log[i].op
      <4>1. Len(LoggedOps) = Len(log) /\ LoggedOps[i] = log[i].op
        BY <1>0, <2>1, TasksTyped DEF LoggedOps
      <4> QED
        BY <2>1, <4>1
    <3>3. LoggedOps' = LoggedOps /\ PendingOps' = PendingOps
      BY <2>3 DEF LoggedOps, PendingOps
    <3> QED
      BY <2>2, <2>3, <3>1, <3>2, <3>3, Zenon DEF Promised!Answer, LoggedOps, PendingOps
  <2> QED
    BY <2>1, <2>4, Zenon DEF Promised!OpNext
<1>7. ASSUME NEW n \in Nodes, Elect(n) PROVE Promised!OpNext
  <2> DEFINE Lost(clear) == IF clear /\ leader # None
                            THEN {i \in applied[leader] + 1..Len(log) : log[i].done = leader} ELSE {}
             Failed(lost) == {p.op : p \in {q \in pending : q.done # None}} \cup {log[i].op : i \in lost}
  <2>1. PICK kept \in SUBSET pending, clear \in BOOLEAN :
          /\ pending' = {[p EXCEPT !.done = None] : p \in kept}
          /\ answer' = [o \in Ops |-> IF o \in Failed(Lost(clear)) THEN "EPERM" ELSE answer[o]]
    BY <1>7, ZenonT(30) DEF Elect
  <2> DEFINE failed == Failed(Lost(clear))
  <2>2. failed \in SUBSET {o \in Ops : answer[o] = "waits"}
    <3>1. \A p \in pending : p.op \in Ops /\ (p.done # None => answer[p.op] = "waits")
      BY <1>0, TasksTyped DEF ControlInv, ClosureWaits
    <3>2. \A i \in Lost(clear) : log[i].op \in Ops /\ answer[log[i].op] = "waits"
      <4>1. \A i \in Lost(clear) : /\ i \in 1..Len(log) /\ leader \in Nodes
                                   /\ log[i].done = leader /\ i > applied[leader]
        BY <1>0, TasksTyped DEF TypeInv
      <4> HIDE DEF Lost
      <4> QED
        BY <1>0, <4>1, TasksTyped DEF ControlInv, ClosureWaits
    <3> HIDE DEF Lost
    <3> QED
      BY <3>1, <3>2
  <2>3. PendingOps' \subseteq PendingOps
    <3>1. \A p \in kept : [p EXCEPT !.done = None].op = p.op
      BY <1>0, TasksTyped, TaskFields
    <3> QED
      BY <2>1, <3>1, ZenonT(30) DEF PendingOps
  <2>4. ASSUME NEW o \in PendingOps PROVE answer'[o] # "waits"
    <3>1. PICK p \in pending : o = p.op
      BY DEF PendingOps
    <3>2. o \in Ops
      BY <1>0, <3>1, TasksTyped
    <3>3. CASE p.done = None
      <4>1. answer[o] # "waits"
        BY <3>1, <3>3, LostIsTold
      <4> HIDE DEF Failed
      <4> QED
        BY <2>1, <3>2, <4>1
    <3>4. CASE p.done # None
      <4>1. o \in failed
        BY <3>1, <3>4
      <4> HIDE DEF Failed
      <4> QED
        BY <2>1, <3>2, <4>1
    <3> QED
      BY <3>3, <3>4
  <2>5. LoggedOps' = LoggedOps
    BY <1>2, <1>7, ControlElect
  <2>6. answer' = [o \in Ops |-> IF o \in failed THEN "EPERM" ELSE answer[o]]
    BY <2>1
  <2> HIDE DEF failed
  <2> QED
    BY <2>2, <2>3, <2>4, <2>5, <2>6, FailureMaps
<1>8. ASSUME NEW n \in Nodes, Die(n) PROVE Promised!OpNext
  <2> DEFINE failed == {o \in Ops : answer[o] = "waits" /\
                          (\/ \E p \in pending : p.op = o /\ p.done = n
                           \/ \E i \in 1..Len(log) : log[i].op = o /\ log[i].done = n)}
  <2>1. answer' = [o \in Ops |-> IF o \in failed THEN "broken" ELSE answer[o]]
    BY <1>8 DEF Die
  <2>2. PendingOps' = PendingOps
    <3> DEFINE Freed(t) == [t EXCEPT !.done = IF t.done = n THEN None ELSE t.done]
    <3>1. pending' = {Freed(p) : p \in pending}
      BY <1>8 DEF Die
    <3>2. \A p \in pending : Freed(p).op = p.op
      BY <1>0, TasksTyped DEF TaskRecord
    <3> HIDE DEF Freed
    <3> QED
      BY <3>1, <3>2 DEF PendingOps
  <2>3. LoggedOps' = LoggedOps
    BY <1>2, <1>8, ControlDie
  <2>4. failed \in SUBSET {o \in Ops : answer[o] = "waits"}
    OBVIOUS
  <2> HIDE DEF failed
  <2> QED
    BY <2>1, <2>2, <2>3, <2>4, FailureMaps
<1>9. ASSUME NEW n \in Nodes,
             Start(n) \/ Restart(n) \/ SaveSnapshot(n) \/ LoadSnapshot(n) \/ (OnApply(n) /\ ~Die(n))
      PROVE  [Promised!OpNext]_(Promised!opVars)
  BY <1>3, <1>9 DEF Start, Restart, SaveSnapshot, LoadSnapshot, OnApply
<1>10. ASSUME UNCHANGED vars PROVE [Promised!OpNext]_(Promised!opVars)
  BY <1>3, <1>10 DEF vars
<1> QED
  BY NextCases, <1>4, <1>5, <1>6, <1>7, <1>8, <1>9, <1>10, Zenon

\* Handlers, closures and braft implement OpLog: for any nodes and requests, an
\* operation is committed at most once and its client told at most once, of an
\* outcome only after the commit.
THEOREM DevaRefinement == Spec => ImplementsOpLog
<1>1. Init => Promised!OpInit
  <2> SUFFICES ASSUME Init PROVE Promised!OpInit
    OBVIOUS
  <2>1. log = <<>> /\ pending = {} /\ answer = [o \in Ops |-> "none"]
    BY DEF Init
  <2>2. [i \in 1..Len(log) |-> log[i].op] = <<>>
    BY <2>1
  <2> QED
    BY <2>1, <2>2 DEF Promised!OpInit
<1>2. Spec => []ControlInv
  BY ControlInit, ControlStep, PTL DEF Spec
<1>3. ControlInv /\ WaiterHasClosure /\ [Next]_vars => [Promised!OpNext]_(Promised!opVars)
  BY OpLogStep
<1> QED
  BY <1>1, <1>2, <1>3, ClientsAreNotForgotten, PTL DEF Spec, ImplementsOpLog, Promised!OpSpec
=============================================================================
