------------------------- MODULE NamespaceOpsProofs -------------------------
(***************************************************************************)
(* Facts about the operations of NamespaceOps for tables and paths of any  *)
(* size.  Lookup and Without are recursive functions; what they return is  *)
(* shown by induction on the natural numbers, in the form NatSetInduction  *)
(* that the provers can instantiate.                                       *)
(***************************************************************************)
EXTENDS NamespaceOps, WellFoundedInduction, TLAPS

-----------------------------------------------------------------------------
(* Induction *)

\* A set of natural numbers that is not empty has a least element.
LEMMA LeastElement ==
  ASSUME NEW T, T \subseteq Nat, T # {}
  PROVE  \E x \in T : \A y \in T : x <= y
<1> DEFINE Less == {ss \in Nat \X Nat : ss[1] < ss[2]}
<1>1. IsWellFoundedOn(Less, Nat)
  BY NatLessThanWellFounded DEF OpToRel
<1>2. PICK x \in T : \A y \in T : ~(<<y, x>> \in Less)
  <2> HIDE DEF Less
  <2> QED
    BY <1>1, WFMin, Zenon
<1>3. \A y \in T : ~(y < x)
  BY <1>2, Zenon
<1> QED
  BY <1>3

\* A set with 0 and with the successor of each natural number in it has them all.
LEMMA NatSetInduction ==
  ASSUME NEW S, 0 \in S, \A n \in Nat : n \in S => n + 1 \in S
  PROVE  Nat \subseteq S
<1>1. SUFFICES ASSUME Nat \ S # {} PROVE FALSE
  OBVIOUS
<1>2. PICK x \in Nat \ S : \A y \in Nat \ S : x <= y
  BY <1>1, LeastElement, Zenon
<1>3. x # 0 /\ x - 1 \in Nat
  BY <1>2
<1>4. x - 1 \in S
  BY <1>2, <1>3
<1> QED
  BY <1>2, <1>3, <1>4

-----------------------------------------------------------------------------
(* The first entry of a name *)

\* entry v is the first of its name among the first n of the list
FirstIn(list, n, name, v) ==
  \E i \in 1..n : /\ list[i] = v /\ v.name = name
                  /\ \A j \in 1..n : list[j].name = name => i <= j

\* no entry among the first n of the list has the name
NoneIn(list, n, name) == \A i \in 1..n : list[i].name # name

\* FirstNamed, the search std::find_if makes, is the index of the first entry of
\* the name, and 0 when there is none.
LEMMA FirstNamedIsFirst ==
  ASSUME NEW list, Len(list) \in Nat, NEW name
  PROVE  \/ /\ NoneIn(list, Len(list), name) /\ FirstNamed(list, name) = 0
         \/ /\ FirstNamed(list, name) \in 1..Len(list)
            /\ FirstIn(list, Len(list), name, list[FirstNamed(list, name)])
<1> DEFINE here == {i \in 1..Len(list) : list[i].name = name}
           least == CHOOSE i \in here : \A j \in here : i <= j
<1>1. FirstNamed(list, name) = IF here = {} THEN 0 ELSE least
  BY DEF FirstNamed
<1>2. CASE here = {}
  BY <1>1, <1>2 DEF NoneIn
<1>3. CASE here # {}
  <2>1. here \subseteq Nat
    OBVIOUS
  <2>2. \E x \in here : \A y \in here : x <= y
    <3> HIDE DEF here
    <3> QED
      BY <1>3, <2>1, LeastElement, Zenon
  <2>3. least \in here /\ \A y \in here : least <= y
    <3> HIDE DEF here
    <3> QED
      BY <2>2
  <2> QED
    BY <1>1, <1>3, <2>3, Zenon DEF FirstIn
<1> QED
  BY <1>2, <1>3

\* There is one first entry of a name.
LEMMA FirstIsUnique ==
  ASSUME NEW list, NEW n \in Nat, NEW name, NEW v, NEW w,
         FirstIn(list, n, name, v), FirstIn(list, n, name, w)
  PROVE  v = w
<1>1. PICK i \in 1..n : list[i] = v /\ v.name = name /\ \A j \in 1..n : list[j].name = name => i <= j
  BY DEF FirstIn
<1>2. PICK k \in 1..n : list[k] = w /\ w.name = name /\ \A j \in 1..n : list[j].name = name => k <= j
  BY DEF FirstIn
<1>3. i = k
  BY <1>1, <1>2
<1> QED
  BY <1>1, <1>2, <1>3

-----------------------------------------------------------------------------
(* Lookup *)

\* What one component leads to: nothing without an entry of its name, else the
\* first entry, which ends the walk when it is a file and not the last component.
LEMMA StepIsFirst ==
  ASSUME NEW e, NEW at, NEW path, NEW i,
         at.inode \in DOMAIN e, Len(e[at.inode]) \in Nat
  PROVE  LET list == e[at.inode] IN
         \/ NoneIn(list, Len(list), path[i]) /\ Step(e, at, path, i) = NotFound
         \/ \E k \in 1..Len(list) :
              /\ FirstIn(list, Len(list), path[i], list[k])
              /\ Step(e, at, path, i) =
                   IF list[k].type = "kFile" /\ i # Len(path) THEN NotFound
                   ELSE Found(list[k].inode, list[k].type)
<1> DEFINE list == e[at.inode]
<1>1. CASE FirstNamed(list, path[i]) = 0
  <2>1. NoneIn(list, Len(list), path[i])
    BY <1>1, FirstNamedIsFirst
  <2> QED
    BY <1>1, <2>1 DEF Step
<1>2. CASE FirstNamed(list, path[i]) # 0
  <2>1. /\ FirstNamed(list, path[i]) \in 1..Len(list)
        /\ FirstIn(list, Len(list), path[i], list[FirstNamed(list, path[i])])
    BY <1>2, FirstNamedIsFirst
  <2> QED
    BY <1>2, <2>1 DEF Step
<1> QED
  BY <1>1, <1>2

\* The same, from what the list is known to hold.
LEMMA StepFinds ==
  ASSUME NEW e, NEW at, NEW path, NEW i, NEW list, NEW x,
         at.inode \in DOMAIN e, e[at.inode] = list, path[i] = x, Len(list) \in Nat
  PROVE  /\ NoneIn(list, Len(list), x) => Step(e, at, path, i) = NotFound
         /\ \A v : FirstIn(list, Len(list), x, v) =>
              Step(e, at, path, i) = IF v.type = "kFile" /\ i # Len(path) THEN NotFound
                                     ELSE Found(v.inode, v.type)
<1>1. \A v : ~(NoneIn(list, Len(list), x) /\ FirstIn(list, Len(list), x, v))
  BY DEF NoneIn, FirstIn
<1>2. CASE FirstNamed(list, x) = 0
  <2>1. NoneIn(list, Len(list), x)
    BY <1>2, FirstNamedIsFirst
  <2>2. Step(e, at, path, i) = NotFound
    BY <1>2 DEF Step
  <2> QED
    BY <1>1, <2>1, <2>2
<1>3. CASE FirstNamed(list, x) # 0
  <2> DEFINE k == FirstNamed(list, x)
  <2>1. FirstIn(list, Len(list), x, list[k])
    BY <1>3, FirstNamedIsFirst
  <2>2. Step(e, at, path, i) = IF list[k].type = "kFile" /\ i # Len(path) THEN NotFound
                               ELSE Found(list[k].inode, list[k].type)
    BY <1>3 DEF Step
  <2> HIDE DEF k
  <2>3. \A v : FirstIn(list, Len(list), x, v) => v = list[k]
    BY <2>1, FirstIsUnique
  <2> QED
    BY <1>1, <2>1, <2>2, <2>3
<1> QED
  BY <1>2, <1>3

\* the result after i components, from the results w before
Further(e, path, w, i) ==
  IF i = 0 THEN Found(Root, "kDirectory")
  ELSE IF w[i - 1].status # "OK" THEN w[i - 1]
  ELSE Step(e, w[i - 1], path, i)

\* The recursive function of Walk exists and satisfies its equation.
LEMMA WalkEquation ==
  ASSUME NEW e, NEW path, Len(path) \in Nat
  PROVE  Walk(e, path) = [i \in 0..Len(path) |-> Further(e, path, Walk(e, path), i)]
<1> DEFINE S == {n \in Nat : \E w : w = [i \in 0..n |-> Further(e, path, w, i)]}
<1>1. 0 \in S
  <2> DEFINE w == [i \in 0..0 |-> Found(Root, "kDirectory")]
  <2>1. w = [i \in 0..0 |-> Further(e, path, w, i)]
    BY DEF Further
  <2> QED
    BY <2>1
<1>2. ASSUME NEW n \in Nat, n \in S PROVE n + 1 \in S
  <2>1. PICK w : w = [i \in 0..n |-> Further(e, path, w, i)]
    BY <1>2
  <2> DEFINE v == [i \in 0..(n + 1) |->
                     IF i = n + 1 THEN Further(e, path, w, n + 1) ELSE w[i]]
  <2>2. \A i \in 0..(n + 1) : Further(e, path, v, i) = Further(e, path, w, i)
    BY DEF Further
  <2>3. \A i \in 0..n : w[i] = Further(e, path, w, i)
    BY <2>1
  <2>4. v = [i \in 0..(n + 1) |-> Further(e, path, v, i)]
    BY <2>2, <2>3
  <2>5. \E u : u = [i \in 0..(n + 1) |-> Further(e, path, u, i)]
    <3> HIDE DEF v
    <3> QED
      BY <2>4
  <2>6. n + 1 \in Nat
    OBVIOUS
  <2> QED
    BY <2>5, <2>6
<1>3. Len(path) \in S
  <2> HIDE DEF S
  <2> QED
    BY <1>1, <1>2, NatSetInduction
<1>4. \E w : w = [i \in 0..Len(path) |-> Further(e, path, w, i)]
  BY <1>3
<1>5. Walk(e, path) = CHOOSE w : w = [i \in 0..Len(path) |-> Further(e, path, w, i)]
  BY DEF Walk, Further
<1> QED
  BY <1>4, <1>5

\* A path is its prefix and the next component.
LEMMA PrefixNext ==
  ASSUME NEW Name, NEW path \in Seq(Name), NEW i \in Nat, i < Len(path)
  PROVE  /\ SubSeq(path, 1, i) \in Seq(Name)
         /\ SubSeq(path, 1, i + 1) = Append(SubSeq(path, 1, i), path[i + 1])
<1>1. Len(SubSeq(path, 1, i)) = i /\ SubSeq(path, 1, i) \in Seq(Name)
  OBVIOUS
<1>2. Len(SubSeq(path, 1, i + 1)) = i + 1 /\ SubSeq(path, 1, i + 1) \in Seq(Name)
  OBVIOUS
<1>3. path[i + 1] \in Name
  OBVIOUS
<1>4. Append(SubSeq(path, 1, i), path[i + 1]) \in Seq(Name)
  BY <1>1, <1>3
<1>5. Len(Append(SubSeq(path, 1, i), path[i + 1])) = i + 1
  BY <1>1, <1>3
<1>6. \A k \in 1..(i + 1) :
        SubSeq(path, 1, i + 1)[k] = Append(SubSeq(path, 1, i), path[i + 1])[k]
  BY <1>1, <1>2, <1>3
<1> QED
  BY <1>1, <1>2, <1>4, <1>5, <1>6

\* The empty path is the root.
LEMMA LookupRoot ==
  ASSUME NEW e
  PROVE  Lookup(e, <<>>) = Found(Root, "kDirectory")
<1>1. Len(<<>>) = 0
  OBVIOUS
<1>2. Walk(e, <<>>)[0] = Further(e, <<>>, Walk(e, <<>>), 0)
  BY <1>1, WalkEquation
<1> QED
  BY <1>1, <1>2 DEF Lookup, Further

\* A lookup succeeds or finds nothing.
LEMMA LookupStatus ==
  ASSUME NEW e, NEW path, Len(path) \in Nat
  PROVE  Lookup(e, path).status \in {"OK", "ENOENT"}
<1> DEFINE w == Walk(e, path)
           S == {i \in Nat : i <= Len(path) => w[i].status \in {"OK", "ENOENT"}}
<1>1. \A i \in 0..Len(path) : w[i] = Further(e, path, w, i)
  BY WalkEquation
<1> HIDE DEF w
<1>2. \A at, i : Step(e, at, path, i).status \in {"OK", "ENOENT"}
  BY DEF Step, Found, NotFound
<1>3. 0 \in S
  BY <1>1 DEF Further, Found
<1>4. ASSUME NEW i \in Nat, i \in S PROVE i + 1 \in S
  <2>1. SUFFICES ASSUME i + 1 <= Len(path) PROVE w[i + 1].status \in {"OK", "ENOENT"}
    OBVIOUS
  <2>2. w[i].status \in {"OK", "ENOENT"}
    BY <1>4, <2>1
  <2>3. w[i + 1] = IF w[i].status # "OK" THEN w[i] ELSE Step(e, w[i], path, i + 1)
    <3>1. i + 1 \in 0..Len(path) /\ i + 1 # 0 /\ (i + 1) - 1 = i
      BY <2>1
    <3> QED
      BY <1>1, <3>1 DEF Further
  <2> QED
    BY <1>2, <2>2, <2>3
<1>5. Len(path) \in S
  <2> HIDE DEF S
  <2> QED
    BY <1>3, <1>4, NatSetInduction
<1> QED
  BY <1>5 DEF Lookup, w

\* where[d] says where directory d of the table e of lists over E is, and every
\* list agrees
Located(e, E, where) ==
  /\ Root \in DOMAIN e /\ where[Root] = <<>>
  /\ \A d \in DOMAIN e : e[d] \in Seq(E)
  /\ \A v \in E : v.type \in {"kFile", "kDirectory"}
  /\ \A d \in DOMAIN e : \A k \in 1..Len(e[d]) : e[d][k].type = "kDirectory" =>
       e[d][k].inode \in DOMAIN e /\ where[e[d][k].inode] = Append(where[d], e[d][k].name)

\* a lookup of the path that ends in a directory ends in one of the table, and at
\* the path that was asked for
LookupLocates(e, path, where) ==
  LET found == Lookup(e, path) IN
  found.status = "OK" /\ found.type = "kDirectory" =>
    found.inode \in DOMAIN e /\ where[found.inode] = path

\* Where lookup can lead.  If where[d] says where directory d is, and every list
\* agrees, then a lookup that ends in a directory ends in one of the table, and
\* at the path that was asked for.
LEMMA LookupReaches ==
  ASSUME NEW e, NEW E, NEW Name, NEW path \in Seq(Name), NEW where,
         Located(e, E, where)
  PROVE  LookupLocates(e, path, where)
<1> SUFFICES ASSUME Lookup(e, path).status = "OK", Lookup(e, path).type = "kDirectory"
             PROVE  Lookup(e, path).inode \in DOMAIN e /\ where[Lookup(e, path).inode] = path
  BY DEF LookupLocates
<1> USE DEF Located
<1> DEFINE N == Len(path)
           w == Walk(e, path)
           Reached(i) == w[i].status = "OK" =>
                           /\ i < N => w[i].type = "kDirectory"
                           /\ w[i].type = "kDirectory" =>
                                /\ w[i].inode \in DOMAIN e
                                /\ where[w[i].inode] = SubSeq(path, 1, i)
           S == {i \in Nat : i <= N => Reached(i)}
<1>0. N \in Nat
  OBVIOUS
<1>1. \A i \in 0..N : w[i] = Further(e, path, w, i)
  BY <1>0, WalkEquation
<1>2. 0 \in S
  <2>1. w[0] = Found(Root, "kDirectory")
    BY <1>0, <1>1 DEF Further
  <2>2. SubSeq(path, 1, 0) = <<>>
    OBVIOUS
  <2>3. w[0].type = "kDirectory" /\ w[0].inode = Root
    BY <2>1 DEF Found
  <2>4. Reached(0)
    <3> HIDE DEF w
    <3> QED
      BY <2>2, <2>3, Zenon
  <2> QED
    BY <2>4
<1>3. ASSUME NEW i \in Nat, i \in S PROVE i + 1 \in S
  <2>1. SUFFICES ASSUME i + 1 <= N, w[i + 1].status = "OK"
                 PROVE  /\ i + 1 < N => w[i + 1].type = "kDirectory"
                        /\ w[i + 1].type = "kDirectory" =>
                             /\ w[i + 1].inode \in DOMAIN e
                             /\ where[w[i + 1].inode] = SubSeq(path, 1, i + 1)
    <3> HIDE DEF w, N
    <3> QED
      BY <1>0
  <2>2. i < N /\ i + 1 \in 0..N /\ i + 1 # 0 /\ (i + 1) - 1 = i
    BY <1>0, <2>1
  <2>3. w[i + 1] = IF w[i].status # "OK" THEN w[i]
                   ELSE Step(e, w[i], path, i + 1)
    <3> HIDE DEF w
    <3>1. w[i + 1] = Further(e, path, w, i + 1)
      BY <1>1, <2>2
    <3> QED
      BY <2>2, <3>1 DEF Further
  <2>4. w[i].status = "OK"
    <3> HIDE DEF w
    <3> QED
      BY <2>1, <2>3
  <2>5. w[i].type = "kDirectory" /\ w[i].inode \in DOMAIN e
        /\ where[w[i].inode] = SubSeq(path, 1, i)
    <3> HIDE DEF w, N
    <3> QED
      BY <1>0, <1>3, <2>2, <2>4
  <2> DEFINE list == e[w[i].inode]
  <2>6. list \in Seq(E) /\ Len(list) \in Nat
    BY <2>5
  <2>7. w[i + 1] = Step(e, w[i], path, i + 1)
    BY <2>3, <2>4
  <2>8. PICK k \in 1..Len(list) :
          /\ FirstIn(list, Len(list), path[i + 1], list[k])
          /\ w[i + 1] = IF list[k].type = "kFile" /\ i + 1 # N THEN NotFound
                        ELSE Found(list[k].inode, list[k].type)
    <3>1. NotFound.status # "OK"
      BY DEF NotFound
    <3>2. \/ Step(e, w[i], path, i + 1) = NotFound
          \/ \E k \in 1..Len(list) :
               /\ FirstIn(list, Len(list), path[i + 1], list[k])
               /\ Step(e, w[i], path, i + 1) =
                    IF list[k].type = "kFile" /\ i + 1 # N THEN NotFound
                    ELSE Found(list[k].inode, list[k].type)
      <4> DEFINE at == w[i]
                 j == i + 1
      <4>1. at.inode \in DOMAIN e /\ Len(e[at.inode]) \in Nat
        BY <2>5, <2>6
      <4>2. \/ Step(e, at, path, j) = NotFound
            \/ \E k \in 1..Len(e[at.inode]) :
                 /\ FirstIn(e[at.inode], Len(e[at.inode]), path[j], e[at.inode][k])
                 /\ Step(e, at, path, j) =
                      IF e[at.inode][k].type = "kFile" /\ j # Len(path) THEN NotFound
                      ELSE Found(e[at.inode][k].inode, e[at.inode][k].type)
        <5> HIDE DEF at, j
        <5> QED
          BY <4>1, StepIsFirst
      <4> QED
        BY <4>2, Zenon
    <3> HIDE DEF w, N, list
    <3>3. Step(e, w[i], path, i + 1) # NotFound
      BY <2>1, <2>7, <3>1
    <3> QED
      BY <2>7, <3>2, <3>3
  <2>9. list[k].name = path[i + 1]
    BY <2>8, Zenon DEF FirstIn
  <2>10. list[k].type \in {"kFile", "kDirectory"}
    <3> HIDE DEF list
    <3> QED
      BY <2>6
  <2>11. w[i + 1] = Found(list[k].inode, list[k].type) /\ (i + 1 < N => list[k].type # "kFile")
    <3>1. NotFound.status # "OK"
      BY DEF NotFound
    <3> HIDE DEF w, N, list
    <3> QED
      BY <1>0, <2>1, <2>8, <3>1
  <2>12. w[i + 1].type = list[k].type /\ w[i + 1].inode = list[k].inode
    BY <2>11 DEF Found
  <2>13. ASSUME list[k].type = "kDirectory"
         PROVE  /\ list[k].inode \in DOMAIN e
                /\ where[list[k].inode] = SubSeq(path, 1, i + 1)
    <3>1. /\ list[k].inode \in DOMAIN e
          /\ where[list[k].inode] = Append(where[w[i].inode], list[k].name)
      BY <2>5, <2>13, Zenon
    <3>2. SubSeq(path, 1, i + 1) = Append(SubSeq(path, 1, i), path[i + 1])
      BY <2>2, PrefixNext, Zenon
    <3> QED
      BY <2>5, <2>9, <3>1, <3>2, Zenon
  <2> HIDE DEF w, N, list
  <2> QED
    BY <2>10, <2>11, <2>12, <2>13
<1>4. N \in S
  <2> HIDE DEF S, N
  <2> QED
    BY <1>0, <1>2, <1>3, NatSetInduction
<1>5. Reached(N)
  BY <1>0, <1>4
<1>6. SubSeq(path, 1, N) = path
  OBVIOUS
<1> QED
  BY <1>5, <1>6 DEF Lookup

-----------------------------------------------------------------------------
(* Creation and removal of entries *)

\* An entry at the end of a list is found only where the list had none.
LEMMA FirstInAppend ==
  ASSUME NEW E, NEW list \in Seq(E), NEW a \in E, NEW x
  PROVE  LET more == Append(list, a) IN
         /\ \A v : FirstIn(list, Len(list), x, v) => FirstIn(more, Len(more), x, v)
         /\ NoneIn(list, Len(list), x) /\ a.name # x => NoneIn(more, Len(more), x)
         /\ NoneIn(list, Len(list), x) /\ a.name = x => FirstIn(more, Len(more), x, a)
<1> DEFINE more == Append(list, a)
           N == Len(list)
<1>1. N \in Nat /\ Len(more) = N + 1 /\ more[N + 1] = a /\ \A i \in 1..N : more[i] = list[i]
  OBVIOUS
<1> HIDE DEF more, N
<1>2. ASSUME NEW v, FirstIn(list, N, x, v) PROVE FirstIn(more, N + 1, x, v)
  <2>1. PICK i \in 1..N : list[i] = v /\ v.name = x /\ \A j \in 1..N : list[j].name = x => i <= j
    BY <1>2 DEF FirstIn
  <2>2. i \in 1..(N + 1) /\ \A j \in 1..(N + 1) : more[j].name = x => i <= j
    BY <1>1, <2>1
  <2> QED
    BY <1>1, <2>1, <2>2 DEF FirstIn
<1>3. ASSUME NoneIn(list, N, x), a.name # x PROVE NoneIn(more, N + 1, x)
  <2>1. ASSUME NEW j \in 1..(N + 1) PROVE more[j].name # x
    <3>1. CASE j = N + 1
      BY <1>1, <1>3, <3>1
    <3>2. CASE j \in 1..N
      BY <1>1, <1>3, <3>2 DEF NoneIn
    <3> QED
      BY <1>1, <3>1, <3>2
  <2> QED
    BY <2>1 DEF NoneIn
<1>4. ASSUME NoneIn(list, N, x), a.name = x PROVE FirstIn(more, N + 1, x, a)
  <2>1. \A j \in 1..(N + 1) : more[j].name = x => N + 1 <= j
    BY <1>1, <1>4 DEF NoneIn
  <2> QED
    BY <1>1, <1>4, <2>1 DEF FirstIn
<1> QED
  BY <1>1, <1>2, <1>3, <1>4 DEF more, N

\* One entry more of a list: the first of a name stays, or is the new one.
LEMMA FirstInNext ==
  ASSUME NEW list, NEW n \in Nat, NEW x, NEW v, FirstIn(list, n + 1, x, v)
  PROVE  \/ FirstIn(list, n, x, v)
         \/ NoneIn(list, n, x) /\ v = list[n + 1] /\ v.name = x
<1>1. PICK i \in 1..(n + 1) : /\ list[i] = v /\ v.name = x
                              /\ \A j \in 1..(n + 1) : list[j].name = x => i <= j
  BY DEF FirstIn
<1>2. CASE i = n + 1
  BY <1>1, <1>2 DEF NoneIn
<1>3. CASE i \in 1..n
  BY <1>1, <1>3 DEF FirstIn
<1> QED
  BY <1>2, <1>3

\* what is left of the first n entries, from what was left before
KeptNext(list, name, k, n) ==
  IF n = 0 THEN <<>>
  ELSE IF list[n].name = name THEN k[n - 1] ELSE Append(k[n - 1], list[n])

\* The recursive function of Without exists and satisfies its equation.
LEMMA KeptEquation ==
  ASSUME NEW list, NEW name, Len(list) \in Nat
  PROVE  Kept(list, name) = [n \in 0..Len(list) |-> KeptNext(list, name, Kept(list, name), n)]
<1> DEFINE S == {n \in Nat : \E k : k = [i \in 0..n |-> KeptNext(list, name, k, i)]}
<1>1. 0 \in S
  <2> DEFINE k == [i \in 0..0 |-> <<>>]
  <2>1. k = [i \in 0..0 |-> KeptNext(list, name, k, i)]
    BY DEF KeptNext
  <2> QED
    BY <2>1
<1>2. ASSUME NEW n \in Nat, n \in S PROVE n + 1 \in S
  <2>1. PICK k : k = [i \in 0..n |-> KeptNext(list, name, k, i)]
    BY <1>2
  <2> DEFINE m == [i \in 0..(n + 1) |->
                     IF i = n + 1 THEN KeptNext(list, name, k, n + 1) ELSE k[i]]
  <2>2. \A i \in 0..(n + 1) : KeptNext(list, name, m, i) = KeptNext(list, name, k, i)
    BY DEF KeptNext
  <2>3. \A i \in 0..n : k[i] = KeptNext(list, name, k, i)
    BY <2>1
  <2>4. m = [i \in 0..(n + 1) |-> KeptNext(list, name, m, i)]
    BY <2>2, <2>3
  <2>5. \E j : j = [i \in 0..(n + 1) |-> KeptNext(list, name, j, i)]
    <3> HIDE DEF m
    <3> QED
      BY <2>4
  <2>6. n + 1 \in Nat
    OBVIOUS
  <2> QED
    BY <2>5, <2>6
<1>3. Len(list) \in S
  <2> HIDE DEF S
  <2> QED
    BY <1>1, <1>2, NatSetInduction
<1>4. \E k : k = [i \in 0..Len(list) |-> KeptNext(list, name, k, i)]
  BY <1>3
<1>5. Kept(list, name) = CHOOSE k : k = [i \in 0..Len(list) |-> KeptNext(list, name, k, i)]
  BY DEF Kept, KeptNext
<1> QED
  BY <1>4, <1>5

\* Namespace::remove takes the entries of one name and keeps, for every other
\* name, the first entry or its absence.
LEMMA WithoutKeeps ==
  ASSUME NEW E, NEW list \in Seq(E), NEW name
  PROVE  LET left == Without(list, name) IN
         /\ left \in Seq(E)
         /\ NoneIn(left, Len(left), name)
         /\ \A x, v : x # name /\ FirstIn(list, Len(list), x, v) => FirstIn(left, Len(left), x, v)
         /\ \A x : x # name /\ NoneIn(list, Len(list), x) => NoneIn(left, Len(left), x)
<1> DEFINE N == Len(list)
           k == Kept(list, name)
           Good(n) == /\ k[n] \in Seq(E)
                      /\ NoneIn(k[n], Len(k[n]), name)
                      /\ \A x, v : x # name /\ FirstIn(list, n, x, v) => FirstIn(k[n], Len(k[n]), x, v)
                      /\ \A x : x # name /\ NoneIn(list, n, x) => NoneIn(k[n], Len(k[n]), x)
           S == {n \in Nat : n <= N => Good(n)}
<1>0. N \in Nat
  OBVIOUS
<1>1. \A n \in 0..N : k[n] = KeptNext(list, name, k, n)
  BY <1>0, KeptEquation
<1> HIDE DEF k
<1>2. 0 \in S
  <2>1. k[0] = <<>>
    BY <1>0, <1>1 DEF KeptNext
  <2>2. k[0] \in Seq(E) /\ Len(k[0]) = 0
    BY <2>1
  <2>3. Good(0)
    BY <2>2 DEF NoneIn, FirstIn
  <2> QED
    BY <2>3
<1>3. ASSUME NEW n \in Nat, n \in S PROVE n + 1 \in S
  <2>1. SUFFICES ASSUME n + 1 <= N PROVE Good(n + 1)
    OBVIOUS
  <2>2. Good(n)
    BY <1>0, <1>3, <2>1
  <2> DEFINE a == list[n + 1]
  <2>3. a \in E /\ n + 1 \in 0..N /\ n + 1 # 0 /\ (n + 1) - 1 = n
    BY <2>1
  <2>4. k[n + 1] = IF a.name = name THEN k[n] ELSE Append(k[n], a)
    <3>1. k[n + 1] = KeptNext(list, name, k, n + 1)
      BY <1>1, <2>3
    <3> QED
      BY <2>3, <3>1 DEF KeptNext
  <2>5. /\ \A x, v : FirstIn(list, n + 1, x, v) =>
             FirstIn(list, n, x, v) \/ (NoneIn(list, n, x) /\ v = a /\ a.name = x)
        /\ \A x : NoneIn(list, n + 1, x) => NoneIn(list, n, x) /\ a.name # x
    <3>1. \A x : NoneIn(list, n + 1, x) => NoneIn(list, n, x) /\ a.name # x
      BY DEF NoneIn
    <3> QED
      BY <3>1, FirstInNext
  <2>6. CASE a.name = name
    BY <2>2, <2>4, <2>5, <2>6
  <2>7. CASE a.name # name
    <3> DEFINE m == Append(k[n], a)
    <3>1. k[n + 1] = m
      BY <2>4, <2>7
    <3>2. k[n] \in Seq(E) /\ m \in Seq(E)
      BY <2>2, <2>3
    <3>3. \A x : /\ \A v : FirstIn(k[n], Len(k[n]), x, v) => FirstIn(m, Len(m), x, v)
                 /\ NoneIn(k[n], Len(k[n]), x) /\ a.name # x => NoneIn(m, Len(m), x)
                 /\ NoneIn(k[n], Len(k[n]), x) /\ a.name = x => FirstIn(m, Len(m), x, a)
      <4> HIDE DEF a
      <4> QED
        BY <2>3, <3>2, FirstInAppend
    <3>4. NoneIn(m, Len(m), name)
      <4> HIDE DEF a, m
      <4> QED
        BY <2>2, <2>7, <3>3
    <3>5. ASSUME NEW x, NEW v, x # name, FirstIn(list, n + 1, x, v)
          PROVE  FirstIn(m, Len(m), x, v)
      <4> HIDE DEF a, m
      <4> QED
        BY <2>2, <2>5, <3>3, <3>5
    <3>6. ASSUME NEW x, x # name, NoneIn(list, n + 1, x)
          PROVE  NoneIn(m, Len(m), x)
      <4> HIDE DEF a, m
      <4> QED
        BY <2>2, <2>5, <3>3, <3>6
    <3> HIDE DEF a, m
    <3> QED
      BY <3>1, <3>2, <3>4, <3>5, <3>6
  <2> QED
    BY <2>6, <2>7
<1>4. N \in S
  <2> HIDE DEF S, N
  <2> QED
    BY <1>0, <1>2, <1>3, NatSetInduction
<1>5. Good(N)
  BY <1>0, <1>4
<1> QED
  BY <1>5 DEF Without, k
=============================================================================
