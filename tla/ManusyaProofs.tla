---------------------------- MODULE ManusyaProofs ----------------------------
(***************************************************************************)
(* Proofs about Manusya and SadChunks.  The invariant of Manusya says of a *)
(* chunk that the object, its file and the history of the calls on it      *)
(* agree, and of a call what it may rely on between its steps.  The        *)
(* commands of sad only make steps of the chunk server, and what they      *)
(* print is true of it.                                                    *)
(***************************************************************************)
EXTENDS SadChunks, TLAPS

States == {"none", "kOpen", "kSealed"}

CallOK(c) ==
  LET r == call[c] IN
  /\ r = [at |-> r.at, op |-> r.op, uuid |-> r.uuid, offset |-> r.offset, size |-> r.size,
          got |-> r.got, status |-> r.status]
  /\ r.at \in {"new", "got", "done", "answered", "failed", "lost"} /\ r.op \in Ops
  /\ r.uuid \in Uuids \cup {-1} /\ r.offset \in Int /\ r.size \in Nat

Shape ==
  /\ kind \in {"memory", "local"} /\ up \in BOOLEAN /\ crashes \in Nat
  /\ files \subseteq Uuids /\ bank \subseteq Uuids /\ removed \subseteq Uuids
  /\ data \in [Uuids -> Seq(Calls \cup {Torn})]
  /\ csize \in [Uuids -> Nat] /\ cstate \in [Uuids -> States] /\ told \in [Uuids -> Int]
  /\ call = [c \in Calls |-> call[c]]
  /\ \A c \in Calls : CallOK(c)

\* the memory store has dropped the bytes under a chunk that is still in use
Erased(u) == kind = "memory" /\ u \in removed

NoTorn(u) == \A i \in DOMAIN data[u] : data[u][i] # Torn

\* what the file holds was put there by appends at their places
InPlace(u) ==
  \A i \in DOMAIN data[u] :
    LET w == data[u][i] IN
    IF w = Torn THEN i = Len(data[u])
    ELSE call[w].op = "append" /\ call[w].uuid = u /\ call[w].offset = i - 1

ChunkInv(u) ==
  /\ u \notin Known => /\ u \notin files /\ u \notin bank /\ u \notin removed
                       /\ data[u] = <<>> /\ cstate[u] = "none" /\ told[u] = -1
  /\ u \in bank => u \notin removed /\ cstate[u] # "none"
  /\ cstate[u] # "none" => u \in files \cup removed
  /\ cstate[u] # "none" => up
  /\ cstate[u] # "none" /\ ~Erased(u) => Len(data[u]) = csize[u] /\ NoTorn(u)
  /\ ~Erased(u) => InPlace(u)
  /\ told[u] # -1 => /\ cstate[u] # "kOpen"
                     /\ ~Gone(u) => Len(data[u]) = told[u]

ReadOK(c) ==
  LET r == call[c] IN
  /\ r.offset \in Nat
  /\ r.offset + r.size < Modulus => DOMAIN r.got = 1..r.size
  /\ \A k \in DOMAIN r.got : /\ k \in 1..r.size /\ r.offset + k <= Len(data[r.uuid])
                             /\ r.got[k] = data[r.uuid][r.offset + k]

AppendOK(c) ==
  LET a == call[c] IN
  /\ a.uuid \in files
  /\ a.offset < Len(data[a.uuid])
  /\ data[a.uuid][a.offset + 1] = c

CallInv(c) ==
  LET r == call[c] IN
  /\ r.uuid # -1 => r.uuid \in Known
  /\ r.at = "new" => r.op = "none" /\ r.uuid = -1 /\ r.status = "none"
  /\ r.at # "new" => r.op # "none"
  /\ r.at \in {"got", "done"} => up
  /\ r.at = "got" => /\ r.op \in {"append", "read", "seal", "remove", "query"}
                     /\ r.uuid \in Uuids /\ cstate[r.uuid] # "none" /\ r.status # "OK"
                     /\ r.op = "remove" => r.uuid \in removed
  /\ r.at = "done" => r.op = "append" /\ r.status = "OK"
  /\ r.op \in {"append", "read"} => r.uuid \in Uuids
  /\ r.op = "append" => r.offset \in Nat
  /\ r.op = "append" /\ r.status = "OK" =>
       r.uuid \in removed \/ Gone(r.uuid) \/ AppendOK(c)
  /\ r.op = "read" /\ r.status = "OK" => Gone(r.uuid) \/ ReadOK(c)

ManusyaInv ==
  /\ Shape
  /\ \A u \in Uuids : ChunkInv(u)
  /\ \A c \in Calls : CallInv(c)

-----------------------------------------------------------------------------
\* A server that has just started has no chunk and no call.
LEMMA ManusyaInvInit == Init => ManusyaInv
<1> SUFFICES ASSUME Init PROVE ManusyaInv
  OBVIOUS
<1>1. Shape
  <2>1. ASSUME NEW c \in Calls PROVE CallOK(c)
    <3>1. call[c] = NewCall
      BY DEF Init
    <3>2. QED
      BY <3>1 DEF CallOK, NewCall, Ops
  <2>2. data \in [Uuids -> Seq(Calls \cup {Torn})]
    <3>1. <<>> \in Seq(Calls \cup {Torn})
      OBVIOUS
    <3>2. QED
      BY <3>1 DEF Init
  <2>3. call = [c \in Calls |-> call[c]]
    BY DEF Init
  <2>4. csize \in [Uuids -> Nat] /\ cstate \in [Uuids -> States] /\ told \in [Uuids -> Int]
    BY DEF Init, States
  <2>5. QED
    BY <2>1, <2>2, <2>3, <2>4, KindsAreKnown DEF Init, Shape
<1>2. Known = {}
  BY DEF Init, NewCall, Known
<1>3. ASSUME NEW u \in Uuids PROVE ChunkInv(u)
  BY <1>2 DEF Init, ChunkInv, InPlace
<1>4. ASSUME NEW c \in Calls PROVE CallInv(c)
  BY DEF Init, CallInv, NewCall
<1>5. QED
  BY <1>1, <1>3, <1>4 DEF ManusyaInv

\* what a step of the handler of c that leaves chunks and store alone must do
OnlyCall(c) ==
  /\ UNCHANGED <<kind, store, bank, chunks, up, crashes, told, removed>>
  /\ call' = [d \in Calls |-> call'[d]]
  /\ \A d \in Calls \ {c} : call'[d] = call[d]
  /\ CallOK(c)' /\ CallInv(c)'
  /\ call[c].op # "none" => /\ call'[c].op = call[c].op /\ call'[c].uuid = call[c].uuid
                            /\ call[c].op = "append" => call'[c].offset = call[c].offset

\* Such a step keeps the invariant.
LEMMA OnlyCallKeeps ==
  ASSUME ManusyaInv, NEW c \in Calls, OnlyCall(c) PROVE ManusyaInv'
<1> USE DEF ManusyaInv, OnlyCall, store, chunks
<1>1. Shape'
  BY ZenonT(30) DEF Shape, CallOK
<1>2. \A u \in Known : u \in Known'
  BY DEF Known
<1>3. ASSUME NEW u \in Uuids PROVE ChunkInv(u)'
  <2>1. ChunkInv(u)
    OBVIOUS
  <2>2. InPlace(u) => InPlace(u)'
    <3> SUFFICES ASSUME InPlace(u), NEW i \in DOMAIN data[u], data[u][i] # Torn
                 PROVE  LET w == data[u][i] IN
                        call'[w].op = "append" /\ call'[w].uuid = u /\ call'[w].offset = i - 1
      BY DEF InPlace
    <3>1. data[u][i] \in Calls
      BY DEF Shape
    <3>2. QED
      BY <3>1 DEF InPlace
  <2>3. QED
    BY <1>2, <2>1, <2>2 DEF ChunkInv, NoTorn, Erased, Gone
<1>4. ASSUME NEW d \in Calls, d # c PROVE CallInv(d)'
  <2>1. CallInv(d) /\ call'[d] = call[d]
    BY <1>4
  <2>2. AppendOK(d)' = AppendOK(d)
    BY <2>1 DEF AppendOK
  <2>3. ReadOK(d)' = ReadOK(d)
    BY <2>1 DEF ReadOK
  <2>4. \A u : Gone(u)' = Gone(u)
    BY DEF Gone
  <2>5. QED
    BY <1>2, <2>1, <2>2, <2>3, <2>4 DEF CallInv
<1>5. QED
  BY <1>1, <1>3, <1>4

-----------------------------------------------------------------------------
(* The steps of a handler that leave chunks and store alone *)

\* A call that begins or goes on without touching a chunk keeps the invariant.
LEMMA QuietStepsKeep ==
  ASSUME ManusyaInv, NEW c \in Calls,
         \/ CreateFails(c) \/ AppendRefused(c) \/ Respond(c) \/ QueryAndSealFails(c)
         \/ QuerySize(c) \/ QueryState(c)
         \/ \E u \in Uuids : RemoveMissing(c, u)
         \/ \E u \in Uuids : \E limit \in 0..Cardinality(Uuids) : ListChunk(c, u, limit)
         \/ \E u \in Uuids : \E op \in {"read", "seal", "query"} : GetChunk(c, op, u, -1)
         \/ \E u \in Uuids : \E offset \in Offsets : GetChunk(c, "append", u, offset)
  PROVE  ManusyaInv'
<1> USE DEF ManusyaInv
<1>0. CallOK(c) /\ CallInv(c) /\ call = [d \in Calls |-> call[d]]
  BY DEF Shape
<1>k. ASSUME \A e \in Calls \ {c} : call'[e] = call[e],
             call[c].op # "none" => call'[c].op = call[c].op /\ call'[c].uuid = call[c].uuid
      PROVE  Known \subseteq Known'
  BY <1>k DEF Known
<1> SUFFICES OnlyCall(c)
  BY OnlyCallKeeps
<1> USE <1>0 DEF CallOK, Ops
<1>1. CASE CreateFails(c)
  <2>1. Known \subseteq Known'
    BY <1>1, <1>k DEF CreateFails, CallInv
  <2>2. QED
    BY <1>1, <2>1, Zenon DEF CreateFails, OnlyCall, CallInv, store, chunks
<1>2. CASE AppendRefused(c)
  <2>1. Known \subseteq Known'
    BY <1>2, <1>k DEF AppendRefused, Using, Finish, CallInv
  <2>2. QED
    BY <1>2, <2>1 DEF AppendRefused, Using, Finish, OnlyCall, CallInv, store, chunks
<1>3. CASE Respond(c)
  <2>1. Known \subseteq Known'
    BY <1>3, <1>k DEF Respond, Finish, AppendOK, Gone, CallInv
  <2>2. QED
    BY <1>3, <2>1 DEF Respond, Finish, AppendOK, Gone, OnlyCall, CallInv, store, chunks
<1>4. CASE QueryAndSealFails(c)
  <2>1. Known \subseteq Known'
    BY <1>4, <1>k DEF QueryAndSealFails, Using, Finish, CallInv
  <2>2. QED
    BY <1>4, <2>1 DEF QueryAndSealFails, Using, Finish, OnlyCall, CallInv, store, chunks
<1>5. CASE QuerySize(c)
  <2>1. Known \subseteq Known'
    BY <1>5, <1>k DEF QuerySize, Using, CallInv
  <2>2. QED
    BY <1>5, <2>1 DEF QuerySize, Using, OnlyCall, CallInv, store, chunks
<1>6. CASE QueryState(c)
  <2>1. Known \subseteq Known'
    BY <1>6, <1>k DEF QueryState, Using, CallInv
  <2>2. /\ call' = [d \in Calls |-> call'[d]] /\ \A d \in Calls \ {c} : call'[d] = call[d]
        /\ call'[c] = [call[c] EXCEPT !.at = "answered", !.status = "OK",
                                      !.got = Append(@, cstate[call[c].uuid])]
    BY <1>6, Zenon DEF QueryState
  <2>3. CallOK(c)'
    BY <2>2, Zenon
  <2>4. /\ call'[c].at = "answered" /\ call'[c].op = call[c].op /\ call'[c].uuid = call[c].uuid
        /\ call[c].op = "query"
    BY <1>6, <2>2 DEF QueryState, Using
  <2>5. CallInv(c)'
    BY <2>1, <2>4 DEF CallInv
  <2>6. QED
    BY <1>6, <2>2, <2>3, <2>4, <2>5 DEF QueryState, OnlyCall, store, chunks
<1>7. ASSUME NEW u \in Uuids, RemoveMissing(c, u) PROVE OnlyCall(c)
  <2>1. Known \subseteq Known'
    BY <1>7, <1>k, ZenonT(30) DEF RemoveMissing, CallInv
  <2>2. /\ call' = [d \in Calls |-> call'[d]] /\ \A d \in Calls \ {c} : call'[d] = call[d]
        /\ CallOK(c)'
    BY <1>7, ZenonT(30) DEF RemoveMissing
  <2>3. /\ call'[c].at = "answered" /\ call'[c].op = "remove" /\ call'[c].uuid = u
        /\ u \in Known /\ call[c].op = "none"
    BY <1>7, Zenon DEF RemoveMissing, CallInv
  <2>4. CallInv(c)'
    BY <2>1, <2>3 DEF CallInv
  <2>5. QED
    BY <1>7, <2>2, <2>3, <2>4, ZenonT(30) DEF RemoveMissing, OnlyCall, store, chunks
<1>8. ASSUME NEW u \in Uuids, NEW limit \in 0..Cardinality(Uuids), ListChunk(c, u, limit)
      PROVE  OnlyCall(c)
  <2>1. Known \subseteq Known'
    BY <1>8, <1>k, ZenonT(30) DEF ListChunk, NewCall, CallInv
  <2> DEFINE after == {v \in bank : v >= u}
             got == <<{v \in after : Cardinality({w \in after : w < v}) < limit}>>
  <2> HIDE DEF got
  <2>2. /\ call' = [d \in Calls |-> call'[d]] /\ \A d \in Calls \ {c} : call'[d] = call[d]
        /\ call'[c] = [at |-> "answered", op |-> "list", uuid |-> -1, offset |-> -1,
                       size |-> 0, got |-> got, status |-> "OK"]
    BY <1>8, Zenon DEF ListChunk, NewCall, got
  <2>3. CallOK(c)'
    BY <2>2
  <2>4. call'[c].at = "answered" /\ call'[c].op = "list" /\ call'[c].uuid = -1
        /\ call[c].op = "none"
    BY <1>8, <2>2, ZenonT(30) DEF ListChunk, CallInv
  <2>5. CallInv(c)'
    BY <2>4 DEF CallInv
  <2>6. QED
    BY <1>8, <2>2, <2>3, <2>4, <2>5, ZenonT(30) DEF ListChunk, OnlyCall, store, chunks
<1>9. ASSUME NEW u \in Uuids, NEW offset \in Offsets \cup {-1},
             NEW op \in {"append", "read", "seal", "query"}, op = "append" => offset \in Offsets,
             GetChunk(c, op, u, offset)
      PROVE  OnlyCall(c)
  <2>1. Known \subseteq Known'
    BY <1>9, <1>k, Zenon DEF GetChunk, NewCall, CallInv
  <2>2. u \in bank => up /\ cstate[u] # "none"
    BY DEF ChunkInv
  <2>3. /\ call' = [d \in Calls |-> call'[d]] /\ \A d \in Calls \ {c} : call'[d] = call[d]
    BY <1>9, ZenonT(30) DEF GetChunk
  <2>4. PICK at \in {"got", "failed", "answered"}, status \in {"none", "ENOENT"} :
          /\ call'[c] = [at |-> at, op |-> op, uuid |-> u, offset |-> offset,
                         size |-> 0, got |-> <<>>, status |-> status]
          /\ at = "got" => u \in bank
    BY <1>9, ZenonT(30) DEF GetChunk, NewCall
  <2>5. CallOK(c)'
    BY <2>4, OffsetsAreNat
  <2>6. call[c].op = "none" /\ u \in Known
    BY <1>9, ZenonT(30) DEF GetChunk, CallInv
  <2>7. UNCHANGED <<kind, store, bank, chunks, up, crashes, told, removed>>
    BY <1>9, Zenon DEF GetChunk, store, chunks
  <2>8. CallInv(c)'
    BY <1>9, <2>1, <2>2, <2>4, <2>6, <2>7, OffsetsAreNat DEF CallInv, chunks
  <2>9. QED
    BY <2>3, <2>5, <2>6, <2>7, <2>8 DEF OnlyCall
<1>10. QED
  BY <1>1, <1>2, <1>3, <1>4, <1>5, <1>6, <1>7, <1>8, <1>9

\* The end of a range that does not wrap round is compared as it is.
LEMMA NoWrap ==
  ASSUME NEW n \in Nat, n < Modulus PROVE n % Modulus = n
  BY ModulusIsPositive

\* A read keeps the invariant: what it returns is what the file has there.
LEMMA ReadKeeps ==
  ASSUME ManusyaInv, NEW c \in Calls, NEW r \in Ranges, Read(c, r.offset, r.size)
  PROVE  ManusyaInv'
<1> DEFINE u == call[c].uuid
           range == {k \in 1..r.size : r.offset + k <= Len(data[u])}
           bytes == [i \in range |-> data[u][r.offset + i]]
<1>0. CallOK(c) /\ CallInv(c) /\ call = [d \in Calls |-> call[d]]
  BY DEF ManusyaInv, Shape
<1>1. r.offset \in Nat /\ r.size \in Nat
  BY RangesFit
<1>2. /\ call[c].at = "got" /\ call[c].op = "read" /\ u \in Uuids /\ cstate[u] # "none"
      /\ call[c].status # "OK"
  BY <1>0 DEF Read, Using, CallInv
<1>3. UNCHANGED <<kind, store, bank, chunks, up, crashes, told, removed>>
  BY DEF Read, store, chunks
<1>4. \/ Fail(c, "EINVAL") \/ Fail(c, "ENOENT")
      \/ /\ ~OutOfRange(u, r.offset, r.size)
         /\ call' = [call EXCEPT ![c].at = "answered", ![c].status = "OK",
                       ![c].offset = r.offset, ![c].size = r.size, ![c].got = bytes]
  BY DEF Read
<1>5. CASE Fail(c, "EINVAL") \/ Fail(c, "ENOENT")
  <2>1. Known \subseteq Known'
    <3>1. \A d \in Calls : call'[d].op = call[d].op /\ call'[d].uuid = call[d].uuid
      BY <1>0, <1>5 DEF Fail, CallOK
    <3>2. QED
      BY <3>1 DEF Known
  <2>2. OnlyCall(c)
    BY <1>0, <1>2, <1>3, <1>5, <2>1 DEF Fail, OnlyCall, CallOK, CallInv
  <2>3. QED
    BY <2>2, OnlyCallKeeps
<1>6. CASE /\ ~OutOfRange(u, r.offset, r.size)
           /\ call' = [call EXCEPT ![c].at = "answered", ![c].status = "OK",
                         ![c].offset = r.offset, ![c].size = r.size, ![c].got = bytes]
  <2> HIDE DEF bytes
  <2>1. /\ call' = [d \in Calls |-> call'[d]] /\ \A d \in Calls \ {c} : call'[d] = call[d]
        /\ call'[c] = [at |-> "answered", op |-> "read", uuid |-> u, offset |-> r.offset,
                       size |-> r.size, got |-> bytes, status |-> "OK"]
    BY <1>0, <1>2, <1>6, Zenon DEF CallOK
  <2>2. Known \subseteq Known'
    BY <1>0, <1>2, <2>1 DEF Known
  <2>3. CallOK(c)'
    BY <1>1, <1>2, <2>1 DEF CallOK, Ops
  <2>4. ASSUME ~Gone(u) PROVE ReadOK(c)'
    <3>1. Len(data[u]) = csize[u] /\ csize[u] \in Nat
      BY <1>2, <2>4 DEF ManusyaInv, ChunkInv, Erased, Gone, Shape
    <3>2. ASSUME r.offset + r.size < Modulus PROVE r.offset + r.size <= Len(data[u])
      BY <1>1, <1>6, <3>1, <3>2, NoWrap DEF OutOfRange
    <3>3. DOMAIN bytes = range /\ \A k \in range : bytes[k] = data[u][r.offset + k]
      BY DEF bytes
    <3>4. r.offset + r.size < Modulus => range = 1..r.size
      BY <1>1, <3>1, <3>2
    <3>5. data' = data
      BY <1>3 DEF store
    <3>6. QED
      BY <1>1, <2>1, <3>3, <3>4, <3>5 DEF ReadOK
  <2>5. Gone(u) => Gone(u)'
    BY <1>3, <2>1 DEF Gone
  <2>6. CallInv(c)'
    BY <1>0, <1>2, <2>1, <2>2, <2>4, <2>5 DEF CallInv
  <2>7. OnlyCall(c)
    BY <1>2, <1>3, <2>1, <2>3, <2>6 DEF OnlyCall
  <2>8. QED
    BY <2>7, OnlyCallKeeps
<1>7. QED
  BY <1>4, <1>5, <1>6

-----------------------------------------------------------------------------
(* The steps of a handler on a chunk *)

Same(v) == /\ (v \in files') = (v \in files) /\ (v \in bank') = (v \in bank)
           /\ (v \in removed') = (v \in removed) /\ data'[v] = data[v]
           /\ csize'[v] = csize[v] /\ cstate'[v] = cstate[v] /\ told'[v] = told[v]

Longer(u) == /\ Len(data[u]) <= Len(data'[u])
             /\ \A i \in 1..Len(data[u]) : data'[u][i] = data[u][i]

\* what a step of the handler of c on the chunk u must do
OneChunk(c, u) ==
  /\ UNCHANGED <<kind, up, crashes>> /\ Shape'
  /\ \A v \in Uuids \ {u} : Same(v)
  /\ \A d \in Calls \ {c} : call'[d] = call[d]
  /\ Known \subseteq Known'
  /\ u \in removed => u \in removed'
  /\ u \in files => u \in files' \/ u \in removed'
  /\ cstate[u] # "none" => cstate'[u] # "none"
  /\ ~Gone(u)' => Longer(u)
  /\ call[c].op = "append" => /\ call'[c].op = "append" /\ call'[c].uuid = call[c].uuid
                              /\ call'[c].offset = call[c].offset
  /\ ChunkInv(u)' /\ CallInv(c)'

\* Such a step keeps the invariant: other chunks are as they were, and what other
\* calls rely on stays.
LEMMA OneChunkKeeps ==
  ASSUME ManusyaInv, NEW c \in Calls, NEW u \in Uuids, OneChunk(c, u) PROVE ManusyaInv'
<1> USE DEF ManusyaInv, OneChunk
<1>1. ASSUME NEW v \in Uuids, v # u PROVE ChunkInv(v)'
  <2>1. ChunkInv(v) /\ Same(v)
    BY <1>1
  <2>2. InPlace(v) => InPlace(v)'
    <3> SUFFICES ASSUME InPlace(v), NEW i \in DOMAIN data[v], data[v][i] # Torn
                 PROVE  LET w == data[v][i] IN
                        call'[w].op = "append" /\ call'[w].uuid = v /\ call'[w].offset = i - 1
      BY <2>1 DEF InPlace, Same
    <3>1. data[v][i] \in Calls
      BY DEF Shape
    <3>2. QED
      BY <3>1 DEF InPlace
  <2>3. (Gone(v)' = Gone(v)) /\ (Erased(v)' = Erased(v)) /\ (NoTorn(v)' = NoTorn(v))
    BY <2>1 DEF Same, Gone, Erased, NoTorn
  <2>4. QED
    BY <2>1, <2>2, <2>3 DEF ChunkInv, Same
<1>2. ASSUME NEW d \in Calls, d # c PROVE CallInv(d)'
  <2>1. CallInv(d) /\ call'[d] = call[d] /\ CallOK(d)
    BY <1>2 DEF Shape
  <2>2. ASSUME NEW v \in Uuids
        PROVE  /\ cstate[v] # "none" => cstate'[v] # "none"
               /\ v \in removed => v \in removed'
               /\ Gone(v) => Gone(v)'
               /\ v \in files => v \in removed' \/ v \in files'
               /\ Gone(v)' \/ Longer(v)
               /\ Len(data[v]) \in Nat /\ Len(data'[v]) \in Nat
    <3>1. Len(data[v]) \in Nat /\ Len(data'[v]) \in Nat
      BY DEF Shape
    <3>2. CASE v = u
      BY <3>1, <3>2 DEF Gone
    <3>3. CASE v # u
      <4>1. Same(v)
        BY <3>3
      <4>2. Longer(v)
        BY <3>1, <4>1, SMTT(30) DEF Same, Longer
      <4> QED
        BY <3>1, <4>1, <4>2 DEF Same, Gone
    <3> QED
      BY <3>2, <3>3
  <2>3. ASSUME NEW v \in Uuids, v = call[d].uuid, AppendOK(d), call[d].offset \in Nat
        PROVE  v \in removed' \/ Gone(v)' \/ AppendOK(d)'
    <3>1. SUFFICES ASSUME v \in files', Longer(v) PROVE AppendOK(d)'
      BY <2>2, <2>3 DEF AppendOK
    <3> DEFINE n == call[d].offset + 1
    <3>2. n \in 1..Len(data[v]) /\ data[v][n] = d
      BY <2>2, <2>3 DEF AppendOK
    <3>3. n <= Len(data'[v]) /\ data'[v][n] = d
      BY <2>2, <3>1, <3>2 DEF Longer
    <3>4. QED
      BY <2>1, <2>2, <2>3, <3>1, <3>3 DEF AppendOK
  <2>4. ASSUME NEW v \in Uuids, v = call[d].uuid, ReadOK(d) PROVE Gone(v)' \/ ReadOK(d)'
    <3>1. SUFFICES ASSUME Longer(v) PROVE ReadOK(d)'
      BY <2>2
    <3>2. call[d].size \in Nat /\ call[d].offset \in Nat
      BY <2>1, <2>4 DEF CallOK, ReadOK
    <3>3. ASSUME NEW k \in DOMAIN call[d].got
          PROVE  /\ k \in 1..call[d].size /\ call[d].offset + k <= Len(data'[v])
                 /\ call[d].got[k] = data'[v][call[d].offset + k]
      <4>1. /\ k \in 1..call[d].size /\ call[d].offset + k <= Len(data[v])
            /\ call[d].got[k] = data[v][call[d].offset + k]
        BY <2>4 DEF ReadOK
      <4>2. call[d].offset + k \in 1..Len(data[v])
        BY <2>2, <3>2, <4>1, SMTT(30)
      <4>3. QED
        BY <2>2, <3>1, <3>2, <4>1, <4>2, SMTT(30) DEF Longer
    <3>4. QED
      BY <2>1, <2>4, <3>2, <3>3 DEF ReadOK
  <2>5. QED
    BY <2>1, <2>2, <2>3, <2>4, ZenonT(30) DEF CallInv
<1>3. QED
  BY <1>1, <1>2

\* A chunk that is created is empty and nobody knows it yet.
LEMMA CreateKeeps ==
  ASSUME ManusyaInv, NEW c \in Calls, NEW u \in Uuids, CreateChunk(c, u) PROVE ManusyaInv'
<1>0. Shape /\ CallOK(c) /\ CallInv(c) /\ ChunkInv(u)
  BY DEF ManusyaInv, Shape
<1>1. /\ u \notin Known /\ u \notin removed /\ data[u] = <<>> /\ told[u] = -1
      /\ call[c].op = "none" /\ up
  BY <1>0 DEF CreateChunk, ChunkInv, CallInv
<1>2. /\ call' = [d \in Calls |-> call'[d]] /\ \A d \in Calls \ {c} : call'[d] = call[d]
      /\ call'[c] = [at |-> "answered", op |-> "create", uuid |-> u, offset |-> -1,
                     size |-> 0, got |-> <<u>>, status |-> "OK"]
  BY <1>0, Zenon DEF Shape, CreateChunk, NewCall
<1>3. /\ UNCHANGED <<kind, up, crashes, told, removed>>
      /\ files' = files \cup {u} /\ bank' = bank \cup {u}
      /\ data' = [data EXCEPT ![u] = <<>>] /\ csize' = [csize EXCEPT ![u] = 0]
      /\ cstate' = [cstate EXCEPT ![u] = "kOpen"]
  BY DEF CreateChunk, CreatedState
<1>4. data'[u] = <<>> /\ csize'[u] = 0 /\ cstate'[u] = "kOpen"
  BY <1>0, <1>3 DEF Shape
<1>5. Shape'
  <2>1. ASSUME NEW d \in Calls PROVE CallOK(d)'
    <3>1. CASE d = c
      BY <1>2, <3>1 DEF CallOK, Ops
    <3>2. CASE d # c
      BY <1>0, <1>2, <3>2 DEF Shape, CallOK
    <3>3. QED
      BY <3>1, <3>2
  <2>2. data' \in [Uuids -> Seq(Calls \cup {Torn})]
    BY <1>0, <1>3 DEF Shape
  <2>3. csize' \in [Uuids -> Nat] /\ cstate' \in [Uuids -> States]
    BY <1>0, <1>3 DEF Shape, States
  <2>4. QED
    BY <1>0, <1>2, <1>3, <2>1, <2>2, <2>3 DEF Shape
<1>6. \A v \in Uuids \ {u} : Same(v)
  BY <1>0, <1>3 DEF Shape, Same
<1>7. Known \subseteq Known' /\ u \in Known'
  BY <1>1, <1>2 DEF Known
<1>8. ChunkInv(u)'
  BY <1>1, <1>3, <1>4, <1>7 DEF ChunkInv, NoTorn, InPlace
<1>9. CallInv(c)'
  BY <1>2, <1>7 DEF CallInv
<1>10. Longer(u)
  BY <1>1, <1>4 DEF Longer
<1>11. OneChunk(c, u)
  BY <1>1, <1>2, <1>3, <1>4, <1>5, <1>6, <1>7, <1>8, <1>9, <1>10 DEF OneChunk
<1>12. QED
  BY <1>11, OneChunkKeeps

\* An append puts its byte at the end of the file, which is where it names.
LEMMA AppendKeeps ==
  ASSUME ManusyaInv, NEW c \in Calls, Append1(c) PROVE ManusyaInv'
<1>0. Shape /\ CallOK(c) /\ CallInv(c)
  BY DEF ManusyaInv, Shape
<1>1. PICK u \in Uuids : u = call[c].uuid
  BY <1>0 DEF Append1, Using, CallInv
<1>2. /\ ChunkInv(u) /\ cstate[u] = "kOpen" /\ up /\ call[c].op = "append"
      /\ call[c].offset = csize[u] /\ u \in Known
  BY <1>0, <1>1 DEF ManusyaInv, Append1, Using, CallInv, ChunkInv
<1>3. /\ UNCHANGED <<kind, bank, cstate, up, crashes, told, removed>>
      /\ files' = (IF kind = "memory" THEN files \cup {u} ELSE files)
      /\ data' = [data EXCEPT ![u] = Append(@, c)]
      /\ csize' = [csize EXCEPT ![u] = @ + 1]
  BY <1>1 DEF Append1, Touch
<1>4. /\ call' = [d \in Calls |-> call'[d]] /\ \A d \in Calls \ {c} : call'[d] = call[d]
      /\ call'[c] = [at |-> "done", op |-> "append", uuid |-> u, offset |-> call[c].offset,
                     size |-> call[c].size, got |-> call[c].got, status |-> "OK"]
  BY <1>0, <1>1, <1>2, Zenon DEF Shape, CallOK, Append1
<1>5. data[u] \in Seq(Calls \cup {Torn}) /\ csize[u] \in Nat
  BY <1>0 DEF Shape
<1>6. data'[u] = Append(data[u], c) /\ csize'[u] = csize[u] + 1
  BY <1>0, <1>3 DEF Shape
<1>7. /\ Len(data'[u]) = Len(data[u]) + 1 /\ Len(data[u]) \in Nat
      /\ \A i \in 1..Len(data[u]) : data'[u][i] = data[u][i]
      /\ data'[u][Len(data[u]) + 1] = c
      /\ DOMAIN data'[u] = 1..Len(data[u]) + 1 /\ DOMAIN data[u] = 1..Len(data[u])
  BY <1>5, <1>6
<1>8. Shape'
  <2>1. ASSUME NEW d \in Calls PROVE CallOK(d)'
    <3>1. CASE d = c
      BY <1>0, <1>4, <3>1 DEF CallOK, Ops
    <3>2. CASE d # c
      BY <1>0, <1>4, <3>2 DEF Shape, CallOK
    <3>3. QED
      BY <3>1, <3>2
  <2>2. data' \in [Uuids -> Seq(Calls \cup {Torn})]
    BY <1>0, <1>3, <1>5 DEF Shape
  <2>3. csize' \in [Uuids -> Nat]
    BY <1>0, <1>3, <1>5 DEF Shape
  <2>4. QED
    BY <1>0, <1>3, <1>4, <2>1, <2>2, <2>3 DEF Shape
<1>9. \A v \in Uuids \ {u} : Same(v)
  BY <1>0, <1>3 DEF Shape, Same
<1>10. Known \subseteq Known'
  BY <1>2, <1>4 DEF Known
<1>11. ~Erased(u) => Len(data[u]) = csize[u] /\ NoTorn(u) /\ InPlace(u)
  BY <1>2 DEF ChunkInv
<1>12. ~Erased(u) => NoTorn(u)'
  BY <1>7, <1>11, TornIsNoCall DEF NoTorn
<1>13. ASSUME ~Erased(u) PROVE InPlace(u)'
  <2>1. ASSUME NEW i \in 1..Len(data[u])
        PROVE  LET w == data'[u][i] IN
               call'[w].op = "append" /\ call'[w].uuid = u /\ call'[w].offset = i - 1
    <3>1. data'[u][i] = data[u][i] /\ data[u][i] \in Calls
      BY <1>5, <1>7, <1>11, <1>13 DEF NoTorn
    <3>2. data[u][i] # Torn
      BY <3>1, TornIsNoCall
    <3>3. PICK w \in Calls : w = data[u][i]
      BY <3>1
    <3>4. call[w].op = "append" /\ call[w].uuid = u /\ call[w].offset = i - 1
      BY <1>7, <1>11, <1>13, <3>2, <3>3 DEF InPlace
    <3>5. call'[w].op = "append" /\ call'[w].uuid = u /\ call'[w].offset = i - 1
      BY <1>4, <3>4
    <3>6. QED
      BY <3>1, <3>3, <3>5
  <2>2. QED
    BY <1>2, <1>4, <1>7, <1>11, <1>12, <1>13, <2>1, SMTT(30) DEF InPlace, NoTorn
<1>14. Erased(u)' = Erased(u) /\ Gone(u)' = Gone(u)
  BY <1>3 DEF Erased, Gone
<1>15. ChunkInv(u)'
  BY <1>2, <1>3, <1>6, <1>7, <1>10, <1>11, <1>12, <1>13, <1>14 DEF ChunkInv
<1>16. u \in removed \/ Gone(u) \/ AppendOK(c)'
  <2>1. SUFFICES ASSUME u \notin removed, ~Gone(u) PROVE AppendOK(c)'
    OBVIOUS
  <2>2. u \in files'
    BY <1>2, <1>3, <2>1 DEF ChunkInv
  <2>3. Len(data[u]) = csize[u]
    BY <1>11, <2>1 DEF Erased
  <2>4. QED
    BY <1>2, <1>4, <1>5, <1>7, <2>2, <2>3, SMTT(30) DEF AppendOK
<1>17. CallInv(c)'
  <2>1. /\ call'[c].at = "done" /\ call'[c].op = "append" /\ call'[c].uuid = u
        /\ call'[c].status = "OK" /\ call'[c].offset \in Nat
    BY <1>2, <1>4, <1>5
  <2>2. u \in Known' /\ up'
    BY <1>2, <1>3, <1>10
  <2>3. u \in removed' \/ Gone(u)' \/ AppendOK(c)'
    BY <1>3, <1>14, <1>16
  <2>4. QED
    BY <1>2, <2>1, <2>2, <2>3 DEF CallInv
<1>18. OneChunk(c, u)
  <2>1. Longer(u)
    BY <1>7 DEF Longer
  <2>2. /\ call'[c].op = "append" /\ call'[c].uuid = call[c].uuid
        /\ call'[c].offset = call[c].offset
    BY <1>1, <1>4
  <2>3. u \in files => u \in files'
    BY <1>3
  <2>4. QED
    BY <1>3, <1>4, <1>8, <1>9, <1>10, <1>15, <1>17, <2>1, <2>2, <2>3 DEF OneChunk
<1>19. QED
  BY <1>18, OneChunkKeeps

\* A seal stops the appends, and tells the length the file keeps.
LEMMA SealKeeps ==
  ASSUME ManusyaInv, NEW c \in Calls, QueryAndSeal(c) PROVE ManusyaInv'
<1>0. Shape /\ CallOK(c) /\ CallInv(c)
  BY DEF ManusyaInv, Shape
<1>1. PICK u \in Uuids : u = call[c].uuid
  BY <1>0 DEF QueryAndSeal, Using, CallInv
<1>2. ChunkInv(u) /\ cstate[u] # "none" /\ up /\ call[c].op = "seal"
  BY <1>0, <1>1 DEF ManusyaInv, QueryAndSeal, Using, CallInv
<1>3. /\ UNCHANGED <<kind, data, bank, csize, up, crashes, removed>>
      /\ files' = (IF kind = "memory" THEN files \cup {u} ELSE files)
      /\ cstate' = [cstate EXCEPT ![u] = "kSealed"]
      /\ told' = [told EXCEPT ![u] = Len(data[u])]
  BY <1>1 DEF QueryAndSeal, Touch
<1>4. /\ call' = [d \in Calls |-> call'[d]] /\ \A d \in Calls \ {c} : call'[d] = call[d]
      /\ call'[c] = [at |-> "answered", op |-> "seal", uuid |-> u, offset |-> call[c].offset,
                     size |-> call[c].size, got |-> <<Len(data[u])>>, status |-> "OK"]
  BY <1>0, <1>1, <1>2, Zenon DEF Shape, CallOK, QueryAndSeal
<1>5. Len(data[u]) \in Nat /\ cstate'[u] = "kSealed" /\ told'[u] = Len(data[u])
  BY <1>0, <1>3 DEF Shape
<1>6. Shape'
  <2>1. ASSUME NEW d \in Calls PROVE CallOK(d)'
    <3>1. CASE d = c
      BY <1>0, <1>4, <3>1 DEF CallOK, Ops
    <3>2. CASE d # c
      BY <1>0, <1>4, <3>2 DEF Shape, CallOK
    <3>3. QED
      BY <3>1, <3>2
  <2>2. cstate' \in [Uuids -> States] /\ told' \in [Uuids -> Int]
    BY <1>0, <1>3, <1>5 DEF Shape, States
  <2>3. QED
    BY <1>0, <1>3, <1>4, <2>1, <2>2 DEF Shape
<1>7. \A v \in Uuids \ {u} : Same(v)
  BY <1>0, <1>3 DEF Shape, Same
<1>8. Known \subseteq Known'
  BY <1>2, <1>4 DEF Known
<1>9. InPlace(u) => InPlace(u)'
  <2> SUFFICES ASSUME InPlace(u), NEW i \in DOMAIN data[u], data[u][i] # Torn
               PROVE  LET w == data[u][i] IN
                      call'[w].op = "append" /\ call'[w].uuid = u /\ call'[w].offset = i - 1
    BY <1>3 DEF InPlace
  <2>1. data[u][i] \in Calls
    BY <1>0 DEF Shape
  <2>2. QED
    BY <1>2, <1>4, <2>1 DEF InPlace
<1>10. (Erased(u)' = Erased(u)) /\ (NoTorn(u)' = NoTorn(u))
  BY <1>3 DEF Erased, NoTorn
<1>11. u \in Known
  BY <1>2 DEF ChunkInv
<1>12. ChunkInv(u)'
  BY <1>2, <1>3, <1>5, <1>8, <1>9, <1>10, <1>11 DEF ChunkInv
<1>13. CallInv(c)'
  BY <1>4, <1>8, <1>11 DEF CallInv
<1>14. Longer(u)
  BY <1>3, <1>5 DEF Longer
<1>15. OneChunk(c, u)
  BY <1>2, <1>3, <1>4, <1>5, <1>6, <1>7, <1>8, <1>12, <1>13, <1>14 DEF OneChunk
<1>16. QED
  BY <1>15, OneChunkKeeps

\* Both steps of a removal leave the bank without the chunk.
LEMMA RemoveKeeps ==
  ASSUME ManusyaInv, NEW c \in Calls, NEW u \in Uuids,
         RemoveErase(c, u) \/ (RemoveFile(c) /\ u = call[c].uuid)
  PROVE  ManusyaInv'
<1>0. Shape /\ CallOK(c) /\ CallInv(c) /\ ChunkInv(u)
  BY DEF ManusyaInv, Shape
<1>1. cstate[u] # "none" /\ u \in Known /\ up /\ call[c].op \in {"none", "remove"}
  BY <1>0 DEF RemoveErase, RemoveFile, Using, CallInv, ChunkInv
<1>2. /\ UNCHANGED <<kind, csize, cstate, up, crashes, told>>
      /\ u \in removed' /\ removed' = removed \cup {u} /\ bank' = bank \ {u}
  BY <1>0 DEF RemoveErase, RemoveFile, Using, CallInv, ChunkInv, chunks
<1>3. /\ files' \in {files, files \ {u}}
      /\ \/ data' = data \/ (kind = "memory" /\ data' = [data EXCEPT ![u] = <<>>])
  BY <1>0 DEF RemoveErase, RemoveFile, Erase, store
<1>4. PICK at \in {"got", "answered"} :
        /\ call' = [d \in Calls |-> call'[d]] /\ \A d \in Calls \ {c} : call'[d] = call[d]
        /\ call'[c] = [at |-> at, op |-> "remove", uuid |-> u, offset |-> call[c].offset,
                       size |-> call[c].size, got |-> call[c].got, status |-> call'[c].status]
        /\ at = "got" => call'[c].status = "none"
  <2>1. CASE RemoveErase(c, u)
    <3>1. call[c].status = "none"
      BY <1>0, <2>1 DEF RemoveErase, CallInv
    <3>2. QED
      BY <1>0, <2>1, <3>1, Zenon DEF Shape, CallOK, RemoveErase
  <2>2. CASE RemoveFile(c) /\ u = call[c].uuid
    BY <1>0, <2>2, Zenon DEF Shape, CallOK, RemoveFile, Using, Finish
  <2>3. QED
    BY <2>1, <2>2
<1>5. Shape'
  <2>1. ASSUME NEW d \in Calls PROVE CallOK(d)'
    <3>1. CASE d = c
      BY <1>0, <1>4, <3>1 DEF CallOK, Ops
    <3>2. CASE d # c
      BY <1>0, <1>4, <3>2 DEF Shape, CallOK
    <3>3. QED
      BY <3>1, <3>2
  <2>2. data' \in [Uuids -> Seq(Calls \cup {Torn})]
    <3>1. <<>> \in Seq(Calls \cup {Torn})
      OBVIOUS
    <3>2. QED
      BY <1>0, <1>3, <3>1, Zenon DEF Shape
  <2>3. QED
    BY <1>0, <1>2, <1>3, <1>4, <2>1, <2>2 DEF Shape
<1>6. \A v \in Uuids \ {u} : Same(v)
  BY <1>0, <1>2, <1>3 DEF Shape, Same
<1>7. Known \subseteq Known'
  BY <1>1, <1>4 DEF Known
<1>8. kind = "memory" \/ data' = data
  BY <1>3
<1>9. InPlace(u) /\ data' = data => InPlace(u)'
  <2> SUFFICES ASSUME InPlace(u), data' = data, NEW i \in DOMAIN data[u], data[u][i] # Torn
               PROVE  LET w == data[u][i] IN
                      call'[w].op = "append" /\ call'[w].uuid = u /\ call'[w].offset = i - 1
    BY DEF InPlace
  <2>1. data[u][i] \in Calls
    BY <1>0 DEF Shape
  <2>2. QED
    BY <1>1, <1>4, <2>1 DEF InPlace
<1>10. ChunkInv(u)'
  BY <1>0, <1>1, <1>2, <1>7, <1>8, <1>9 DEF ChunkInv, Erased, Gone, NoTorn
<1>11. CallInv(c)'
  BY <1>1, <1>2, <1>4, <1>7 DEF CallInv
<1>12. ~Gone(u)' => Longer(u)
  <2>1. Len(data[u]) \in Nat
    BY <1>0 DEF Shape
  <2>2. QED
    BY <1>2, <1>8, <2>1 DEF Gone, Longer
<1>13. OneChunk(c, u)
  BY <1>1, <1>2, <1>4, <1>5, <1>6, <1>7, <1>10, <1>11, <1>12 DEF OneChunk
<1>14. QED
  BY <1>13, OneChunkKeeps

-----------------------------------------------------------------------------
(* The process *)

\* what a death may leave in the files of a local store
Left(contents) ==
  /\ contents \in [Uuids -> Seq(Calls \cup {Torn})]
  /\ \A u \in Uuids :
       /\ Len(data[u]) <= Len(contents[u])
       /\ \A i \in 1..Len(data[u]) : contents[u][i] = data[u][i]
       /\ \/ contents[u] = data[u]
          \/ /\ cstate[u] = "kOpen" /\ Len(contents[u]) = Len(data[u]) + 1
             /\ contents[u][Len(data[u]) + 1] = Torn

\* The death of the process keeps the invariant: a local store keeps what it had,
\* and no chunk object is left.
LEMMA DieKeeps ==
  ASSUME ManusyaInv, NEW contents, Die(contents), kind = "local" => Left(contents)
  PROVE  ManusyaInv'
<1>0. Shape
  BY DEF ManusyaInv
<1>1. /\ UNCHANGED <<kind, told, removed>> /\ crashes' = crashes + 1 /\ crashes' > 0
      /\ bank' = {} /\ cstate' = [u \in Uuids |-> "none"] /\ csize' = [u \in Uuids |-> 0]
      /\ files' = (IF kind = "memory" THEN {} ELSE files)
  BY <1>0 DEF Die, Shape
<1>2. data' = IF kind = "memory" THEN [u \in Uuids |-> <<>>] ELSE contents
  BY DEF Die
<1>3. /\ call' = [d \in Calls |-> call'[d]]
      /\ \A d \in Calls : call'[d] = IF call[d].at \in {"got", "done"}
                                     THEN [call[d] EXCEPT !.at = "lost"] ELSE call[d]
  BY DEF Die
<1>4. ASSUME NEW d \in Calls
      PROVE  /\ CallOK(d)' /\ call'[d].at \notin {"got", "done"}
             /\ call'[d].at = "new" => call[d].at = "new"
             /\ call[d].at = "new" => call'[d].at = "new"
             /\ call'[d].op = call[d].op /\ call'[d].uuid = call[d].uuid
             /\ call'[d].offset = call[d].offset /\ call'[d].size = call[d].size
             /\ call'[d].got = call[d].got /\ call'[d].status = call[d].status
  <2>1. CallOK(d)
    BY <1>0 DEF Shape
  <2>2. QED
    BY <1>3, <2>1 DEF CallOK
<1>5. Known' = Known
  BY <1>4 DEF Known
<1>6. data' \in [Uuids -> Seq(Calls \cup {Torn})]
  <2>1. <<>> \in Seq(Calls \cup {Torn})
    OBVIOUS
  <2>2. QED
    BY <1>0, <1>2, <2>1 DEF Left, Shape
<1>7. Shape'
  <2>1. csize' \in [Uuids -> Nat] /\ cstate' \in [Uuids -> States] /\ files' \subseteq Uuids
    BY <1>0, <1>1 DEF States, Shape
  <2>2. kind' \in {"memory", "local"} /\ up' \in BOOLEAN
    BY <1>0, <1>1, Zenon DEF Shape, Die
  <2>3. crashes' \in Nat /\ bank' \subseteq Uuids /\ removed' \subseteq Uuids
    BY <1>0, <1>1 DEF Shape
  <2>4. told' \in [Uuids -> Int]
    BY <1>0, <1>1 DEF Shape
  <2>5. QED
    BY <1>3, <1>4, <1>6, <2>1, <2>2, <2>3, <2>4 DEF Shape
<1>8. ASSUME NEW u \in Uuids PROVE ChunkInv(u)'
  <2>0. ChunkInv(u) /\ cstate'[u] = "none"
    BY <1>1 DEF ManusyaInv
  <2>1. CASE kind = "memory"
    <3>1. data'[u] = <<>> /\ files' = {}
      BY <1>1, <1>2, <2>1
    <3>2. InPlace(u)' /\ Gone(u)'
      BY <1>1, <2>1, <3>1 DEF InPlace, Gone
    <3>3. QED
      BY <1>1, <1>5, <2>0, <3>1, <3>2 DEF ChunkInv
  <2>2. CASE kind = "local"
    <3>1. /\ Len(data[u]) \in Nat /\ DOMAIN data[u] = 1..Len(data[u])
          /\ Len(data'[u]) \in Nat /\ DOMAIN data'[u] = 1..Len(data'[u])
      BY <1>0, <1>6 DEF Shape
    <3>2. \/ data'[u] = data[u]
          \/ /\ cstate[u] = "kOpen" /\ Len(data'[u]) = Len(data[u]) + 1
             /\ \A i \in 1..Len(data[u]) : data'[u][i] = data[u][i]
             /\ data'[u][Len(data[u]) + 1] = Torn
      BY <1>2, <2>2 DEF Left
    <3>3. InPlace(u) /\ (cstate[u] # "none" => NoTorn(u))
      BY <2>0, <2>2 DEF ChunkInv, Erased
    <3>4. ASSUME NEW i \in 1..Len(data[u]), data[u][i] # Torn
          PROVE  LET w == data[u][i] IN
                 call'[w].op = "append" /\ call'[w].uuid = u /\ call'[w].offset = i - 1
      <4>1. data[u][i] \in Calls
        BY <1>0, <3>4 DEF Shape
      <4>2. QED
        BY <1>4, <3>1, <3>3, <3>4, <4>1 DEF InPlace
    <3>5. InPlace(u)'
      <4>1. CASE data'[u] = data[u]
        BY <3>1, <3>3, <3>4, <4>1 DEF InPlace
      <4>2. CASE data'[u] # data[u]
        <5>1. \A i \in 1..Len(data[u]) : data[u][i] # Torn
          BY <3>1, <3>2, <3>3, <4>2 DEF NoTorn
        <5>2. ASSUME NEW i \in 1..Len(data[u])
              PROVE  LET w == data'[u][i] IN
                     call'[w].op = "append" /\ call'[w].uuid = u /\ call'[w].offset = i - 1
          BY <3>2, <3>4, <4>2, <5>1
        <5>3. \A i \in 1..Len(data[u]) : data'[u][i] # Torn
          BY <3>2, <4>2, <5>1
        <5>4. /\ DOMAIN data'[u] = 1..Len(data[u]) \cup {Len(data'[u])}
              /\ data'[u][Len(data'[u])] = Torn
          BY <3>1, <3>2, <4>2
        <5>5. QED
          BY <5>2, <5>3, <5>4 DEF InPlace
      <4>3. QED
        BY <4>1, <4>2
    <3>6. files' = files
      BY <1>1, <2>2
    <3>7. told[u] # -1 => Len(data'[u]) = told[u]
      BY <2>0, <2>2, <3>2 DEF ChunkInv, Gone
    <3>8. u \notin Known => data'[u] = <<>>
      BY <2>0, <3>2 DEF ChunkInv
    <3>9. QED
      BY <1>1, <1>5, <2>0, <3>5, <3>6, <3>7, <3>8 DEF ChunkInv
  <2>3. QED
    BY <1>0, <2>1, <2>2 DEF Shape
<1>9. ASSUME NEW d \in Calls PROVE CallInv(d)'
  <2>1. CallInv(d) /\ CallOK(d)
    BY <1>0 DEF ManusyaInv, Shape
  <2>2. CASE kind = "memory"
    <3>1. Gone(call[d].uuid)' /\ \A v : Gone(v)'
      BY <1>1, <2>2 DEF Gone
    <3>2. QED
      BY <1>4, <1>5, <2>1, <3>1, ZenonT(30) DEF CallInv
  <2>3. CASE kind = "local"
    <3>1. files' = files /\ data' = contents /\ removed' = removed /\ \A v : ~Gone(v) /\ ~Gone(v)'
      BY <1>1, <1>2, <2>3 DEF Gone
    <3>2. ASSUME call[d].uuid \in Uuids
          PROVE  LET v == call[d].uuid IN
                 /\ Len(data[v]) \in Nat /\ Len(contents[v]) \in Nat
                 /\ Len(data[v]) <= Len(contents[v])
                 /\ \A i \in 1..Len(data[v]) : contents[v][i] = data[v][i]
      BY <1>0, <2>3, <3>2 DEF Left, Shape
    <3>3. ASSUME call[d].uuid \in Uuids, call[d].offset \in Nat, AppendOK(d)
          PROVE  AppendOK(d)'
      <4>1. call[d].offset + 1 \in 1..Len(data[call[d].uuid])
        <5>1. call[d].offset < Len(data[call[d].uuid])
          BY <3>3 DEF AppendOK
        <5>2. Len(data[call[d].uuid]) \in Nat
          BY <3>2, <3>3
        <5>3. QED
          BY <3>3, <5>1, <5>2
      <4>2. LET v == call[d].uuid IN
            call[d].offset < Len(contents[v]) /\ contents[v][call[d].offset + 1] = d
        BY <3>2, <3>3, <4>1 DEF AppendOK
      <4>3. QED
        BY <1>4, <3>1, <3>3, <4>2 DEF AppendOK
    <3>4. ASSUME call[d].uuid \in Uuids, ReadOK(d) PROVE ReadOK(d)'
      <4>1. call[d].size \in Nat /\ call[d].offset \in Nat
        BY <2>1, <3>4 DEF CallOK, ReadOK
      <4>2. ASSUME NEW k \in DOMAIN call[d].got
            PROVE  LET v == call[d].uuid IN
                   /\ k \in 1..call[d].size /\ call[d].offset + k <= Len(contents[v])
                   /\ call[d].got[k] = contents[v][call[d].offset + k]
        <5>1. LET v == call[d].uuid IN
              /\ k \in 1..call[d].size /\ call[d].offset + k <= Len(data[v])
              /\ call[d].got[k] = data[v][call[d].offset + k]
          BY <3>4 DEF ReadOK
        <5>2. call[d].offset + k \in 1..Len(data[call[d].uuid])
          BY <3>2, <3>4, <4>1, <5>1
        <5>3. QED
          BY <3>2, <3>4, <4>1, <5>1, <5>2, SMTT(30)
      <4>3. QED
        BY <1>4, <3>1, <3>4, <4>1, <4>2, ZenonT(30) DEF ReadOK
    <3>5. QED
      BY <1>4, <1>5, <2>1, <3>1, <3>3, <3>4, Zenon DEF CallInv
  <2>4. QED
    BY <1>0, <2>2, <2>3 DEF Shape
<1>10. QED
  BY <1>7, <1>8, <1>9 DEF ManusyaInv

\* A crash loses no byte of a local store; a short write adds a torn buffer to a
\* chunk that was open.
LEMMA DeathLeaves ==
  ASSUME ManusyaInv, Crash \/ \E c \in Calls : AppendTorn(c)
  PROVE  \E contents : Die(contents) /\ Left(contents)
<1>0. Shape
  BY DEF ManusyaInv
<1>1. ASSUME NEW u \in Uuids PROVE data[u] \in Seq(Calls \cup {Torn}) /\ Len(data[u]) \in Nat
  BY <1>0 DEF Shape
<1>2. CASE Crash
  <2>1. Left(data)
    <3>1. \A u \in Uuids : Len(data[u]) <= Len(data[u])
      BY <1>1
    <3>2. data \in [Uuids -> Seq(Calls \cup {Torn})]
      BY <1>0 DEF Shape
    <3>3. QED
      BY <3>1, <3>2 DEF Left
  <2>2. QED
    BY <1>2, <2>1 DEF Crash
<1>3. ASSUME NEW c \in Calls, AppendTorn(c) PROVE \E contents : Die(contents) /\ Left(contents)
  <2>1. PICK u \in Uuids : u = call[c].uuid
    BY <1>3, ZenonT(30) DEF AppendTorn, Using, ManusyaInv, CallInv
  <2> DEFINE contents == [data EXCEPT ![u] = Append(@, Torn)]
  <2>2. cstate[u] = "kOpen" /\ Die(contents)
    BY <1>3, <2>1 DEF AppendTorn
  <2>3. Append(data[u], Torn) \in Seq(Calls \cup {Torn})
    BY <1>1
  <2>4. /\ contents \in [Uuids -> Seq(Calls \cup {Torn})]
        /\ contents[u] = Append(data[u], Torn)
        /\ \A v \in Uuids \ {u} : contents[v] = data[v]
    BY <1>0, <2>3 DEF Shape
  <2>5. /\ Len(Append(data[u], Torn)) = Len(data[u]) + 1
        /\ \A i \in 1..Len(data[u]) : Append(data[u], Torn)[i] = data[u][i]
        /\ Append(data[u], Torn)[Len(data[u]) + 1] = Torn
    BY <1>1
  <2> HIDE DEF contents
  <2>6. Left(contents)
    <3>1. \A v \in Uuids : Len(data[v]) <= Len(contents[v])
      BY <1>1, <2>4, <2>5
    <3>2. QED
      BY <2>2, <2>4, <2>5, <3>1 DEF Left
  <2>7. QED
    BY <2>2, <2>6
<1>4. QED
  BY <1>2, <1>3

\* So the death of the process keeps the invariant.
LEMMA CrashKeeps ==
  ASSUME ManusyaInv, Crash \/ \E c \in Calls : AppendTorn(c) PROVE ManusyaInv'
  BY DeathLeaves, DieKeeps

\* Bank::load opens none of the files there are, so a restart brings no chunk back.
LEMMA LoadKeeps ==
  ASSUME ManusyaInv, Load PROVE ManusyaInv'
<1>1. Loaded = {}
  BY DEF Loaded, OpenStatus
<1>2. /\ UNCHANGED <<kind, files, data, call, crashes, told, removed>> /\ up' = TRUE
      /\ bank' = {} /\ csize' = [u \in Uuids |-> 0] /\ cstate' = [u \in Uuids |-> "none"]
  BY <1>1 DEF Load, store
<1>3. Shape'
  <2>1. csize' \in [Uuids -> Nat] /\ cstate' \in [Uuids -> States]
    BY <1>2 DEF States
  <2>2. \A c \in Calls : CallOK(c)'
    BY <1>2 DEF ManusyaInv, Shape, CallOK
  <2>3. QED
    BY <1>2, <2>1, <2>2 DEF ManusyaInv, Shape
<1>4. Known' = Known
  BY <1>2 DEF Known
<1>5. ASSUME NEW u \in Uuids PROVE ChunkInv(u)'
  <2>1. ChunkInv(u) /\ cstate'[u] = "none"
    BY <1>2 DEF ManusyaInv
  <2>2. (InPlace(u)' = InPlace(u)) /\ (Gone(u)' = Gone(u)) /\ (Erased(u)' = Erased(u))
    BY <1>2 DEF InPlace, Gone, Erased
  <2>3. QED
    BY <1>2, <1>4, <2>1, <2>2 DEF ChunkInv
<1>6. ASSUME NEW c \in Calls PROVE CallInv(c)'
  <2>1. CallInv(c) /\ ~up
    BY DEF ManusyaInv, Load
  <2>2. QED
    BY <1>2, <1>4, <2>1 DEF CallInv, AppendOK, ReadOK, Gone
<1>7. QED
  BY <1>3, <1>5, <1>6 DEF ManusyaInv

-----------------------------------------------------------------------------
(* Theorems *)

\* Every step of the server keeps the invariant.
LEMMA ManusyaInvStep == ManusyaInv /\ [Next]_vars => ManusyaInv'
<1> SUFFICES ASSUME ManusyaInv, [Next]_vars PROVE ManusyaInv'
  OBVIOUS
<1>1. ASSUME NEW c \in Calls, Handler(c) PROVE ManusyaInv'
  <2>1. CASE Append1(c)
    BY <2>1, AppendKeeps
  <2>2. CASE AppendTorn(c)
    BY <2>2, CrashKeeps
  <2>3. CASE QueryAndSeal(c)
    BY <2>3, SealKeeps
  <2>4. CASE RemoveFile(c)
    <3>1. call[c].uuid \in Uuids
      BY <2>4 DEF RemoveFile, Using, ManusyaInv, CallInv
    <3>2. QED
      BY <2>4, <3>1, RemoveKeeps
  <2>5. CASE \E r \in Ranges : Read(c, r.offset, r.size)
    BY <2>5, ReadKeeps
  <2>6. CASE \E u \in Uuids : CreateChunk(c, u)
    BY <2>6, CreateKeeps
  <2>7. CASE \E u \in Uuids : RemoveErase(c, u)
    BY <2>7, RemoveKeeps
  <2>8. QED
    BY <1>1, <2>1, <2>2, <2>3, <2>4, <2>5, <2>6, <2>7, QuietStepsKeep DEF Handler
<1>2. CASE Crash
  BY <1>2, CrashKeeps
<1>3. CASE Load
  BY <1>3, LoadKeeps
<1>4. CASE UNCHANGED vars
  <2>1. Shape' /\ Known' = Known
    BY <1>4 DEF vars, ManusyaInv, Shape, CallOK, Known
  <2>2. ASSUME NEW u \in Uuids PROVE ChunkInv(u)'
    <3>1. ChunkInv(u) /\ (InPlace(u)' = InPlace(u)) /\ (NoTorn(u)' = NoTorn(u))
      BY <1>4 DEF vars, ManusyaInv, InPlace, NoTorn
    <3>2. QED
      BY <1>4, <2>1, <3>1 DEF vars, ChunkInv, Gone, Erased
  <2>3. ASSUME NEW c \in Calls PROVE CallInv(c)'
    BY <1>4, <2>1, ZenonT(30) DEF vars, ManusyaInv, CallInv, AppendOK, ReadOK, Gone
  <2>4. QED
    BY <2>1, <2>2, <2>3 DEF ManusyaInv
<1>5. QED
  BY <1>1, <1>2, <1>3, <1>4 DEF Next, Finished

\* The invariant holds in every state of the server.
LEMMA ManusyaInvAlways == Spec => []ManusyaInv
  BY ManusyaInvInit, ManusyaInvStep, PTL DEF Spec

\* Bank::get_chunk only gives out chunks that have a file, as long as Chunk::_size
\* says, in which every buffer is whole.
THEOREM ServedIsWhole == Spec => [](ServedHasFile /\ NoTornServed)
<1>1. ManusyaInv => ServedHasFile /\ NoTornServed
  BY DEF ManusyaInv, Shape, ChunkInv, Erased, NoTorn, ServedHasFile, NoTornServed
<1>2. QED
  BY <1>1, ManusyaInvAlways, PTL

\* What Chunk::append has answered is in the file at its offset, after crashes of
\* a local store too, and whatever is in a file was appended at its place.
THEOREM AppendsAreKept == Spec => [](AckedDurable /\ StoredAtOffset)
<1>1. ManusyaInv => AckedDurable
  BY ZenonT(30) DEF ManusyaInv, CallInv, AppendOK, Acked, AckedDurable
<1>2. ManusyaInv => StoredAtOffset
  <2>1. ASSUME ManusyaInv, NEW u \in Uuids, ~Gone(u) PROVE InPlace(u)
    BY <2>1 DEF ManusyaInv, ChunkInv, Gone, Erased
  <2>2. QED
    BY <2>1 DEF InPlace, StoredAtOffset
<1>3. QED
  BY <1>1, <1>2, ManusyaInvAlways, PTL

\* The length Chunk::query_and_seal returned stays the length of the chunk.
THEOREM SealIsFinal == Spec => []ToldLengthFinal
<1>1. ManusyaInv => ToldLengthFinal
  BY DEF ManusyaInv, ChunkInv, ToldLengthFinal
<1>2. QED
  BY <1>1, ManusyaInvAlways, PTL

\* A read that Chunk::read answers OK returned what the chunk has in its range.
THEOREM ReadsAreExact == Spec => []ReadExact
<1>1. ManusyaInv => ReadExact
  BY Zenon DEF ManusyaInv, CallInv, ReadOK, ReadExact
<1>2. QED
  BY <1>1, ManusyaInvAlways, PTL

-----------------------------------------------------------------------------
(* The commands of sad *)

\* What an answer of the server says has happened, by operation.  The chunk is
\* there, or its bytes are gone with the memory store.
CreateDone(c) ==
  LET r == call[c] IN
  /\ r.uuid # -1 => r.at = "answered" /\ r.status = "OK"
  /\ r.status = "OK" => /\ r.uuid \in Uuids /\ r.got = <<r.uuid>>
                        /\ r.uuid \in files \cup removed \/ Gone(r.uuid)

AppendDone(c) ==
  LET r == call[c] IN
  /\ r.at = "done" => cstate[r.uuid] # "none"
  /\ r.status = "OK" => Gone(r.uuid) \/ /\ r.offset < Len(data[r.uuid])
                                        /\ data[r.uuid][r.offset + 1] = c
  /\ r.status = "OK" /\ r.at = "answered" =>
       Gone(r.uuid) \/ r.got[1] \in r.offset + 1..Len(data[r.uuid])

SealDone(c) ==
  LET r == call[c] IN
  r.status = "OK" => /\ r.uuid \in Uuids /\ told[r.uuid] # -1
                     /\ Gone(r.uuid) \/ r.got = <<told[r.uuid]>>

QueryDone(c) ==
  LET r == call[c] IN
  /\ r.got # <<>> => /\ r.uuid \in Uuids /\ r.got[1] \in Nat
                     /\ Gone(r.uuid) \/ r.got[1] <= Len(data[r.uuid])
  /\ r.at = "got" => r.got = <<>> \/ r.got = <<r.got[1]>>
  /\ r.status = "OK" => /\ r.at = "answered" /\ r.got # <<>>
                        /\ r.got[2] = "kSealed" => cstate[r.uuid] # "kOpen"

ListDone(c) ==
  LET r == call[c] IN
  r.status = "OK" => \A u \in r.got[1] : u \in Uuids /\ (u \in files \cup removed \/ Gone(u))

DoneInv(c) ==
  LET r == call[c] IN
  /\ r.op = "create" => CreateDone(c)
  /\ r.op = "append" => AppendDone(c)
  /\ r.op = "seal" => SealDone(c)
  /\ r.op = "query" => QueryDone(c)
  /\ r.op = "list" => ListDone(c)
  /\ r.op = "remove" /\ r.status = "OK" => r.uuid \in removed

\* what no step of the server takes back
KeptChunk(u) ==
  /\ Gone(u) => Gone(u)'
  /\ u \in files => u \in files' \cup removed' \/ Gone(u)'
  /\ told[u] # -1 => told'[u] # -1 /\ (Gone(u)' \/ told'[u] = told[u])
  /\ Gone(u)' \/ Longer(u)
  /\ cstate[u] # "none" => cstate'[u] # "none" \/ ~up'
  /\ u \in Known /\ cstate[u] # "kOpen" => cstate'[u] # "kOpen"

Kept == removed \subseteq removed' /\ \A u \in Uuids : KeptChunk(u)

\* the step of another call, or the death of the process, seen by c
Settled(c) ==
  /\ call'[c].op = call[c].op /\ call'[c].uuid = call[c].uuid
  /\ call'[c].offset = call[c].offset /\ call'[c].got = call[c].got
  /\ call'[c].status = call[c].status
  /\ \/ call'[c].at = call[c].at
     \/ call[c].at \in {"got", "done"} /\ call'[c].at = "lost"

\* a step of the handler of c, seen by c; an id is given out once
Moved(c) ==
  /\ call[c].at \in {"new", "got", "done"} /\ call'[c].at # "new"
  /\ call[c].at # "new" => call'[c].op = call[c].op
  /\ call'[c].op = "create" /\ call'[c].uuid # -1 => call'[c].uuid \notin Known
  /\ DoneInv(c)'

-----------------------------------------------------------------------------
\* The death of the process loses calls and nothing that lasts.
LEMMA DeathSettles ==
  ASSUME ManusyaInv, NEW contents, Die(contents), Left(contents)
  PROVE  Kept /\ \A c \in Calls : Settled(c)
<1>1. ASSUME NEW u \in Uuids PROVE KeptChunk(u)
  <2>1. /\ removed' = removed /\ told' = told /\ kind' = kind /\ crashes' > 0 /\ ~up'
        /\ kind # "memory" => files' = files /\ data' = contents
        /\ cstate'[u] = "none"
    BY DEF Die, ManusyaInv, Shape
  <2>2. Gone(u)' \/ Longer(u)
    BY <2>1 DEF Gone, Longer, Left
  <2>3. QED
    BY <2>1, <2>2 DEF KeptChunk, Gone
<1>2. ASSUME NEW c \in Calls PROVE Settled(c)
  <2>1. CallOK(c)
    BY DEF ManusyaInv, Shape
  <2>2. call'[c] = IF call[c].at \in {"got", "done"}
                   THEN [call[c] EXCEPT !.at = "lost"] ELSE call[c]
    BY DEF Die
  <2>3. QED
    BY <2>1, <2>2 DEF Settled, CallOK
<1>3. QED
  BY <1>1, <1>2 DEF Kept, Die

\* A step that only its own call can see.
LEMMA QuietIsKept ==
  ASSUME ManusyaInv, UNCHANGED <<kind, store, cstate, crashes, told, removed>> PROVE Kept
<1>1. ASSUME NEW u \in Uuids PROVE Longer(u)
  <2>1. Len(data[u]) \in Nat
    BY DEF ManusyaInv, Shape
  <2>2. QED
    BY <2>1 DEF Longer, store
<1>2. QED
  BY <1>1 DEF Kept, KeptChunk, Gone, store

\* So are the steps on one chunk.
LEMMA OneIsKept ==
  ASSUME ManusyaInv, NEW u \in Uuids, KeptChunk(u), UNCHANGED <<kind, crashes>>,
         removed \subseteq removed', \A v \in Uuids \ {u} : Same(v)
  PROVE  Kept
<1>1. ASSUME NEW v \in Uuids, v # u PROVE KeptChunk(v)
  <2>1. Len(data[v]) \in Nat
    BY DEF ManusyaInv, Shape
  <2>2. Longer(v)
    BY <1>1, <2>1 DEF Longer, Same
  <2>3. QED
    BY <1>1, <2>2 DEF KeptChunk, Same, Gone
<1>2. QED
  BY <1>1 DEF Kept

\* What a handler does is seen by its own call, and by the others not at all.
LEMMA HandlerMoves ==
  ASSUME ManusyaInv, NEW c \in Calls, DoneInv(c), Handler(c)
  PROVE  /\ Kept
         /\ \A d \in Calls \ {c} : Settled(d)
         /\ Moved(c) \/ Settled(c)
<1>0. Shape /\ CallOK(c) /\ CallInv(c) /\ call = [d \in Calls |-> call[d]]
  BY DEF ManusyaInv, Shape
<1>a. \A u \in Uuids : Len(data[u]) \in Nat /\ data[u] \in Seq(Calls \cup {Torn})
  BY <1>0 DEF Shape
<1>1. CASE AppendTorn(c)
  BY <1>1, DeathLeaves, DeathSettles
<1>2. CASE ~AppendTorn(c)
  <2>1. ASSUME NEW d \in Calls, d # c PROVE call'[d] = call[d]
    BY <1>0, <1>2, <2>1, ZenonT(60) DEF Handler, CreateFails, Append1, AppendRefused, Respond,
       QueryAndSeal, QueryAndSealFails, QuerySize, QueryState, RemoveFile, Read, CreateChunk,
       RemoveErase, RemoveMissing, GetChunk, ListChunk, Finish, Fail
  <2> SUFFICES Kept /\ Moved(c)
    BY <2>1 DEF Settled
  <2> USE <1>0
  <2>2. CASE CreateFails(c)
    BY <2>2, QuietIsKept DEF CreateFails, chunks, Moved, DoneInv, CreateDone, CallOK, CallInv
  <2>3. CASE Append1(c)
    <3>1. PICK u \in Uuids : u = call[c].uuid
      BY <2>3 DEF Append1, Using, CallInv
    <3>2. /\ ChunkInv(u) /\ cstate[u] = "kOpen" /\ call[c].op = "append" /\ call[c].at = "got"
          /\ call[c].offset = csize[u] /\ csize[u] \in Nat
      BY <2>3, <3>1 DEF ManusyaInv, Shape, Append1, Using
    <3>3. /\ data'[u] = Append(data[u], c) /\ UNCHANGED <<kind, cstate, crashes, told, removed>>
          /\ files \subseteq files' /\ \A v \in Uuids \ {u} : Same(v)
      BY <2>3, <3>1 DEF Append1, Touch, Shape, Same
    <3>4. Longer(u) /\ Len(data'[u]) = Len(data[u]) + 1 /\ data'[u][Len(data[u]) + 1] = c
      BY <1>a, <3>3 DEF Longer
    <3>5. Kept
      BY <3>3, <3>4, OneIsKept DEF KeptChunk, Gone
    <3>6. /\ call'[c].at = "done" /\ call'[c].op = "append" /\ call'[c].uuid = u
          /\ call'[c].offset = csize[u]
      BY <2>3, <3>1, <3>2 DEF Append1, CallOK
    <3>7. Gone(u)' \/ (csize[u] < Len(data'[u]) /\ data'[u][csize[u] + 1] = c)
      <4>1. Gone(u) \/ Len(data[u]) = csize[u]
        BY <3>2 DEF ChunkInv, Erased, Gone
      <4>2. QED
        BY <1>a, <3>3, <3>4, <4>1 DEF Gone
    <3>8. AppendDone(c)'
      BY <3>2, <3>3, <3>6, <3>7 DEF AppendDone
    <3>9. QED
      BY <3>2, <3>5, <3>6, <3>8 DEF Moved, DoneInv
  <2>4. CASE AppendRefused(c)
    <3>1. PICK e \in {"EINVAL", "EPERM", "EIO"} : call' = [call EXCEPT ![c].at = "answered", ![c].status = e]
      BY <2>4, ZenonT(30) DEF AppendRefused, Finish
    <3>2. /\ call[c].at = "got" /\ call[c].op = "append" /\ call'[c].op = "append"
          /\ call'[c].at = "answered" /\ call'[c].status # "OK"
      BY <2>4, <3>1, ZenonT(30) DEF AppendRefused, Using, CallOK
    <3>3. QED
      BY <2>4, <3>2, QuietIsKept DEF AppendRefused, chunks, Moved, DoneInv, AppendDone
  <2>5. CASE Respond(c)
    <3>1. PICK u \in Uuids : u = call[c].uuid
      BY <2>5 DEF Respond, CallInv
    <3>2. /\ call[c].at = "done" /\ call[c].op = "append" /\ call[c].status = "OK" /\ ChunkInv(u)
          /\ call[c].offset \in Nat /\ csize[u] \in Nat
          /\ UNCHANGED <<kind, files, data, chunks, crashes, removed>>
      BY <2>5 DEF Respond, CallInv, ManusyaInv, Shape, store
    <3>3. cstate[u] # "none"
          /\ (Gone(u) \/ (call[c].offset < Len(data[u]) /\ data[u][call[c].offset + 1] = c))
      BY <3>1, <3>2, ZenonT(30) DEF DoneInv, AppendDone
    <3>4. Gone(u) \/ csize[u] = Len(data[u])
      BY <3>2, <3>3 DEF ChunkInv, Erased, Gone
    <3>5. /\ call'[c].at = "answered" /\ call'[c].op = "append" /\ call'[c].uuid = u
          /\ call'[c].offset = call[c].offset /\ call'[c].got = <<csize[u]>>
          /\ call'[c].status = "OK"
      BY <2>5, <3>1, <3>2, ZenonT(30) DEF Respond, CallOK
    <3>6. call'[c].got[1] = csize[u]
      BY <3>5
    <3>7. Gone(u) \/ csize[u] \in call[c].offset + 1..Len(data[u])
      BY <1>a, <3>2, <3>3, <3>4
    <3>8. AppendDone(c)'
      BY <3>2, <3>3, <3>5, <3>6, <3>7 DEF AppendDone, Gone
    <3>9. QED
      BY <2>5, <3>2, <3>5, <3>8, QuietIsKept DEF Respond, chunks, Moved, DoneInv
  <2>6. CASE QueryAndSeal(c)
    <3>1. PICK u \in Uuids : u = call[c].uuid
      BY <2>6 DEF QueryAndSeal, Using, CallInv
    <3>2. /\ told'[u] = Len(data[u]) /\ UNCHANGED <<kind, data, crashes, removed>>
          /\ files \subseteq files' /\ cstate'[u] = "kSealed" /\ \A v \in Uuids \ {u} : Same(v)
      BY <2>6, <3>1 DEF QueryAndSeal, Touch, Shape, Same
    <3>3. told[u] # -1 => Gone(u) \/ told[u] = Len(data[u])
      BY DEF ManusyaInv, ChunkInv
    <3>4. Kept
      <4>1. Longer(u)
        BY <1>a, <3>2 DEF Longer
      <4>2. told'[u] # -1
        BY <1>a, <3>2
      <4>3. KeptChunk(u)
        BY <3>2, <3>3, <4>1, <4>2 DEF KeptChunk, Gone
      <4>4. QED
        BY <3>2, <4>3, OneIsKept
    <3>5. /\ call'[c].at = "answered" /\ call'[c].op = "seal" /\ call'[c].uuid = u
          /\ call'[c].got = <<Len(data[u])>> /\ call[c].op = "seal" /\ call[c].at = "got"
      BY <2>6, <3>1 DEF QueryAndSeal, Using, CallOK
    <3>6. SealDone(c)'
      BY <1>a, <3>2, <3>5 DEF SealDone
    <3>7. QED
      BY <3>4, <3>5, <3>6 DEF Moved, DoneInv
  <2>7. CASE QueryAndSealFails(c)
    BY <2>7, QuietIsKept, ZenonT(30) DEF QueryAndSealFails, chunks, Using, Finish, Moved, DoneInv, SealDone, CallOK
  <2>8. CASE QuerySize(c)
    <3>1. PICK u \in Uuids : u = call[c].uuid
      BY <2>8 DEF QuerySize, Using, CallInv
    <3>2. /\ call[c].at = "got" /\ call[c].op = "query" /\ cstate[u] # "none" /\ ChunkInv(u)
          /\ csize[u] \in Nat /\ call[c].status # "OK"
          /\ UNCHANGED <<kind, files, data, chunks, crashes, removed>>
      BY <2>8, <3>1 DEF QuerySize, Using, CallInv, ManusyaInv, Shape, store
    <3>3. /\ call'[c].at = "got" /\ call'[c].op = "query" /\ call'[c].uuid = u
          /\ call'[c].got = <<csize[u]>> /\ call'[c].status # "OK"
      BY <2>8, <3>1, <3>2 DEF QuerySize, CallOK
    <3>4. Gone(u) \/ csize[u] <= Len(data[u])
      BY <3>2 DEF ChunkInv, Erased, Gone
    <3>5. call'[c].got[1] = csize[u]
      BY <3>3
    <3>6. QueryDone(c)'
      BY <3>2, <3>3, <3>4, <3>5 DEF QueryDone, Gone
    <3>7. QED
      BY <2>8, <3>2, <3>3, <3>6, QuietIsKept DEF QuerySize, chunks, Moved, DoneInv
  <2>9. CASE QueryState(c)
    <3>1. PICK u \in Uuids : u = call[c].uuid
      BY <2>9 DEF QueryState, Using, CallInv
    <3>2. /\ call[c].at = "got" /\ call[c].op = "query" /\ call[c].got # <<>>
          /\ UNCHANGED <<kind, data, cstate, crashes, removed>>
      BY <2>9 DEF QueryState, Using, store, chunks
    <3>3. PICK n \in Nat : call[c].got = <<n>> /\ (Gone(u) \/ n <= Len(data[u]))
      BY <3>1, <3>2 DEF DoneInv, QueryDone
    <3>4. call'[c] = [call[c] EXCEPT !.at = "answered", !.status = "OK",
                                     !.got = Append(@, cstate[call[c].uuid])]
      BY <2>9 DEF QueryState
    <3>5. /\ call'[c].at = "answered" /\ call'[c].op = "query" /\ call'[c].uuid = u
          /\ call'[c].got = Append(<<n>>, cstate[u])
      BY <3>1, <3>2, <3>3, <3>4, Zenon DEF CallOK
    <3>6. call'[c].got[1] = n /\ call'[c].got[2] = cstate[u] /\ call'[c].got # <<>>
      BY <3>5
    <3>7. QueryDone(c)'
      BY <3>2, <3>3, <3>5, <3>6 DEF QueryDone, Gone
    <3>8. QED
      BY <2>9, <3>2, <3>5, <3>7, QuietIsKept DEF QueryState, chunks, Moved, DoneInv
  <2>10. CASE RemoveFile(c)
    <3>1. PICK u \in Uuids : u = call[c].uuid
      BY <2>10 DEF RemoveFile, Using, CallInv
    <3>2. /\ u \in removed /\ call[c].op = "remove" /\ call[c].at = "got"
          /\ UNCHANGED <<kind, cstate, crashes, told, removed>>
      BY <2>10, <3>1 DEF RemoveFile, Using, CallInv, chunks
    <3>3. (\A v \in Uuids \ {u} : Same(v)) /\ (kind # "memory" => data' = data)
      BY <2>10, <3>1 DEF RemoveFile, Erase, Same, store, chunks, Shape
    <3>4. KeptChunk(u)
      BY <1>a, <3>2, <3>3 DEF KeptChunk, Gone, Longer
    <3>5. call'[c].op = "remove" /\ call'[c].at = "answered" /\ call'[c].uuid = u
      BY <2>10, <3>1, <3>2 DEF RemoveFile, Finish, CallOK
    <3>6. QED
      BY <3>2, <3>3, <3>4, <3>5, OneIsKept DEF Moved, DoneInv
  <2>11. ASSUME NEW r \in Ranges, Read(c, r.offset, r.size) PROVE Kept /\ Moved(c)
    <3>1. call[c].op = "read" /\ call[c].at = "got"
      BY <2>11 DEF Read, Using
    <3>2. call'[c].op = "read" /\ call'[c].at \in {"answered", "failed"}
      BY <2>11, <3>1 DEF Read, Fail, CallOK
    <3>3. QED
      BY <2>11, <3>1, <3>2, QuietIsKept DEF Read, chunks, Moved, DoneInv
  <2>12. ASSUME NEW u \in Uuids, CreateChunk(c, u) PROVE Kept /\ Moved(c)
    <3>1. /\ call'[c].op = "create" /\ call'[c].at = "answered" /\ call'[c].uuid = u
          /\ call'[c].got = <<u>> /\ call'[c].status = "OK" /\ u \in files'
          /\ call[c].at = "new" /\ u \notin Known
      BY <2>12, Zenon DEF CreateChunk, NewCall
    <3>2. ChunkInv(u)
      BY DEF ManusyaInv
    <3>3. /\ data[u] = <<>> /\ data'[u] = <<>> /\ cstate'[u] = "kOpen" /\ told[u] = -1
          /\ UNCHANGED <<kind, crashes, told, removed>> /\ files \subseteq files'
          /\ \A v \in Uuids \ {u} : Same(v)
      BY <2>12, <3>1, <3>2 DEF ChunkInv, CreateChunk, CreatedState, Same, Shape
    <3>4. KeptChunk(u)
      BY <3>1, <3>3 DEF KeptChunk, Gone, Longer
    <3>5. CreateDone(c)'
      BY <3>1 DEF CreateDone
    <3>6. QED
      BY <3>1, <3>3, <3>4, <3>5, OneIsKept DEF Moved, DoneInv
  <2>13. ASSUME NEW u \in Uuids, RemoveErase(c, u) PROVE Kept /\ Moved(c)
    <3>1. Kept
      <4>1. \A v \in Uuids : Longer(v)
        BY <1>a, <2>13 DEF RemoveErase, Longer, store
      <4>2. QED
        BY <2>13, <4>1 DEF RemoveErase, Kept, KeptChunk, Gone, store, chunks
    <3>2. QED
      BY <2>13, <3>1 DEF RemoveErase, Moved, DoneInv, CallOK, CallInv
  <2>14. ASSUME NEW u \in Uuids, RemoveMissing(c, u) PROVE Kept /\ Moved(c)
    BY <2>14, QuietIsKept DEF RemoveMissing, chunks, Moved, DoneInv, CallOK
  <2>15. ASSUME NEW u \in Uuids, NEW op \in {"append", "read", "seal", "query"}, NEW offset,
                GetChunk(c, op, u, offset)
         PROVE  Kept /\ Moved(c)
    <3>1. /\ call'[c].op = op /\ call'[c].at \notin {"new", "done"} /\ call'[c].status # "OK"
          /\ call'[c].got = <<>> /\ call[c].at = "new"
      BY <2>15, Zenon DEF GetChunk, NewCall
    <3>2. DoneInv(c)'
      BY <3>1 DEF DoneInv, AppendDone, SealDone, QueryDone
    <3>3. QED
      BY <2>15, <3>1, <3>2, QuietIsKept DEF GetChunk, chunks, Moved
  <2>16. ASSUME NEW u \in Uuids, NEW limit, ListChunk(c, u, limit) PROVE Kept /\ Moved(c)
    <3> DEFINE after == {v \in bank : v >= u}
               got == {v \in after : Cardinality({w \in after : w < v}) < limit}
    <3>1. /\ call'[c].op = "list" /\ call'[c].at = "answered" /\ call[c].at = "new"
          /\ call'[c].got = <<got>>
      BY <2>16, Zenon DEF ListChunk, NewCall
    <3>2. got \subseteq bank
      OBVIOUS
    <3> HIDE DEF got
    <3>3. \A v \in got : v \in Uuids /\ v \in files \cup removed
      BY <3>2 DEF ManusyaInv, ChunkInv, Shape
    <3>4. call'[c].got[1] = got
      BY <3>1
    <3>5. ListDone(c)'
      <4>1. UNCHANGED <<files, removed>>
        BY <2>16, Zenon DEF ListChunk, store
      <4>2. QED
        BY <3>3, <3>4, <4>1, ZenonT(30) DEF ListDone
    <3>6. QED
      BY <2>16, <3>1, <3>5, QuietIsKept, ZenonT(30) DEF ListChunk, chunks, Moved, DoneInv
  <2>17. QED
    BY <1>2, <2>2, <2>3, <2>4, <2>5, <2>6, <2>7, <2>8, <2>9, <2>10, <2>11, <2>12, <2>13,
       <2>14, <2>15, <2>16 DEF Handler
<1>3. QED
  BY <1>1, <1>2

-----------------------------------------------------------------------------
\* what a run of sad knows of the call it made
CommandInv(c) ==
  LET k == cmd[c] r == call[c] IN
  /\ k = [at |-> k.at, op |-> k.op, exit |-> k.exit, shown |-> k.shown, out |-> k.out]
  /\ k.at \in {"ready", "sent", "exited"}
  /\ k.at = "ready" => r.at = "new" /\ k.shown = "none"
  /\ k.at # "exited" => k.exit = -1
  /\ k.exit = 0 => r.at = "answered" /\ k.shown = r.status /\ k.out = r.got
  /\ r.at # "new" => /\ k.op = r.op
                     /\ \/ k.at = "sent" \/ k.shown \in Unanswered
                        \/ r.at = "answered" /\ k.exit = 0
                        \/ r.at = "failed"

\* one call created the chunk
OneCreator ==
  \A c, d \in Calls :
    call[c].op = "create" /\ call[d].op = "create" /\ call[c].uuid = call[d].uuid
      => c = d \/ call[c].uuid = -1

ChunksInv ==
  /\ ManusyaInv
  /\ cmd = [c \in Calls |-> cmd[c]]
  /\ OneCreator
  /\ \A c \in Calls : DoneInv(c) /\ CommandInv(c)

\* Before any command is run nothing is claimed.
LEMMA ChunksInvInit == ChunksInit => ChunksInv
<1> SUFFICES ASSUME ChunksInit PROVE ChunksInv
  OBVIOUS
<1>1. ASSUME NEW c \in Calls PROVE DoneInv(c) /\ CommandInv(c) /\ call[c].op = "none"
  <2>1. call[c] = NewCall /\ cmd[c] = Ready1
    BY DEF ChunksInit, Init, SadInit
  <2>2. call[c].op = "none" /\ call[c].at = "new"
    BY <2>1 DEF NewCall
  <2>3. DoneInv(c)
    BY <2>2, Zenon DEF DoneInv
  <2>4. cmd[c] = [at |-> "ready", op |-> "none", exit |-> -1, shown |-> "none", out |-> <<>>]
    BY <2>1 DEF Ready1
  <2>5. CommandInv(c)
    BY <2>2, <2>4, SMTT(30) DEF CommandInv
  <2>6. QED
    BY <2>2, <2>3, <2>5
<1>2. OneCreator
  BY <1>1 DEF OneCreator
<1>3. cmd = [c \in Calls |-> cmd[c]]
  BY DEF ChunksInit, SadInit
<1>4. QED
  BY <1>1, <1>2, <1>3, ManusyaInvInit DEF ChunksInit, ChunksInv

\* What an answer said stays true in the steps of others.
LEMMA DoneKept ==
  ASSUME ManusyaInv, ManusyaInv', Kept, NEW c \in Calls, DoneInv(c), Settled(c)
  PROVE  DoneInv(c)'
<1>1. ASSUME NEW u \in Uuids, u \in files \cup removed \/ Gone(u)
      PROVE  u \in files' \cup removed' \/ Gone(u)'
  BY <1>1 DEF Kept, KeptChunk
<1>2. CallInv(c) /\ CallInv(c)' /\ call[c].offset \in Int
  BY DEF ManusyaInv, Shape, CallOK
<1>3. \A u \in Uuids : KeptChunk(u) /\ Len(data[u]) \in Nat /\ Len(data'[u]) \in Nat
  BY DEF Kept, ManusyaInv, Shape
<1>4. ASSUME call[c].op = "create" PROVE CreateDone(c)'
  BY <1>1, <1>4, ZenonT(30) DEF DoneInv, CreateDone, Settled
<1>5. ASSUME call[c].op = "append" PROVE AppendDone(c)'
  <2>1. PICK u \in Uuids : u = call[c].uuid
    BY <1>2, <1>5, ZenonT(30) DEF CallInv
  <2>2. AppendDone(c) /\ call[c].offset \in Nat /\ (call'[c].at = "done" => up')
    BY <1>2, <1>5, ZenonT(30) DEF DoneInv, CallInv
  <2>3. call'[c].at = "done" => cstate'[u] # "none"
    BY <1>3, <2>1, <2>2, ZenonT(30) DEF AppendDone, Settled, KeptChunk
  <2>4. ASSUME call[c].status = "OK", ~Gone(u)'
        PROVE  call[c].offset < Len(data'[u]) /\ data'[u][call[c].offset + 1] = c
    <3>1. ~Gone(u) /\ Longer(u)
      BY <1>3, <2>4, ZenonT(30) DEF KeptChunk
    <3>2. call[c].offset < Len(data[u]) /\ data[u][call[c].offset + 1] = c
      BY <2>1, <2>2, <2>4, <3>1 DEF AppendDone
    <3>3. call[c].offset + 1 \in 1..Len(data[u])
      BY <1>3, <2>2, <3>2
    <3>4. QED
      BY <1>3, <2>2, <3>1, <3>2, <3>3 DEF Longer
  <2>5. ASSUME call[c].status = "OK", call[c].at = "answered", ~Gone(u)'
        PROVE  call[c].got[1] \in call[c].offset + 1..Len(data'[u])
    <3>1. ~Gone(u) /\ Longer(u)
      BY <1>3, <2>5 DEF KeptChunk
    <3>2. call[c].got[1] \in call[c].offset + 1..Len(data[u])
      BY <2>1, <2>2, <2>5, <3>1, ZenonT(30) DEF AppendDone
    <3>3. QED
      BY <1>3, <2>2, <3>1, <3>2 DEF Longer
  <2>6. QED
    BY <2>1, <2>3, <2>4, <2>5, ZenonT(30) DEF AppendDone, Settled
<1>6. ASSUME call[c].op = "seal" PROVE SealDone(c)'
  BY <1>3, <1>6, ZenonT(30) DEF DoneInv, SealDone, Settled, KeptChunk
<1>7. ASSUME call[c].op = "query" PROVE QueryDone(c)'
  <2>1. QueryDone(c)
    BY <1>7 DEF DoneInv
  <2>2. ASSUME call[c].got # <<>>
        PROVE  \E u \in Uuids : /\ u = call[c].uuid
                                /\ Gone(u)' \/ call[c].got[1] <= Len(data'[u])
    <3>1. PICK u \in Uuids : u = call[c].uuid
      BY <2>1, <2>2 DEF QueryDone
    <3>2. PICK n \in Nat : n = call[c].got[1] /\ (Gone(u) \/ n <= Len(data[u]))
      BY <2>1, <2>2, <3>1, ZenonT(30) DEF QueryDone
    <3>3. Gone(u)' \/ n <= Len(data'[u])
      <4>1. (Gone(u) => Gone(u)') /\ (Gone(u)' \/ Len(data[u]) <= Len(data'[u]))
        BY <1>3, Zenon DEF KeptChunk, Longer
      <4>2. Len(data[u]) \in Nat /\ Len(data'[u]) \in Nat
        BY <1>3, Zenon
      <4>3. CASE n <= Len(data[u])
        <5>1. SUFFICES ASSUME Len(data[u]) <= Len(data'[u]) PROVE n <= Len(data'[u])
          BY <4>1, Zenon
        <5>2. QED
          BY <4>2, <4>3, <5>1
      <4>4. QED
        BY <3>2, <4>1, <4>3, Zenon
    <3>4. QED
      BY <3>1, <3>2, <3>3
  <2>3. ASSUME call[c].got # <<>>, cstate[call[c].uuid] # "kOpen"
        PROVE  cstate'[call[c].uuid] # "kOpen"
    <3>1. call[c].uuid \in Uuids /\ call[c].uuid # -1
      BY <2>1, <2>3, UuidsAreNat DEF QueryDone
    <3>2. call[c].uuid \in Known
      BY <1>2, <3>1, ZenonT(30) DEF CallInv
    <3>3. QED
      BY <1>3, <2>3, <3>1, <3>2 DEF KeptChunk
  <2>4. QED
    BY <2>1, <2>2, <2>3, ZenonT(30) DEF QueryDone, Settled
<1>8. ASSUME call[c].op = "list" PROVE ListDone(c)'
  BY <1>1, <1>8, ZenonT(30) DEF DoneInv, ListDone, Settled
<1>9. QED
  BY <1>4, <1>5, <1>6, <1>7, <1>8 DEF DoneInv, Settled, Kept

\* A command's view of its call stays right in the steps of others.
LEMMA CommandKept ==
  ASSUME NEW c \in Calls, CommandInv(c), cmd'[c] = cmd[c], Settled(c) PROVE CommandInv(c)'
  BY Zenon DEF CommandInv, Settled

\* A step in which every call is settled keeps the invariant.
LEMMA SettledKeeps ==
  ASSUME ChunksInv, ManusyaInv', Kept, \A d \in Calls : Settled(d) PROVE
    OneCreator' /\ \A d \in Calls : DoneInv(d)' /\ (cmd'[d] = cmd[d] => CommandInv(d)')
<1>1. OneCreator'
  BY DEF ChunksInv, OneCreator, Settled
<1>2. QED
  BY <1>1, DoneKept, CommandKept DEF ChunksInv

\* Every step of the commands and of the server keeps the invariant.
LEMMA ChunksInvStep == ChunksInv /\ [ChunksNext]_allVars => ChunksInv'
<1> SUFFICES ASSUME ChunksInv, [ChunksNext]_allVars PROVE ChunksInv'
  OBVIOUS
<1>1. ASSUME UNCHANGED vars, NEW c \in Calls, cmd' = [cmd EXCEPT ![c] = cmd'[c]], CommandInv(c)'
      PROVE  ChunksInv'
  <2>1. ManusyaInv'
    BY <1>1, ManusyaInvStep DEF ChunksInv
  <2>2. /\ cmd' = [d \in Calls |-> cmd'[d]] /\ \A d \in Calls \ {c} : cmd'[d] = cmd[d]
    BY <1>1 DEF ChunksInv
  <2>3. Kept /\ \A d \in Calls : Settled(d)
    BY <1>1, QuietIsKept DEF vars, Settled, store, ChunksInv
  <2>4. QED
    BY <1>1, <2>1, <2>2, <2>3, SettledKeeps DEF ChunksInv
<1>2. ASSUME NEW c \in Calls, Execute(c) PROVE ChunksInv'
  <2>1. CommandInv(c) /\ cmd = [d \in Calls |-> cmd[d]]
    BY DEF ChunksInv
  <2>2. PICK op, takesId : Issue(c, op, takesId)
    BY <1>2, Zenon DEF Execute, create_chunk, append_chunk, list_chunk, read_chunk, seal_chunk,
       remove_chunk, query_chunk
  <2>3. cmd' = [cmd EXCEPT ![c] = cmd'[c]]
    BY <2>1, <2>2 DEF Issue, Failure
  <2>4. call'[c].at = "new"
    BY <1>2, <2>1, <2>2 DEF Execute, Issue, CommandInv, vars
  <2>5. CommandInv(c)'
    BY <2>1, <2>2, <2>4 DEF Issue, Failure, CommandInv
  <2>6. QED
    BY <1>1, <1>2, <2>3, <2>5 DEF Execute
<1>3. ASSUME NEW c \in Calls, End(c) PROVE ChunksInv'
  <2>1. CommandInv(c) /\ cmd = [d \in Calls |-> cmd[d]] /\ call' = call
    BY <1>3 DEF ChunksInv, End, vars
  <2>2. cmd' = [cmd EXCEPT ![c] = cmd'[c]]
    BY <1>3, <2>1 DEF End, Answered, Failed, NoAnswer, Failure
  <2>3. CommandInv(c)'
    <3>1. CASE call[c].at = "answered" /\ Answered(c, call[c].status, call[c].got)
      BY <2>1, <3>1, Zenon DEF Answered, Header, CommandInv
    <3>2. CASE call[c].at = "failed" /\ Failed(c, call[c].status)
      BY <2>1, <3>2, SMTT(30) DEF Failed, Failure, CommandInv
    <3>3. CASE NoAnswer(c)
      BY <2>1, <3>3, SMTT(30) DEF NoAnswer, Failed, Failure, CommandInv
    <3>4. QED
      BY <1>3, <3>1, <3>2, <3>3 DEF End
  <2>4. QED
    BY <1>1, <1>3, <2>2, <2>3 DEF End
<1>4. ASSUME NEW c \in Calls, Serve(c) PROVE ChunksInv'
  <2>1. ManusyaInv'
    BY <1>4, ManusyaInvStep DEF ChunksInv, Serve, Next
  <2>2. /\ Kept /\ \A d \in Calls \ {c} : Settled(d)
        /\ Moved(c) \/ Settled(c)
    BY <1>4, HandlerMoves DEF ChunksInv, Serve
  <2>3. cmd' = cmd /\ CommandInv(c) /\ (call[c].at = "new" => Sent(c, call'[c].op))
    BY <1>4 DEF Serve, ChunksInv
  <2>4. CASE Moved(c)
    <3>1. DoneInv(c)'
      BY <2>4 DEF Moved
    <3>2. CommandInv(c)'
      BY <2>3, <2>4 DEF Moved, CommandInv, Sent, Unanswered
    <3>3. OneCreator'
      <4>1. ASSUME NEW d \in Calls \ {c}, call'[d].op = "create", call'[c].op = "create",
                   call'[d].uuid # -1
            PROVE  call'[c].uuid # call'[d].uuid
        <5>1. call[d].op = "create" /\ call[d].uuid = call'[d].uuid /\ call[d].uuid \in Uuids
          BY <2>2, <4>1 DEF Settled, ChunksInv, ManusyaInv, Shape, CallOK
        <5>2. call[d].uuid \in Known
          BY <5>1 DEF Known
        <5>3. QED
          BY <2>4, <4>1, <5>1, <5>2 DEF Moved
      <4>2. ASSUME NEW d \in Calls \ {c}, NEW e \in Calls \ {c}, call'[d].op = "create",
                   call'[e].op = "create", call'[d].uuid = call'[e].uuid, call'[d].uuid # -1
            PROVE  d = e
        BY <2>2, <4>2 DEF ChunksInv, OneCreator, Settled
      <4>3. QED
        BY <4>1, <4>2 DEF OneCreator
    <3>4. QED
      BY <2>1, <2>2, <2>3, <3>1, <3>2, <3>3, DoneKept, CommandKept DEF ChunksInv
  <2>5. CASE Settled(c)
    BY <2>1, <2>2, <2>3, <2>5, SettledKeeps DEF ChunksInv
  <2>6. QED
    BY <2>2, <2>4, <2>5
<1>5. CASE (Crash \/ Load) /\ UNCHANGED cmd
  <2>1. ManusyaInv'
    BY <1>5, ManusyaInvStep DEF ChunksInv, Next
  <2>2. Kept /\ \A d \in Calls : Settled(d)
    <3>1. CASE Crash
      BY <3>1, DeathLeaves, DeathSettles DEF ChunksInv
    <3>2. CASE Load
      <4>1. /\ UNCHANGED <<kind, files, data, call, crashes, told, removed>> /\ ~up
            /\ cstate' = [u \in Uuids |-> "none"]
        BY <3>2 DEF Load, Loaded, OpenStatus, store
      <4>2. ASSUME NEW u \in Uuids PROVE KeptChunk(u)
        <5>1. cstate[u] = "none" /\ Len(data[u]) \in Nat
          BY <4>1 DEF ChunksInv, ManusyaInv, ChunkInv, Shape
        <5>2. QED
          BY <4>1, <5>1 DEF KeptChunk, Longer, Gone
      <4>3. QED
        BY <4>1, <4>2 DEF Kept, Settled
    <3>3. QED
      BY <1>5, <3>1, <3>2
  <2>3. QED
    BY <1>5, <2>1, <2>2, SettledKeeps DEF ChunksInv
<1>6. CASE UNCHANGED allVars
  <2>1. ManusyaInv' /\ cmd' = cmd
    BY <1>6, ManusyaInvStep DEF ChunksInv, allVars
  <2>2. Kept /\ \A d \in Calls : Settled(d)
    BY <1>6, QuietIsKept DEF allVars, vars, Settled, store, ChunksInv
  <2>3. QED
    BY <2>1, <2>2, SettledKeeps DEF ChunksInv
<1>7. QED
  BY <1>2, <1>3, <1>4, <1>5, <1>6 DEF ChunksNext, AllExited

\* The invariant holds in every state.
LEMMA ChunksInvAlways == ChunksSpec => []ChunksInv
  BY ChunksInvInit, ChunksInvStep, PTL DEF ChunksSpec

\* What a command of sad that succeeded printed was so on the server and stays so:
\* print shows the response, whose fields the handlers fill from the chunk when
\* its operation is done, and no later handler, removal, crash or restart takes
\* that back in a local store.
THEOREM ShownIsTrue == ChunksSpec => []ShownIsDone
<1>1. ChunksInv => ShownIsDone
  <2> SUFFICES ASSUME ChunksInv, NEW c \in Calls, Succeeded(c)
               PROVE  ShownIsDone!(c)
    BY ZenonT(30) DEF ShownIsDone
  <2> DEFINE r == call[c]
             u == call[c].uuid
             out == cmd[c].out
  <2>1. CommandInv(c) /\ DoneInv(c) /\ CallInv(c)
    BY DEF ChunksInv, ManusyaInv
  <2>2. r.at = "answered" /\ r.status = "OK" /\ cmd[c].op = r.op /\ out = r.got
    BY <2>1 DEF CommandInv, Succeeded
  <2>3. \A v \in Uuids : /\ told[v] # -1 => Gone(v) \/ told[v] = Len(data[v])
                         /\ v \in bank => v \notin removed
    BY DEF ChunksInv, ManusyaInv, ChunkInv
  <2>4. bank \subseteq Uuids
    BY DEF ChunksInv, ManusyaInv, Shape
  <2>5. r.op = "create" => out = <<u>> /\ (u \in files \cup removed \/ Gone(u))
    BY <2>1, <2>2, ZenonT(30) DEF DoneInv, CreateDone
  <2>6. r.op = "append" => \/ Gone(u)
                           \/ /\ out[1] \in r.offset + 1..Len(data[u])
                              /\ data[u][r.offset + 1] = c
    BY <2>1, <2>2, ZenonT(30) DEF DoneInv, AppendDone
  <2>7. r.op = "seal" => Gone(u) \/ out = <<Len(data[u])>>
    BY <2>1, <2>2, <2>3, ZenonT(30) DEF DoneInv, SealDone
  <2>8. r.op = "read" => \/ Gone(u)
                         \/ /\ r.offset + r.size < Modulus => DOMAIN out = 1..r.size
                            /\ \A k \in DOMAIN out : /\ r.offset + k <= Len(data[u])
                                                     /\ out[k] = data[u][r.offset + k]
    BY <2>1, <2>2, ZenonT(30) DEF CallInv, ReadOK
  <2>9. r.op = "query" => /\ Gone(u) \/ out[1] <= Len(data[u])
                          /\ out[2] = "kSealed" => cstate[u] # "kOpen"
    BY <2>1, <2>2, ZenonT(30) DEF DoneInv, QueryDone
  <2>10. r.op = "list" => \A v \in out[1] : v \in files \cup removed \/ Gone(v)
    BY <2>1, <2>2, ZenonT(30) DEF DoneInv, ListDone
  <2>11. r.op = "remove" => u \notin bank
    BY <2>1, <2>2, <2>3, <2>4, ZenonT(30) DEF DoneInv
  <2>12. cmd[c].op \in {"create", "append", "seal", "read", "query", "list", "remove"}
    BY <2>1, <2>2 DEF CallInv, ChunksInv, ManusyaInv, Shape, CallOK, Ops
  <2>13. QED
    BY <2>2, <2>5, <2>6, <2>7, <2>8, <2>9, <2>10, <2>11, <2>12, ZenonT(60)
<1>2. QED
  BY <1>1, ChunksInvAlways, PTL

\* A chunk nobody was told of was made for a command that got no answer: Bank
\* enters a chunk, and the store a file, only for a create that is answered OK.
THEOREM LostOnlyUnanswered == ChunksSpec => []UnknownUnanswered
<1>1. ChunksInv => UnknownUnanswered
  <2> SUFFICES ASSUME ChunksInv, NEW u \in bank \cup files
               PROVE  \E c \in Calls :
                        /\ \A d \in Calls : call[d].op = "create" /\ call[d].uuid = u <=> d = c
                        /\ \/ Succeeded(c) /\ cmd[c].out = <<u>>
                           \/ cmd[c].at = "sent" \/ cmd[c].shown \in Unanswered
    BY DEF UnknownUnanswered
  <2>1. u \in Uuids /\ u # -1
    BY UuidsAreNat DEF ChunksInv, ManusyaInv, Shape
  <2>2. PICK c \in Calls : call[c].op = "create" /\ call[c].uuid = u
    BY <2>1 DEF ChunksInv, ManusyaInv, ChunkInv, Known
  <2>3. CommandInv(c) /\ CreateDone(c)
    BY <2>2 DEF ChunksInv, DoneInv
  <2>4. call[c].at = "answered" /\ call[c].status = "OK" /\ call[c].got = <<u>>
    BY <2>1, <2>2, <2>3 DEF CreateDone
  <2>5. \A d \in Calls : call[d].op = "create" /\ call[d].uuid = u <=> d = c
    BY <2>1, <2>2 DEF ChunksInv, OneCreator
  <2>6. QED
    BY <2>3, <2>4, <2>5, ZenonT(30) DEF CommandInv, Succeeded
<1>2. QED
  BY <1>1, ChunksInvAlways, PTL

\* The commands drive the server of Manusya and no other: each step of the
\* composition is one of its steps or leaves it alone.
THEOREM SadUsesManusya == ChunksSpec => Spec
<1>1. ChunksInit => Init
  BY DEF ChunksInit
<1>2. [ChunksNext]_allVars => [Next]_vars
  BY DEF ChunksNext, AllExited, Execute, End, Serve, Next, allVars
<1>3. QED
  BY <1>1, <1>2, PTL DEF ChunksSpec, Spec
=============================================================================
