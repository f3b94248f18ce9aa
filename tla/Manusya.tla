------------------------------- MODULE Manusya -------------------------------
(***************************************************************************)
(* The chunk server: the Bank of chunks (src/manusya/bank.cc), the store   *)
(* below it (mem_store.cc or local_store.cc) and the RPC handlers above it *)
(* (manusya_service_impl.cc), with the process crashing and restarting.    *)
(*                                                                         *)
(* A handler takes Bank::_mutex to look its chunk up and lets go of it     *)
(* before it uses the chunk, so a chunk may be removed in between.  What a *)
(* chunk does with an append is the append-only log AppendLog, which Chunk *)
(* implements: accepted at the end, or refused.  A buffer is one byte, the *)
(* call that sent it.                                                      *)
(***************************************************************************)
EXTENDS Integers, Sequences, FiniteSets

CONSTANTS
  Uuids,      \* chunk ids, naturals for their order
  Calls,      \* RPC calls
  StoreKinds, \* of "memory" and "local", the schemes of --manusya_store
  Offsets,    \* offsets of appends
  Ranges,     \* ranges to read: records of an offset and a size
  Modulus,    \* of the integers of a range: 2^64 in the code
  MaxCrashes, \* bound on crashes of the process
  Torn,       \* what a buffer that was written in part leaves in the file
  Nobody      \* holder of a free mutex

ASSUME UuidsAreNat == Uuids \subseteq Nat
ASSUME KindsAreKnown == StoreKinds \subseteq {"memory", "local"}
ASSUME NobodyIsNoCall == Nobody \notin Calls
ASSUME TornIsNoCall == Torn \notin Calls
ASSUME OffsetsAreNat == Offsets \subseteq Nat
ASSUME ModulusIsPositive == Modulus \in Nat \ {0}
ASSUME RangesFit == Ranges \subseteq [offset : 0..Modulus - 1, size : 0..Modulus - 1]
ASSUME FilesFit == Cardinality(Calls) < Modulus

VARIABLES
  kind,     \* which store the server was started with
  files,    \* names in the store: keys of MemStore::_files, or the directory
  data,     \* data[u]: the bytes behind the name u, or behind a handle on it
  bank,     \* keys of Bank::_chunks
  mutex,    \* Bank::_mutex where it is held across steps: by a removal
  csize,    \* csize[u]: Chunk::_size
  cstate,   \* cstate[u]: Chunk::_state, "none" without a Chunk object
  call,     \* call[c]: the state of an RPC
  up,       \* the process runs
  crashes,
  told,     \* told[u]: the length QueryAndSealChunk told a client, or -1 (history)
  removed   \* chunks a RemoveChunk call has begun to remove (history)

vars == <<kind, files, data, bank, mutex, csize, cstate, call, up, crashes, told, removed>>

store == <<files, data>>
chunks == <<csize, cstate>>

Ops == {"none", "append", "read", "seal", "create", "remove", "list", "query"}

\* uuid: the chunk; offset, size: what an append or a read names; got: the
\* response beside its header; at: "new", "got", "done", "answered" with a status
\* in the response, "failed" by Controller::SetFailed, "lost"
NewCall == [at |-> "new", op |-> "none", uuid |-> -1, offset |-> -1, size |-> 0,
            got |-> <<>>, status |-> "none"]

Init ==
  /\ kind \in StoreKinds
  /\ files = {} /\ bank = {} /\ mutex = Nobody
  /\ data = [u \in Uuids |-> <<>>]
  /\ csize = [u \in Uuids |-> 0]
  /\ cstate = [u \in Uuids |-> "none"]
  /\ call = [c \in Calls |-> NewCall]
  /\ up = TRUE /\ crashes = 0
  /\ told = [u \in Uuids |-> -1]
  /\ removed = {}

-----------------------------------------------------------------------------
(* The store *)

\* MemStore::open and ::open(2) under LocalStore::open
OpenStatus(u, flags) ==
  IF u \in files
  THEN IF "O_EXCL" \in flags THEN "EEXIST" ELSE "OK"
  ELSE IF "O_CREAT" \in flags THEN "OK" ELSE "ENOENT"

\* MemStore::append and MemStore::size reach the file with _files[path], which
\* makes a new one when there is none; LocalStore uses the descriptor
Touch(u) == files' = IF kind = "memory" THEN files \cup {u} ELSE files

\* an unlinked file lives on behind the descriptors that are open
Erase(u) ==
  /\ files' = files \ {u}
  /\ data' = IF kind = "memory" THEN [data EXCEPT ![u] = <<>>] ELSE data

-----------------------------------------------------------------------------
(* Calls *)

Finish(c, s) == call' = [call EXCEPT ![c].at = "answered", ![c].status = s]

Fail(c, s) == call' = [call EXCEPT ![c].at = "failed", ![c].status = s]

Known == {u \in Uuids : \E c \in Calls : call[c].op = "create" /\ call[c].uuid = u}

CreatedState == "kOpen"

\* UUID::generate: a uuid nobody has seen
CreateChunk(c, u) ==
  /\ up /\ call[c].at = "new" /\ mutex = Nobody
  /\ u \notin Known
  /\ OpenStatus(u, {"O_CREAT", "O_RDWR", "O_EXCL"}) = "OK"
  /\ files' = files \cup {u}
  /\ data' = [data EXCEPT ![u] = <<>>]
  /\ csize' = [csize EXCEPT ![u] = 0]
  /\ cstate' = [cstate EXCEPT ![u] = CreatedState]
  /\ bank' = bank \cup {u}
  /\ call' = [call EXCEPT ![c] = [NewCall EXCEPT !.at = "answered", !.op = "create",
                                                 !.uuid = u, !.got = <<u>>, !.status = "OK"]]
  /\ UNCHANGED <<kind, mutex, up, crashes, told, removed>>

\* mutant: the chunk is in _chunks before its file is open
CreateFailsListed(c) ==
  \E u \in Uuids \ Known :
    /\ up /\ call[c].at = "new" /\ mutex = Nobody
    /\ bank' = bank \cup {u}
    /\ call' = [call EXCEPT ![c].at = "answered", ![c].op = "create", ![c].uuid = u,
                            ![c].status = "EIO"]
    /\ UNCHANGED <<kind, store, mutex, chunks, up, crashes, told, removed>>

\* Store::open fails for another reason
CreateFails(c) ==
  /\ up /\ call[c].at = "new" /\ mutex = Nobody
  /\ call' = [call EXCEPT ![c].at = "answered", ![c].op = "create", ![c].status = "EIO"]
  /\ UNCHANGED <<kind, store, bank, mutex, chunks, up, crashes, told, removed>>

\* the appends on u that were answered OK
Acked(u) == {a \in Calls : /\ call[a].op = "append" /\ call[a].uuid = u
                           /\ call[a].at = "answered" /\ call[a].status = "OK"}

\* AppendChunk, ReadChunk, QueryAndSealChunk and QueryChunk begin with
\* Bank::get_chunk
GetChunk(c, op, u, offset) ==
  /\ up /\ call[c].at = "new" /\ mutex = Nobody
  /\ u \in Known
  /\ call' = [call EXCEPT ![c] = [NewCall EXCEPT !.op = op, !.uuid = u, !.offset = offset,
       !.at = IF u \in bank THEN "got" ELSE IF op = "seal" THEN "failed" ELSE "answered",
       !.status = IF u \in bank THEN "none" ELSE "ENOENT"]]
  /\ UNCHANGED <<kind, store, bank, mutex, chunks, up, crashes, told, removed>>

Using(c, op) == up /\ call[c].at = "got" /\ call[c].op = op

\* mutant: _size is not advanced
AppendSizeKept(c) ==
  LET u == call[c].uuid IN
  /\ Using(c, "append")
  /\ cstate[u] = "kOpen"
  /\ call[c].offset = csize[u]
  /\ Touch(u)
  /\ data' = [data EXCEPT ![u] = Append(@, c)]
  /\ call' = [call EXCEPT ![c].at = "done", ![c].status = "OK"]
  /\ UNCHANGED <<kind, bank, mutex, chunks, up, crashes, told, removed>>

\* mutant: an offset below the end is accepted too
AppendAnywhere(c) ==
  LET u == call[c].uuid IN
  /\ Using(c, "append")
  /\ cstate[u] = "kOpen"
  /\ call[c].offset <= csize[u]
  /\ Touch(u)
  /\ data' = [data EXCEPT ![u] = Append(@, c)]
  /\ csize' = [csize EXCEPT ![u] = @ + 1]
  /\ call' = [call EXCEPT ![c].at = "done", ![c].status = "OK"]
  /\ UNCHANGED <<kind, bank, mutex, cstate, up, crashes, told, removed>>

\* Chunk::append at the end of an open chunk; the answer leaves in another step
Append1(c) ==
  LET u == call[c].uuid IN
  /\ Using(c, "append")
  /\ cstate[u] = "kOpen"
  /\ call[c].offset = csize[u]
  /\ Touch(u)
  /\ data' = [data EXCEPT ![u] = Append(@, c)]
  /\ csize' = [csize EXCEPT ![u] = @ + 1]
  /\ call' = [call EXCEPT ![c].at = "done", ![c].status = "OK"]
  /\ UNCHANGED <<kind, bank, mutex, cstate, up, crashes, told, removed>>

\* sealed, wrong offset, a timeout in the queue (also of a chunk sealed
\* meanwhile), or the store fails
AppendRefused(c) ==
  /\ Using(c, "append")
  /\ \E e \in {"EINVAL", IF cstate[call[c].uuid] = "kSealed" THEN "EPERM" ELSE "EIO"} :
       Finish(c, e)
  /\ UNCHANGED <<kind, store, bank, mutex, chunks, up, crashes, told, removed>>

\* the response has the chunk's _size of that moment
Respond(c) ==
  /\ up /\ call[c].at = "done"
  /\ call' = [call EXCEPT ![c].at = "answered", ![c].got = <<csize[call[c].uuid]>>]
  /\ UNCHANGED <<kind, store, bank, mutex, chunks, up, crashes, told, removed>>

\* Chunk::query_and_seal: the length comes from the store
QueryAndSeal(c) ==
  LET u == call[c].uuid IN
  /\ Using(c, "seal")
  /\ Touch(u)
  /\ cstate' = [cstate EXCEPT ![u] = "kSealed"]
  /\ told' = [told EXCEPT ![u] = Len(data[u])]
  /\ call' = [call EXCEPT ![c].at = "answered", ![c].status = "OK", ![c].got = <<Len(data[u])>>]
  /\ UNCHANGED <<kind, data, bank, mutex, csize, up, crashes, removed>>

\* fchmod or fstat fails
QueryAndSealFails(c) ==
  /\ kind = "local"
  /\ Using(c, "seal")
  /\ Finish(c, "EIO")
  /\ UNCHANGED <<kind, store, bank, mutex, chunks, up, crashes, told, removed>>

\* mutant: Chunk::read leaves the range to the store
OutOfRangeUnchecked(u, offset, size) == FALSE

\* the end of the range is computed modulo 2^64
OutOfRange(u, offset, size) == (offset + size) % Modulus > csize[u]

\* Chunk::read, by the file's name; LocalStore::read refuses an offset it cannot
\* seek to and a short read, MemStore::read returns the bytes there are
Read(c, offset, size) ==
  LET u == call[c].uuid IN
  /\ Using(c, "read")
  /\ CASE OutOfRange(u, offset, size) -> Fail(c, "EINVAL")
       [] OpenStatus(u, {"O_RDONLY"}) # "OK" -> Fail(c, "ENOENT")
       [] kind = "local" /\ Len(data[u]) < offset + size -> Fail(c, "EINVAL")
       [] OTHER -> call' = [call EXCEPT ![c].at = "answered", ![c].status = "OK",
            ![c].offset = offset, ![c].size = size,
            ![c].got = [i \in {k \in 1..size : offset + k <= Len(data[u])} |-> data[u][offset + i]]]
  /\ UNCHANGED <<kind, store, bank, mutex, chunks, up, crashes, told, removed>>

\* QueryChunk reads Chunk::_size and then Chunk::_state, without the mutex
QuerySize(c) ==
  /\ Using(c, "query") /\ call[c].got = <<>>
  /\ call' = [call EXCEPT ![c].got = <<csize[call[c].uuid]>>]
  /\ UNCHANGED <<kind, store, bank, mutex, chunks, up, crashes, told, removed>>

QueryState(c) ==
  /\ Using(c, "query") /\ call[c].got # <<>>
  /\ call' = [call EXCEPT ![c].at = "answered", ![c].status = "OK",
                          ![c].got = Append(@, cstate[call[c].uuid])]
  /\ UNCHANGED <<kind, store, bank, mutex, chunks, up, crashes, told, removed>>

\* Bank::list_chunk: from the lower bound of start, at most limit
ListChunk(c, start, limit) ==
  LET after == {u \in bank : u >= start} IN
  /\ up /\ call[c].at = "new" /\ mutex = Nobody
  /\ call' = [call EXCEPT ![c] = [NewCall EXCEPT !.at = "answered", !.op = "list",
       !.status = "OK",
       !.got = <<{u \in after : Cardinality({v \in after : v < u}) < limit}>>]]
  /\ UNCHANGED <<kind, store, bank, mutex, chunks, up, crashes, told, removed>>

\* mutant: the file goes first and the bank keeps the chunk
RemoveKeepsEntry(c, u) ==
  /\ up /\ call[c].at = "new" /\ mutex = Nobody
  /\ u \in bank
  /\ mutex' = c
  /\ removed' = removed \cup {u}
  /\ call' = [call EXCEPT ![c].op = "remove", ![c].uuid = u, ![c].at = "got"]
  /\ UNCHANGED <<kind, store, bank, chunks, up, crashes, told>>

\* Bank::remove_chunk holds the bank's mutex over both of its steps
RemoveErase(c, u) ==
  /\ up /\ call[c].at = "new" /\ mutex = Nobody
  /\ u \in bank
  /\ mutex' = c
  /\ bank' = bank \ {u}
  /\ removed' = removed \cup {u}
  /\ call' = [call EXCEPT ![c].op = "remove", ![c].uuid = u, ![c].at = "got"]
  /\ UNCHANGED <<kind, store, chunks, up, crashes, told>>

RemoveMissing(c, u) ==
  /\ up /\ call[c].at = "new" /\ mutex = Nobody
  /\ u \in Known \ bank
  /\ call' = [call EXCEPT ![c].op = "remove", ![c].uuid = u, ![c].at = "answered",
                          ![c].status = "ENOENT"]
  /\ UNCHANGED <<kind, store, bank, mutex, chunks, up, crashes, told, removed>>

\* the result of Store::remove is dropped: LocalStore::remove may have failed
RemoveFile(c) ==
  /\ Using(c, "remove") /\ mutex = c
  /\ Erase(call[c].uuid) \/ (kind = "local" /\ UNCHANGED store)
  /\ mutex' = Nobody
  /\ Finish(c, "OK")
  /\ UNCHANGED <<kind, bank, chunks, up, crashes, told, removed>>

-----------------------------------------------------------------------------
(* The process *)

\* what is left when the process dies with contents in the files
Die(contents) ==
  /\ up /\ crashes < MaxCrashes
  /\ up' = FALSE /\ crashes' = crashes + 1
  /\ bank' = {} /\ mutex' = Nobody
  /\ csize' = [u \in Uuids |-> 0]
  /\ cstate' = [u \in Uuids |-> "none"]
  /\ files' = IF kind = "memory" THEN {} ELSE files
  /\ data' = IF kind = "memory" THEN [u \in Uuids |-> <<>>] ELSE contents
  /\ call' = [c \in Calls |-> IF call[c].at \in {"got", "done"}
                              THEN [call[c] EXCEPT !.at = "lost"] ELSE call[c]]
  /\ UNCHANGED <<kind, told, removed>>

Crash == Die(data)

\* mutant: a short write passes for a whole one
AppendTornServed(c) ==
  LET u == call[c].uuid IN
  /\ Using(c, "append") /\ kind = "local"
  /\ cstate[u] = "kOpen" /\ call[c].offset = csize[u]
  /\ data' = [data EXCEPT ![u] = Append(@, Torn)]
  /\ csize' = [csize EXCEPT ![u] = @ + 1]
  /\ Finish(c, "OK")
  /\ UNCHANGED <<kind, files, bank, mutex, cstate, up, crashes, told, removed>>

\* write(2) takes a part of the buffer: BOOST_ASSERT(nw == buf_size) ends the
\* process, as does a crash in the middle of the write
AppendTorn(c) ==
  LET u == call[c].uuid IN
  /\ Using(c, "append") /\ kind = "local"
  /\ cstate[u] = "kOpen" /\ call[c].offset = csize[u]
  /\ Die([data EXCEPT ![u] = Append(@, Torn)])

\* mutant: load opens what exists, and does not seal it
LoadUnsealed ==
  /\ ~up
  /\ up' = TRUE
  /\ bank' = files
  /\ csize' = [u \in Uuids |-> Len(data[u])]
  /\ cstate' = [u \in Uuids |-> IF u \in files THEN "kOpen" ELSE "none"]
  /\ UNCHANGED <<kind, store, mutex, call, crashes, told, removed>>

\* Bank::load, before the server starts: Chunk::create on every name in the
\* store, then query_and_seal
Loaded == {u \in files : OpenStatus(u, {"O_CREAT", "O_RDWR", "O_EXCL"}) = "OK"}

Load ==
  /\ ~up
  /\ up' = TRUE
  /\ bank' = Loaded
  /\ csize' = [u \in Uuids |-> IF u \in Loaded THEN Len(data[u]) ELSE 0]
  /\ cstate' = [u \in Uuids |-> IF u \in Loaded THEN "kSealed" ELSE "none"]
  /\ UNCHANGED <<kind, store, mutex, call, crashes, told, removed>>

-----------------------------------------------------------------------------
Handler(c) ==
  \/ CreateFails(c) \/ Append1(c) \/ AppendRefused(c) \/ Respond(c)
  \/ AppendTorn(c)
  \/ QueryAndSeal(c) \/ QueryAndSealFails(c) \/ QuerySize(c) \/ QueryState(c)
  \/ RemoveFile(c)
  \/ \E r \in Ranges : Read(c, r.offset, r.size)
  \/ \E u \in Uuids :
       \/ CreateChunk(c, u) \/ RemoveErase(c, u) \/ RemoveMissing(c, u)
       \/ \E op \in {"read", "seal", "query"} : GetChunk(c, op, u, -1)
       \/ \E offset \in Offsets : GetChunk(c, "append", u, offset)
       \/ \E limit \in 0..Cardinality(Uuids) : ListChunk(c, u, limit)

\* every call is answered or lost
Finished ==
  /\ up /\ \A c \in Calls : call[c].at \in {"answered", "failed", "lost"}
  /\ UNCHANGED vars

Next == (\E c \in Calls : Handler(c)) \/ Crash \/ Load \/ Finished

Spec == Init /\ [][Next]_vars

-----------------------------------------------------------------------------
(* Properties *)

\* A chunk the bank gives out has a file, as long as the chunk's _size says,
\* whatever removals and appends on other handles did meanwhile.
ServedHasFile == \A u \in bank : u \in files /\ Len(data[u]) = csize[u]

\* a removal or a crash leaves the memory store nothing, not even behind handles
Gone(u) == kind = "memory" /\ (u \in removed \/ crashes > 0)

\* An append answered OK is in the file of its chunk at its offset, in a local
\* store also after a crash, unless the chunk was removed.
AckedDurable ==
  \A u \in Uuids \ removed : \A c \in Acked(u) : Gone(u) \/
    /\ u \in files
    /\ call[c].offset < Len(data[u])
    /\ data[u][call[c].offset + 1] = c

\* No append, restart or second seal moves the length a QueryAndSealChunk
\* returned, in a local store also when the chunk is removed under the call.
ToldLengthFinal == \A u \in Uuids : told[u] # -1 /\ ~Gone(u) => Len(data[u]) = told[u]

\* A read that succeeds returned the bytes the chunk has in its range and no
\* others: all of them, or those before the end when the end of the range wraps
\* round; in a local store also when the chunk is removed under it.
ReadExact ==
  \A c \in Calls :
    LET r == call[c] IN
    r.op = "read" /\ r.status = "OK" /\ ~Gone(r.uuid) =>
      /\ r.offset + r.size < Modulus => DOMAIN r.got = 1..r.size
      /\ \A k \in DOMAIN r.got : r.got[k] = data[r.uuid][r.offset + k]

\* What a file holds was put there by appends that named that place of it, also
\* when they were never answered, so an append that is sent again is not stored
\* twice; a buffer written in part ends its file.
StoredAtOffset ==
  \A u \in {v \in Uuids : ~Gone(v)} : \A i \in DOMAIN data[u] :
    LET w == data[u][i] IN
    IF w = Torn THEN i = Len(data[u])
    ELSE call[w].uuid = u /\ call[w].offset = i - 1

\* A chunk that is served holds whole buffers: a short write never counts.
NoTornServed == \A u \in bank : \A i \in DOMAIN data[u] : data[u][i] # Torn

\* "chunk should be sealed when loaded": after a restart each file of the store
\* is a sealed chunk again.
LoadServesFiles ==
  [][~up /\ up' => \A u \in files : u \in bank' /\ cstate'[u] = "kSealed"]_vars
=============================================================================
