# Verification of pain

Pain is a distributed storage system in C++: chunk servers keep append-only
chunks, a replicated metadata service keeps the names of files, a topology
service knows the servers, and an SDK ties them together for applications. This
directory holds TLA+ models of these parts, the TLC runs that check them on
small instances, and TLAPS proofs of their safety for instances of every size.
Paths below are relative to the repository, whose C++ code is in its `src/` and
`include/`.

## The system

| part | state | operations |
|---|---|---|
| **Chunk** (`src/manusya/chunk.cc`) | `_size`, `_state`, the file, a queue of waiting appends, one timer per waiting append | append, the loop in it that serves the queue, timer callback, query_and_seal, read, unlocked `size()` and `state()` |
| **Bank and handlers of manusya** (`bank.cc`, `manusya_service_impl.cc`) | the map of chunks; handlers hold a chunk after they let go of the map's mutex | create, get, remove, list, load at start; CreateChunk, AppendChunk, ReadChunk, QueryAndSealChunk, QueryChunk, ListChunk, RemoveChunk |
| **Stores** (`mem_store.cc`, `local_store.cc`) | files by name; bytes behind open handles | open, append, read, seal, size, remove, for_each |
| **Namespace** (`src/deva/namespace.cc`) | per directory a list of entries | create, remove, lookup, list |
| **Metadata service deva** (`deva_service_impl.cc`, `bridge.h`, `container_op.*`, `op.*`, `rsm.cc`, `deva.cc`) | braft's log, a namespace per replica, closures that wait for their entry | OpenFile, Mkdir (the other handlers are empty), on_apply, closures, snapshots |
| **RocksdbStore** (`src/common/rocksdb_store.cc`) | database with its memtable, data directory, backup, checkpoint | open, close, hset, hexists, hgetall, check_point, recover |
| **Topology service asura** (`asura_service_impl.cc`) | two hashes in the store | RegisterDeva, RegisterManusya, ListDeva, ListManusya |
| **SDK** (`src/pain/file_system.cc`, `src/deva/sdk`) | braft's route table, shared by all callers | FileSystem::create, open, remove, mkdir through call_rpc |
| **sad** (`src/sad`) | one command per process | seven commands for chunks, four for the topology |
| **Future and Promise** (`include/pain/base/future.h`) | a shared state per promise | construct, move, set, destroy, get, make_ready_future |
| **Context storage and tracing** (`src/base/bthread_local_context_storage.cc`, `tracer.cc`, `macro.h`) | a stack of contexts per bthread | Attach, Detach, the scopes of SPAN and DEFINE_SPAN, inject and extract |

Interactions: handlers run in bthreads of their own and meet in the mutexes of
Bank, Chunk and Namespace. An append that waits, and a handler that has proposed
an operation, sleep in `Future::get`. The SDK finds the leader of deva through
the list asura keeps. sad sends one request to a chunk server or to asura and
prints the answer. Every handler opens tracing scopes, waits inside them, and
passes its trace on. Chunk servers do not talk to deva yet.

The behaviours that are hard to test, and that the models contain: appends
arriving in any order with a queue, a draining loop and timers racing for the
same requests; seals between them; a chunk removed while a handler uses it;
crashes of the chunk server, of replicas and of the topology service between any
two steps; leaders that step down with operations in flight; closures that run
late and in another order than the log; a recovery that fails or dies half way;
short writes; ranges whose end wraps round; requests that their timer outlives;
calls that fail after they were executed, and requests that arrive after their
sender has given up; scopes that stay open while other bthreads run, and the
storage of a finished bthread that the next one gets. `PROJECT.json` lists them, with the
line at which each one bites, under `hazards`.

What each part has to get right:

- Chunk: an OK is true for ever, a refusal leaves nothing, nobody waits for ever,
  the sealed length is final.
- Chunk server: the same through the bank, across removals and restarts.
- Namespace: a path leads to what it denotes, whatever happened around it.
- Deva: an operation takes effect once, an acknowledged one on every replica that
  applied it, replicas agree, clients are answered.
- Topology: what is registered is listed; a recovery is all or nothing.
- SDK: a request is executed at most once, and calls return.
- sad: what a command prints is true; it loses track only of what was not answered.
- Future: what is set is what arrives, and waiting ends when something is set.
- Contexts: a handler finds its own scopes and stays in its own trace.

## Modules

| module | models | runs | theorems |
|---|---|---|---|
| `AppendLog` | abstract specification of a chunk: an append-only log | through `Chunk` | |
| `Chunk`, `MCChunk` | one chunk with its concurrent handlers | ChunkSafety, ChunkLive | `ChunkProofs` |
| `Manusya`, `MCManusya` | bank, stores, handlers, crash and restart | ManusyaCrash, ManusyaLoad | `ManusyaProofs` |
| `Sad` | one run of sad: a request, a timeout, an exit code | through the next two | |
| `SadChunks`, `MCSadChunks` | sad composed with `Manusya` | SadChunks | `ManusyaProofs` |
| `SadTopology`, `MCTopology` | sad composed with `Asura` | Topology | `TopologyProofs` |
| `NamespaceOps` | the namespace's operations as functions of its table | through the next two | `NamespaceOpsProofs` |
| `Namespace`, `MCNamespace` | concurrent callers of Deva::create and Namespace::remove | NamespaceTree | `NamespaceProofs` |
| `OpLog` | abstract specification of deva: one log of operations and its answers | through `Deva` | |
| `Deva`, `MCDeva` | replicated operations on a namespace per node | DevaFiles, DevaLive, DevaDecode | `DevaProofs` |
| `RocksdbStore` | hashes, checkpoints, recovery | through `Asura` | `TopologyProofs` |
| `Asura` | registrations over `RocksdbStore` | through `SadTopology` | `TopologyProofs` |
| `Client`, `MCClient` | FileSystem, call_rpc and its callers | ClientCalls | `ClientProofs` |
| `Future` | promises and futures | through `Handlers` | `HandlersProofs` |
| `ContextStorage` | the stack of contexts as an array that doubles | through `Handlers` | `HandlersProofs` |
| `Handlers`, `MCHandlers` | handlers with scopes that wait on futures | Handlers | `HandlersProofs` |

`map` in `PROJECT.json` gives the source lines of every definition. Operators
marked "mutant" are plausible bugs; each one, put in place of the definition it
stands before, makes a property fail (the pairs are in `PROJECT.json`).

### Chunk

A byte of the file is the request that wrote it. `Chunk::append` is one action
for each way it goes: `AppendSealed`, `AppendBelowEnd`, `AppendWait`,
`AppendAtEnd`, `AppendAtEndFails`. The mutex is a variable only where it is held
across steps, by the loop: each iteration is a step (`DrainBelowEnd`,
`DrainAtEnd`, `DrainAtEndFails`, `DrainEnd`), so that the unlocked reads
(`Respond`, `QuerySize`, `QueryState`) fall between them. `Insert` keeps what
`boost::intrusive::set` does with a second request of the same offset: it is not
linked, and only its timer answers it. `Timeout` is the timer callback as a
whole. A store call succeeds or fails and writes nothing. `refs` is the count of
references to a request that waits: one of its caller, one taken for the timer.
The count is a plain `int` that the caller lowers without the mutex, so where both
release at once a decrement may be lost (`Released`). A callback that finds the
request answered returns without its release, as in the code: such a request is
never deleted.

`AppendLog` says what all this is for: a request is accepted, whole, exactly
when the log ends at its offset, or refused without a trace; once; and never
after the seal. The refinement maps the log to the file and the answers to the
promises.

### Manusya

One uuid per created chunk, calls that look their chunk up (`GetChunk`) and use
it in a later step, `RemoveChunk` in the two steps of `Bank::remove_chunk`, and
the process that crashes at any point and runs `Load`. What a chunk does with an
append is taken from `AppendLog`. `kind` is the store: the memory store forgets
everything in a crash and re-makes a removed file when an old handle touches it
(`Touch`), the local store keeps data behind open descriptors (`Erase`).

`Read` takes any range. `OutOfRange` computes its end modulo `Modulus`, 2^64 in
the code and small in the runs; the assumption `FilesFit` says that no file gets
that long. `AppendTorn` is a write that takes a part of the buffer: the assertion
behind it ends the process, and the part stays in the file of a local store.

### Sad, SadChunks, SadTopology

`Sad` is what all commands have in common: arguments that are refused, a channel
that cannot be made, a request without retry, and then an answer that is printed
with its header, an error set with `SetFailed`, or an error of the channel: a
timeout, or a connection that broke or was refused. The network is external: as
long as a request was sent the server may meet it, also after sad has exited.
`SadChunks` lets the handlers of `Manusya` begin only on such requests, and
`SadTopology` does the same for two calls of `Asura`, next to other clients that
choose the ids they register. sad exits with 0 whenever there is an answer, also
one with an error in its header; what counts as its word is the printed status and
the response printed with it: the id, the offset, the bytes, the sealed length, the
list of chunks.

### NamespaceOps, Namespace, Deva

A path is the sequence of its components. Lookup (`Walk`) and removal (`Kept`)
go through a path and a list one element at a time, as recursive functions.
`Namespace` splits `Deva::create` at
the point where the mutex is free between lookup and insertion, and compares
every lookup with a second, independent account of the tree (`tree`).
`Namespace::remove` has no caller in deva yet; it is called here the way its
interface suggests, with the inode of a directory that was looked up.

`Deva` has one namespace per node and braft as an environment: the leader accepts
tasks, entries are committed with a quorum, an election keeps or loses what is
uncommitted and fails the closures of the old leader, and a restart replays from
the last snapshot. On the node that has the closure, the closure runs in a
bthread of its own (`RunClosure`), because `AsyncClosureGuard` starts one;
elsewhere `OnApply` decodes and applies on the spot, and stops the process on an
operation `decode` has no branch for. Snapshots save and load nothing, as in the
code, and every node may take one at any time, as the timer that `Rsm::start` sets
does. The history `skipped` has the entries a node is past only because it loaded,
or started from, such a snapshot.

`OpLog` says what clients are promised, without nodes and leaders: an operation
that was taken in enters one log at most once and stays in its place, one that
was turned away never does; an outcome is told only of an operation in the log;
no operation is dropped while its client waits for it; nobody is answered twice.
A failure says nothing of the operation, which may enter the log afterwards. The
refinement maps that log to the operations of braft's log, and what may still
enter to the entries that are proposed and not committed. It says nothing of the
namespaces: those are the invariants of `Deva`.

### RocksdbStore, Asura

Three directories (data, backup, checkpoint), the open database, and `recover`
step by step with the two rollbacks its scope guards run. RocksDB and the file
system are external: an operation succeeds or fails as a whole. Writes bypass
the log, so a crash loses what was not flushed. `Asura` puts the handlers on top;
a registration is two steps, `Check` and `StoreEntry`. `RegisterManusya` keeps
the test the code has, which refuses servers that are not there yet. `hexists`
takes a read that failed for "not there", so a server may be stored over itself.
`recover` may also fail in its first step, with the database open. Recovery has
no caller outside the tests, so `Asura` runs it while no registration is under
way.

### Client

`CreateFs` puts the servers asura lists into the route table, under the feet of
callers that are using it. The loop of `call_rpc` is one action per step, for
several callers; the network may lose the answer of a request that was executed.
Servers answer with a status in the header, which neither `call_rpc` nor
`FileSystem::open` looks at; `FileInfo` is what open puts into its stream then.

### Future, ContextStorage, Handlers

`Future` is the shared state with its condition variable: `Sleep` and `GetReturn`
are the two ways out of the test in `get`, `WakeSpuriously` the wait that ends by
itself. `MakeReady` is `make_ready_future`, with which every store answers.

`ContextStorage` has the array of the stack with its unused slots, and `Push`,
`Pop`, `Resize` and `Detach` on it. `Handlers` gives each handler a key table, the
place where bthread-local data is found; brpc hands the table of a bthread that
has ended to another one (external). A handler begins under the trace its
request carries, opens and leaves scopes, waits in `get` in between, and sends
requests of its own with its current trace.

## Runs

| run | instance | shows |
|---|---|---|
| ChunkSafety | 3 appends with offsets and lengths 0..2, 2 seals | the invariants of the chunk, that the file is exactly the acknowledged appends at the offsets they asked for, that no request is used after it is freed, that nothing is answered twice, and that it implements `AppendLog` |
| ChunkLive | 3 appends of length 1, a seal, a query; fair | every append that waits is answered; a query after the seal is exact |
| ManusyaCrash | 5 calls on one chunk, either store, 1 crash or short write | acknowledged appends stay, files hold nothing but what was appended there, sealed lengths stay, reads are exact, served chunks are whole |
| ManusyaLoad | 2 calls, local store, 1 crash | *violated*: a restart serves none of its files |
| SadChunks | 3 commands, either store, 1 crash | the response a command prints is true, also afterwards; chunks are lost track of only by commands that were not answered |
| NamespaceTree | 2 callers, 2 names, 4 inodes, depth 3 | lookup follows the tree |
| DevaFiles | 3 nodes, 3 operations (a directory, a file in it, a file of the same name), 2 elections, snapshots, deaths in `decode` | operations take effect once, acknowledged ones are there, replicas that processed the same entries agree |
| DevaLive | 2 nodes, 2 operations, elections, a crash, snapshots; fair | accepted tasks are answered, replicas agree also on the order of equal names, and deva implements `OpLog` |
| DevaDecode | 2 operations, one a directory | *violated*: a follower meets an operation `decode` does not know |
| Topology | 2 commands, 1 other call, 2 servers, 1 crash | registered servers are listed, refused ones are nowhere; recover is all or nothing and keeps a whole copy |
| ClientCalls | 2 callers with 2 calls each, 2 peers; fair | executed at most once; every call returns |
| Handlers | 2 handlers, 2 key tables, 2 promises, scopes 3 deep; fair | get returns what was set, and returns once something is set or the promise is gone; stacks are the scopes, traces stay apart, Detach restores |

**Bounds.** Three appends are enough for the queue to hold two while a third one
drains, to be drained in a chain, to be overtaken by a longer write (lengths 0
and 2) and to share an offset. Two seals compare two answers. Five calls create,
append twice, seal or remove, and read around a crash. Depth 3 puts a directory
in a directory; four inodes allow names to be used again after a removal. Three
replicas are the smallest group that survives a crash; two elections let
leadership return. A directory and a file in it can be proposed in either order,
so that a closure overtakes another one that it depends on. DevaFiles has no
crashes of its own: its nodes die in `decode`, restart, and start from snapshots.
The same instance with a crash as well (3.2 million states, five minutes), and with
two directories or one in the other (a million states each), passes too. With one
crash recover can die at each of its steps. `Modulus`
is 8 with ranges that end within the file, behind it and behind the modulus. Three
commands create, append and append again, or remove. Three scopes make the array
of a stack grow twice (to 2 and to 6 slots) and give Detach a middle.
Every counter that could grow is bounded by a named constant (`MaxCrashes`,
`MaxElections`, `MaxCalls`, `MaxDepth`).

**Symmetry** is used for requests, calls, nodes and ids in runs without liveness
only.

**Fairness.** Chunk: a bthread that can run does, and a timer that is due fires;
no client is obliged to send anything. Deva: a process is started again, braft
commits with a leader and a quorum and applies what is committed, bthreads run;
no election is assumed. Client: an RPC ends, if only by its timeout
(`timeout_ms`). Handlers: a bthread that can go on in `get` does. Nothing is assumed
of the owner of a promise: `Rsm::apply` without a node returns with the closure
neither run nor deleted, so that the promise in it is never set and never destroyed.
`GetReturns` therefore speaks of a state that is set or broken, and `Deva` gives such
a request the answer "hangs".

**Deadlock** is checked in every run. The modules have a stuttering step for the
state in which all calls are over.

## Where the code differs

Two runs show the code at odds with what it says of itself (`findings`):

1. *ManusyaLoad.* `Bank::load` creates each chunk with `O_EXCL` over its existing
   file, fails and goes on; the comment expects sealed chunks.
2. *DevaDecode.* `Mkdir` proposes an operation that `decode` does not know; its
   assertion stops every replica that applies it without the closure.

Others are in the models as the code has them; a property bounds what they do, or
the note of a hazard says what is left:

- Two appends wait for one offset; the second is never linked. Five seconds later
  it gets "invalid offset", although the chunk may end exactly there because the
  first one failed or timed out. It is answered, and nothing of it is stored.
- The sum in the range check of `read` wraps round; what a read returns is still
  exact, because the stores look again.
- A request that was answered before its timer is due is never freed.
- The closures of a leader run in any order. A file whose entry is ahead of the
  entry that makes its directory can be acknowledged, because on the leader the
  directory's closure ran first; a replica that follows the log does not get the
  file. Two files of one name can be listed in another order, so that lookup finds
  another one. `AckedVisible` and `CaughtUpAgree` allow exactly these cases.
- Snapshots save nothing. A node that starts from one lacks the files before it, and
  what is in the directories among them; `AckedVisible` allows no other loss.
- `RegisterManusya` tests `!hexists` (`src/asura/asura_service_impl.cc`, line 55) and
  answers a server that is not there with "{} existed": no manusya is ever
  registered, and `ListManusya` is always empty.
- `FileSystem::open` does not look at the header of the answer; the stream it
  returns then names no file.
- The size a query returns while a seal goes on, the leader of the wrong group that
  `call_rpc` clears, the exit code of sad.

## Proofs

Every theorem holds for any number of processes, calls, servers and files, from
the assumptions on the constants that the modules name. All follow one pattern:
an invariant that holds initially, that each action keeps (one step or lemma per
action), and that implies the properties the runs check.

### The chunk

`ChunkProofs` proves for any number of requests, seals and queries and any
offsets and lengths, from the assumptions of `Chunk` (offsets and lengths are
naturals, the free mutex is no request):

- `TypeCorrect`: the type invariant (the other invariants below have their types as
  a conjunct, so no run checks types by themselves);
- `AnswersAreTrue`: an OK has its bytes at its offset, the returned offset covers
  the append;
- `AppendsMakeTheFile`: each byte of the file is that of the one append that asked
  for its place and was told OK, so acknowledged appends do not overlap and leave
  no gap, and refused ones left nothing;
- `FileOnlyGrows`: no step changes or takes back a byte, and none is added after
  the seal;
- `WaitersAreAnswerable`: an append that waits unanswered has its timer armed,
  linked or not: if nobody else answers it, its timer callback is still to come;
- `NoLostWakeup`: the loop leaves no request it could have served, and `_size` is
  the length of the file;
- `RequestsOutliveUse`: caller, queue and timer find a request undeleted;
- `SealIsFinal`: the length a seal returned does not change;
- `NeverAnsweredTwice`: loop and timer answer a request at most once;
- `QueriesAreExact`: a query that begins after the seal reports the final size;
  `ReadsFinal` is what it has read so far, and `SealedStays` why that stays true;
- `Refinement`: the chunk implements `AppendLog`.

None of these is inductive alone. `IndInv` is the conjunction of a control part
and a data part. *Control*: types; the mutex is held
exactly by the append that drains (`HolderDrains`); a linked request waits and is
undecided (`QueuedUndecided`); where an append is tells what its answer and its
timer can be (`AnswerFollowsPlace`); a sealed chunk is not being drained
(`SealedIsFree`); a seal that succeeded has sealed it (`SealedByCall`); an offset
is returned with an OK only (`RepliedIsOK`); a request that waits with its timer
armed has both of its references (`RefsCounted`). It is preserved
by itself (`ControlStep`). *Data*: the queue is ahead of the end when the mutex is
free, `_size` is the file's length, answers and bytes agree, and a sealed chunk's
lengths are the file's. Its step (`DataStep`) needs the control part: a write
happens only for a request without an answer, so that the bytes of an answered
one are never joined by others of the same name, and only in an open chunk, so
that a sealed length stands. `WriteFacts` and `WriteKeepsData` are the one
argument about sequences, shared by the direct append and the loop. The
refinement goes through the actions one by one: writes are `Accept`, refusals and
timeouts are `Refuse`, seals `SealLog`, the rest stutters. `FileOnlyGrows`, and
that every byte lies where its request asked for it (`BytesInPlace`), are then read
off `AppendLog`, whose steps are few (`LogGrows`); the invariant adds that the bytes
are those of acknowledged requests.

### The chunk server and sad

`ManusyaProofs` proves `ServedIsWhole`, `AppendsAreKept`, `SealIsFinal` and
`ReadsAreExact` for any modulus that no file reaches. `ManusyaInv` says of each
chunk (`ChunkInv`) that the object, its file and the history agree: a chunk with
an object has a file or is being removed, `_size` is the length of the file unless
a memory store has dropped the bytes, the file holds appends at their places, and
after a seal the object is not open again. It says of each call (`CallInv`) what
it may rely on between its steps: a handler that holds a chunk has an object
that was created, an append that is done has its byte in the file. Most handlers
change one call only (`OnlyCallKeeps`) or one chunk (`OneChunkKeeps`). A crash is
the step that disturbs everything at once (`DieKeeps`, also for short writes).
`NoWrap` is the arithmetic: a sum that wraps is larger than any file.

For sad it adds that what an answer says stays true (`DoneInv`, by what no
step takes back, `Kept`) and that a command's exit follows its call
(`CommandInv`); it proves `ShownIsTrue`, `LostOnlyUnanswered`, and, as
`SadUsesManusya`, that the composition is a behaviour of the server, so that the
theorems about `Manusya` hold of it.

### The topology service and its store

`TopologyProofs` proves `RecoverIsSafe`, `RecoverIsAtomic`, `ListsAreRight` and
`SadUsesAsura`. `Where` says in which directory the old data and the checkpoint
are at each step of recover. Every set of entries, in memory or on disk, is one
that was there before or the open database with one more registration
(`MovesMakeNothing`); so entries come from calls that were not refused
(`StoredInv`), and a `checked` call is never one of `RegisterManusya`, whose test
fails on an empty hash. `RegisteredInv` follows the registered servers through
the places where they are while no database is open.

### The SDK

`ClientProofs` proves `CallsAreExact`: how often a request went out follows from
where its caller is, since no path of `call_rpc` leads from behind the call back
into the loop; other callers touch the route table only (`OthersAlone`).

### Futures, contexts and handlers

`HandlersProofs` proves `FutureIsFaithful`: a state has one promise that is alive
(`OneHolder`) and one future (`OneFuture`), and its value stays until that future
has taken it (`ValueKept`). `NobodySleepsInVain` is the same argument seen from the
waiting side: who sleeps in `get` sleeps on a state that is not set, and that state
has a promise which is alive and will set or break it. For the handlers it first proves what `Push` and `Detach`
do to a stack that holds given contexts, across resizing (`PushFacts`,
`DetachFacts`). Then a bthread in a scope has a key table to itself (`OwnTable`)
and contexts that differ (`ByDepth`), which gives `ContextsFollowScopes` and
`DetachIsRight`. `HandlersUseFutures` shows that the composition is a behaviour of
`Future`.

### The namespace

`NamespaceOpsProofs` has the facts about the operations that both users of the
namespace need, for tables and paths of any size. The recursive functions of
lookup and removal exist and satisfy their equations (`WalkEquation`,
`KeptEquation`). Lookup takes the first entry of each component's name
(`StepFinds`), and where every list says in which directory it is, lookup ends
in the directory that was asked for (`LookupReaches`). An entry at the end of a
list is found only where the list had none of its name (`FirstInAppend`); a
removal keeps the first entry of every other name (`WithoutKeeps`). The inductions
are over natural numbers, through `NatSetInduction`: a set with 0 and every
successor has them all, which follows from the least element of a set.

`NamespaceProofs` proves `LookupFindsWhatWasPromised` for any number of callers,
names and inodes and for directories of any depth; its only assumption is that
the root is no inode of a file. `LookupFollowsTree` says nothing of inodes and
lists, so it is not inductive. `NamespaceInv` adds the shape of the two accounts:
the table has lists of entries for the root and for inodes that were generated
(`Table`); each path but the root is in a directory that is a path, and no two
directories have one inode (`Tree`); a directory that a path denotes has a list
whose first entry of a name is what the longer path denotes, and has no entry of
the name if there is no such path (`Mirrors`). Directories that were removed keep
their lists in the code. No path denotes them, so what late creates put there
does not count: a create is hidden (`CreateHidden`) or makes one new path
(`CreateSeen`), and a removal is hidden (`RemoveHidden`) or takes one path and
what is below it (`RemoveSeen`). `LookupMirrors` is the induction along the path.

### The metadata service

`DevaProofs` holds for any nodes and requests, any number of elections and
crashes and a log of any length. Its assumptions are that requests are records of
the four fields the handlers fill in (`OpsAreRequests`), that UUIDs are unique
(`InodesAreUnique`), and that the value for "no node" is none
(`NoneIsNoNode`).

*Control.* `ControlInv`: a request is proposed once, and is in the log or pending
but not both (`ProposedOnce`); a closure that has not run belongs to the node that
proposed the entry, and its client waits (`ClosureWaits`). It is kept by every
action, elections and deaths included, which take closures away and answer their
clients in the same step. It gives `ClientsAreAnsweredOnce`, and
`ClientsAreNotForgotten`: a client without an answer has its closure with the
leader, as a proposal, or with a node that runs and has not reached the entry or not
run the closure yet (`WaiterHasClosure`).

*The abstract log.* `DevaRefinement` shows that `Deva` implements `OpLog`. A proposal
is `TakeIn` or `TurnAway`, a commit `Enter`, a closure that has run `Answer`; an
election or the death of a node is one `Fail` with all the clients it takes away
(`FailureMaps`), where an operation leaves what is proposed only with its client
told (`LostIsTold`). Elsewhere steps stutter. It needs `ControlInv`: without
`ProposedOnce` an operation could enter the log a second time.

*Namespace.* `Holds(e, D)` says that a table may be what processing the operations
of `D` has left: each entry is that of an operation of `D`, in the directory its
request named, and none is there twice. `DevaInv` says this of each node and the
operations it is done with (`DoneOps`): applied, and no closure of theirs still to
run. Processing one more operation keeps it (`ProcessHolds`), since lookup ends
where the request's path says. It gives `OperationsApplyOnce`, with the snapshot
timer and without: a snapshot that loads nothing only takes entries away.

*Snapshots and replay.* `DevaInv` includes `SkippedInv`: what a node skipped is
below its snapshot, and none of its closures are of it. `ReplayInv` says what a node that did not
skip an entry has: what was asked for in the root is there, and the creation of a
directory was run by its own closure, because `decode` stops every node that has no
closure for it. A file that was acknowledged is in the root, or the node that
answered had its directory: from an earlier entry, which other nodes got past with a
snapshot only, or from a later one whose closure overtook it (`AckInv`).
`AcknowledgedIsVisible` follows, with the exceptions of `AckedVisible`.

*Order.* A list grows at its end, by the next entry of the log or by a closure. So
of two entries in one list the one that is earlier in the log stands behind only if
a closure of this node created it (`OrderInv`). Two different nodes have not
both run a closure for one creation of a directory, so where they have processed the
same entries they hold entries of the root only, the same ones (`RootLists`), in the
order of the log but for closures (`OrderOfEntries`). This is
`CaughtUpNodesAgree`; a `decode` that knew directories would need another argument
for it. `ReplicaInv`, the conjunction of all these, is what is inductive
(`ReplicaInvariant`).

### Only model-checked

All liveness, which is beyond the prover: `EveryAppendAnswered`, `TaskAnswered`,
`CallReturns`, `GetReturns`. Of three of them the part without fairness is proved,
namely that whoever waits has somebody who can end the wait
(`WaitersAreAnswerable`, `ClientsAreNotForgotten`, `NobodySleepsInVain`). Every other property of the passing runs is a theorem.
That `Bank::load` and `decode` do what they do is a
counterexample, not a theorem.

## Not modelled

- The attributes of stores, `hget`, `hdel`, `hlen`, `hkeys`: no caller.
- The count of references to a chunk. The timer's release of a request may be the
  last one of its chunk, with the chunk's mutex still locked by that timer; what
  follows has no bounded set of outcomes.
- Logging, result and scope types, exporters of traces: no effect on the state; a
  scope guard appears as the rollback it performs.
- FileStream and Controller of the SDK, and the handlers of deva other than
  OpenFile and Mkdir: their bodies are empty.
- The command of sad for deva: the skeleton of `Sad` over the OpenFile of `Deva`.
- Mocks, examples, deployment. The examples of SPDK, DPDK and erasure coding show
  libraries that no part of the system uses yet.
- Data races on standard containers (`MemStore::open`, `Deva::_file_infos`).

## Plan

Done: Chunk, Manusya, Namespace, Deva, RocksdbStore, Asura, Client, Future, the
context stack and the handlers, sad for chunks and topology; proofs of the safety
of all of them.

Next: `Client` and sad's `open` composed with `Deva`, so that ExecutedOnce becomes
a statement about namespaces; the contents of the namespaces in `OpLog`, once
snapshots save them and `decode` knows directories.
