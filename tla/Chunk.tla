-------------------------------- MODULE Chunk --------------------------------
(***************************************************************************)
(* One chunk of the chunk server manusya (src/manusya/chunk.cc) and the    *)
(* RPC handlers that use it (src/manusya/manusya_service_impl.cc).         *)
(*                                                                         *)
(* Every handler runs in a bthread of its own.  An append at the end of    *)
(* the chunk is written at once; one past the end waits in a queue ordered *)
(* by offset until the gap is closed, or until its timer answers it; one   *)
(* before the end is refused.  Chunk::_mutex protects all of it; the loop  *)
(* that drains the queue holds it across iterations, so an iteration is a  *)
(* step.  Chunk::size() and Chunk::state() are read without it.            *)
(*                                                                         *)
(* Data is abstracted to its author: a byte of the file is the request     *)
(* that wrote it.  The store below is a file that appends a whole buffer   *)
(* or fails and writes nothing (see LocalStore::append, MemStore::append). *)
(***************************************************************************)
EXTENDS Integers, Sequences

CONSTANTS
  Reqs,      \* the AppendChunk calls
  Sealers,   \* the QueryAndSealChunk calls
  Queriers,  \* the QueryChunk calls
  Offsets,   \* offsets an append may name
  Lengths,   \* buffer sizes of an append
  Nobody     \* holder of a free mutex

ASSUME OffsetsAreNat == Offsets \subseteq Nat
ASSUME LengthsAreNat == Lengths \subseteq Nat
ASSUME NobodyIsNoReq == Nobody \notin Reqs

VARIABLES
  mutex,   \* Chunk::_mutex where it is held across steps: the draining request
  size,    \* Chunk::_size
  state,   \* Chunk::_state
  file,    \* content of the chunk's file
  queue,   \* Chunk::_append_request_queue
  timer,   \* timer[r]: the 5 s timer of a waiting request
  refs,    \* refs[r]: AppendRequest::use_count of a request that waits
  arg,     \* arg[r]: offset and buffer length of append r
  pc,      \* pc[r]: where append r is
  status,  \* status[r]: what r is answered: its promise when it waits,
           \* the local status otherwise; "none" while undecided
  reply,   \* reply[r]: the "new offset" of the AppendChunk response, -1 if none
  sealing, \* sealing[s]: progress and length of a QueryAndSealChunk call
  query    \* query[q]: progress, size and sealed flag of a QueryChunk call

vars == <<mutex, size, state, file, queue, timer, refs, arg, pc, status, reply,
          sealing, query>>

Args == [offset : Offsets, len : Lengths]
Errors == {"EINVAL", "EPERM", "EIO"}
Statuses == {"none", "OK"} \cup Errors

Bytes(r) == [i \in 1..arg[r].len |-> r]

CreatedState == "kOpen"

Init ==
  /\ mutex = Nobody
  /\ size = 0
  /\ state = CreatedState
  /\ file = <<>>
  /\ queue = {}
  /\ timer = [r \in Reqs |-> "off"]
  /\ refs = [r \in Reqs |-> 0]
  /\ arg \in [Reqs -> Args]
  /\ pc = [r \in Reqs |-> "start"]
  /\ status = [r \in Reqs |-> "none"]
  /\ reply = [r \in Reqs |-> -1]
  /\ sealing = [s \in Sealers |-> [at |-> "start", len |-> -1]]
  /\ query = [q \in Queriers |-> [at |-> "start", size |-> -1, sealed |-> FALSE]]

-----------------------------------------------------------------------------
(* Chunk::append *)

\* mutant: the check of kSealed is missing
OpenAlways == TRUE

Open == state # "kSealed"

Return(r, s) ==
  /\ status' = [status EXCEPT ![r] = s]
  /\ pc' = [pc EXCEPT ![r] = "returned"]

AppendSealed(r) ==
  /\ pc[r] = "start" /\ mutex = Nobody
  /\ ~Open
  /\ Return(r, "EPERM")
  /\ UNCHANGED <<mutex, size, state, file, queue, timer, refs, arg, reply, sealing, query>>

AppendBelowEnd(r) ==
  /\ pc[r] = "start" /\ mutex = Nobody
  /\ Open
  /\ arg[r].offset < size
  /\ Return(r, "EINVAL")
  /\ UNCHANGED <<mutex, size, state, file, queue, timer, refs, arg, reply, sealing, query>>

\* boost::intrusive::set has unique keys: insert leaves out a request whose
\* offset is queued already, and append ignores the result
Insert(r) ==
  IF \E q \in queue : arg[q].offset = arg[r].offset THEN queue ELSE queue \cup {r}

\* mutant: no reference is taken for the timer
RefsOfCaller == 1

\* the caller's AppendRequestPtr, and intrusive_ptr_add_ref for the timer
RefsTaken == 2

AppendWait(r) ==
  /\ pc[r] = "start" /\ mutex = Nobody
  /\ Open
  /\ arg[r].offset > size
  /\ timer' = [timer EXCEPT ![r] = "armed"]
  /\ refs' = [refs EXCEPT ![r] = RefsTaken]
  /\ queue' = Insert(r)
  /\ pc' = [pc EXCEPT ![r] = "waiting"]
  /\ UNCHANGED <<mutex, size, state, file, arg, status, reply, sealing, query>>

\* mutant: _size is not advanced when the buffer is written
WriteSizeKept(r) ==
  /\ file' = file \o Bytes(r)
  /\ size' = size

Write(r) ==
  /\ file' = file \o Bytes(r)
  /\ size' = size + arg[r].len

AppendAtEnd(r) ==
  /\ pc[r] = "start" /\ mutex = Nobody
  /\ Open
  /\ arg[r].offset = size
  /\ Write(r)
  /\ mutex' = r
  /\ status' = [status EXCEPT ![r] = "OK"]
  /\ pc' = [pc EXCEPT ![r] = "draining"]
  /\ UNCHANGED <<state, queue, timer, refs, arg, reply, sealing, query>>

AppendAtEndFails(r) ==
  /\ pc[r] = "start" /\ mutex = Nobody
  /\ Open
  /\ arg[r].offset = size
  /\ Return(r, "EIO")
  /\ UNCHANGED <<mutex, size, state, file, queue, timer, refs, arg, reply, sealing, query>>

-----------------------------------------------------------------------------
(* The loop of Chunk::append that serves the queue; r holds the mutex *)

First(q) ==
  /\ q \in queue
  /\ \A p \in queue : arg[q].offset <= arg[p].offset

Answer(q, s) ==
  /\ queue' = queue \ {q}
  /\ status' = IF status[q] = "none" THEN [status EXCEPT ![q] = s] ELSE status

DrainBelowEnd(r, q) ==
  /\ mutex = r
  /\ First(q)
  /\ arg[q].offset < size
  /\ Answer(q, "EINVAL")
  /\ UNCHANGED <<mutex, size, state, file, timer, refs, arg, pc, reply, sealing, query>>

DrainAtEnd(r, q) ==
  /\ mutex = r
  /\ First(q)
  /\ arg[q].offset = size
  /\ Write(q)
  /\ Answer(q, "OK")
  /\ UNCHANGED <<mutex, state, timer, refs, arg, pc, reply, sealing, query>>

DrainAtEndFails(r, q) ==
  /\ mutex = r
  /\ First(q)
  /\ arg[q].offset = size
  /\ Answer(q, "EIO")
  /\ UNCHANGED <<mutex, size, state, file, timer, refs, arg, pc, reply, sealing, query>>

\* mutant: one iteration, if instead of while
QueueBlockedAlways == TRUE

QueueBlocked == \A q \in queue : arg[q].offset > size

DrainEnd(r) ==
  /\ mutex = r
  /\ QueueBlocked
  /\ mutex' = Nobody
  /\ pc' = [pc EXCEPT ![r] = "returned"]
  /\ UNCHANGED <<size, state, file, queue, timer, refs, arg, status, reply, sealing, query>>

-----------------------------------------------------------------------------
(* The timer callback, and the waiting bthread it or the loop wakes *)

\* mutants: the callback does not look at the promise; it takes every promise
\* for ready; it answers the request but leaves it linked
NotReadyAlways(r) == TRUE
NotReadyNever(r) == FALSE
UnlinkForgotten(r) == UNCHANGED queue

NotReady(r) == status[r] = "none"

Unlink(r) == queue' = queue \ {r}

\* a promise that is ready makes the callback return without its release
Timeout(r) ==
  /\ timer[r] = "armed" /\ mutex = Nobody
  /\ timer' = [timer EXCEPT ![r] = "fired"]
  /\ IF NotReady(r)
     THEN /\ Unlink(r)
          /\ status' = [status EXCEPT ![r] = "EINVAL"]
          /\ refs' = [refs EXCEPT ![r] = @ - 1]
     ELSE UNCHANGED <<queue, status, refs>>
  /\ UNCHANGED <<mutex, size, state, file, arg, pc, reply, sealing, query>>

\* use_count is a plain int: where the callback that answered r releases it as
\* well, one of the two decrements may be lost
Released(r) == IF refs[r] = 1 THEN {0, 1} ELSE {refs[r] - 1}

Wake(r) ==
  /\ pc[r] = "waiting"
  /\ status[r] # "none"
  /\ pc' = [pc EXCEPT ![r] = "returned"]
  /\ \E left \in Released(r) : refs' = [refs EXCEPT ![r] = left]
  /\ UNCHANGED <<mutex, size, state, file, queue, timer, arg, status, reply, sealing, query>>

\* AppendChunk after Chunk::append: the size is read again, without the mutex
Respond(r) ==
  /\ pc[r] = "returned"
  /\ pc' = [pc EXCEPT ![r] = "responded"]
  /\ reply' = IF status[r] = "OK" THEN [reply EXCEPT ![r] = size] ELSE reply
  /\ UNCHANGED <<mutex, size, state, file, queue, timer, refs, arg, status, sealing, query>>

-----------------------------------------------------------------------------
(* QueryAndSealChunk, QueryChunk *)

QueryAndSeal(s) ==
  /\ sealing[s].at = "start" /\ mutex = Nobody
  /\ sealing' = [sealing EXCEPT ![s] = [at |-> "ok", len |-> Len(file)]]
  /\ state' = "kSealed"
  /\ UNCHANGED <<mutex, size, file, queue, timer, refs, arg, pc, status, reply, query>>

\* FileHandle::seal or FileHandle::size fails: the state stays as it was
QueryAndSealFails(s) ==
  /\ sealing[s].at = "start" /\ mutex = Nobody
  /\ sealing' = [sealing EXCEPT ![s] = [at |-> "failed", len |-> -1]]
  /\ UNCHANGED <<mutex, size, state, file, queue, timer, refs, arg, pc, status, reply, query>>

\* two reads without the mutex: the size first, the state after it
QuerySize(q) ==
  /\ query[q].at = "start"
  /\ query' = [query EXCEPT ![q] = [at |-> "sized", size |-> size, sealed |-> FALSE]]
  /\ UNCHANGED <<mutex, size, state, file, queue, timer, refs, arg, pc, status, reply, sealing>>

QueryState(q) ==
  /\ query[q].at = "sized"
  /\ query' = [query EXCEPT ![q] = [at |-> "done", size |-> query[q].size,
                                   sealed |-> (state = "kSealed")]]
  /\ UNCHANGED <<mutex, size, state, file, queue, timer, refs, arg, pc, status, reply, sealing>>

-----------------------------------------------------------------------------
AppendStep(r) ==
  \/ AppendSealed(r) \/ AppendBelowEnd(r) \/ AppendWait(r)
  \/ AppendAtEnd(r) \/ AppendAtEndFails(r)

DrainStep(r) ==
  \/ \E q \in queue : DrainBelowEnd(r, q) \/ DrainAtEnd(r, q) \/ DrainAtEndFails(r, q)
  \/ DrainEnd(r)

\* every call is over and no timer is pending
Finished ==
  /\ \A r \in Reqs : pc[r] = "responded" /\ timer[r] # "armed"
  /\ \A s \in Sealers : sealing[s].at # "start"
  /\ \A q \in Queriers : query[q].at = "done"
  /\ UNCHANGED vars

Next ==
  \/ \E r \in Reqs : AppendStep(r) \/ DrainStep(r) \/ Timeout(r) \/ Wake(r) \/ Respond(r)
  \/ \E s \in Sealers : QueryAndSeal(s) \/ QueryAndSealFails(s)
  \/ \E q \in Queriers : QuerySize(q) \/ QueryState(q)
  \/ Finished

Spec == Init /\ [][Next]_vars

\* A bthread that can run is run and a timer that is due is fired; nothing
\* makes a client send a request.
Fairness ==
  \A r \in Reqs :
    WF_vars(DrainStep(r)) /\ WF_vars(Timeout(r)) /\ WF_vars(Wake(r)) /\ WF_vars(Respond(r))

FairSpec == Spec /\ Fairness

-----------------------------------------------------------------------------
(* Properties *)

\* every variable holds a value of its kind
TypeOK ==
  /\ mutex \in Reqs \cup {Nobody}
  /\ size \in Nat
  /\ state \in {"kOpen", "kSealed"}
  /\ file \in Seq(Reqs)
  /\ queue \in SUBSET Reqs
  /\ timer \in [Reqs -> {"off", "armed", "fired"}]
  /\ refs \in [Reqs -> 0..2]
  /\ arg \in [Reqs -> Args]
  /\ pc \in [Reqs -> {"start", "waiting", "draining", "returned", "responded"}]
  /\ status \in [Reqs -> Statuses]
  /\ reply \in [Reqs -> Nat \cup {-1}]
  /\ sealing \in [Sealers -> [at : {"start", "ok", "failed"}, len : Nat \cup {-1}]]
  /\ query \in [Queriers -> [at : {"start", "sized", "done"},
                            size : Nat \cup {-1}, sealed : BOOLEAN]]

\* _size is the length of the file, whichever appends failed, waited or were
\* drained: the offsets append compares with are offsets of the file
SizeIsFileLength == size = Len(file)

\* No lost wakeup: whenever append lets go of the mutex, every request it
\* leaves queued still lies beyond the end of the chunk.
QueueAhead == mutex = Nobody => \A r \in queue : arg[r].offset > size

\* An append that is answered OK, directly or out of the queue, has its bytes
\* in the file at the offset it named, and nothing overwrites them later.
AckedInPlace ==
  \A r \in Reqs : status[r] = "OK" =>
    /\ arg[r].offset + arg[r].len <= Len(file)
    /\ \A i \in 1..arg[r].len : file[arg[r].offset + i] = r

\* The file is its acknowledged appends and nothing else: position i holds a byte
\* of r exactly if r was answered OK and asked for i.  So no two acknowledged
\* appends overlap, they leave no gap, and none is written twice, although
\* clients choose the offsets and do not know of one another; and one that was
\* refused, or that its timer gave up, is never written later.
FileIsItsAppends ==
  \A i \in 1..Len(file), r \in Reqs :
    file[i] = r <=> /\ status[r] = "OK"
                    /\ arg[r].offset < i /\ i <= arg[r].offset + arg[r].len

\* The lengths query_and_seal returns are the final length of the chunk: all
\* callers get the same one and no append moves it afterwards.
SealLengthFinal ==
  \A s \in Sealers : sealing[s].at = "ok" => sealing[s].len = Len(file)

\* The offset AppendChunk returns, read after the mutex is released, covers
\* the append itself and is never beyond the end of the chunk.
ReplyCoversAppend ==
  \A r \in Reqs : reply[r] # -1 =>
    /\ arg[r].offset + arg[r].len <= reply[r]
    /\ reply[r] <= size

\* "add ref to prevent rq from being destroyed before the timer callback is
\* called": whoever may still use a waiting request (its timer, the queue, its
\* caller inside get) finds it undeleted, whichever of them is first.
RequestAlive ==
  \A r \in Reqs : timer[r] = "armed" \/ r \in queue \/ pc[r] = "waiting" => refs[r] > 0

\* Of the loop and the timer only one answers a waiting append: set_value
\* asserts that the promise has no value yet.
AnsweredOnce ==
  [][\A r \in Reqs : status[r] # "none" => status'[r] = status[r]]_status

\* an append that has begun is answered, if only by its timer
EveryAppendAnswered ==
  \A r \in Reqs : pc[r] \in {"waiting", "draining"} ~> pc[r] = "responded"

\* A QueryChunk that begins after the chunk is sealed reports it sealed, with
\* its final size, although it reads size and state without the mutex.
QueryAfterSealExact ==
  \A q \in Queriers :
    [](state = "kSealed" /\ query[q].at = "start" =>
         [](query[q].at = "done" => query[q].sealed /\ query[q].size = Len(file)))

\* the chunk implements the append-only log
Log == INSTANCE AppendLog WITH log <- file, sealed <- (state = "kSealed"), answer <- status

\* Appends, the queue, the timer and sealing together behave as an
\* append-only log that accepts a request exactly at its end.
ImplementsLog == Log!LogSpec
=============================================================================
