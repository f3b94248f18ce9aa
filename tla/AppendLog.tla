------------------------------ MODULE AppendLog ------------------------------
(***************************************************************************)
(* What a chunk promises its writers, without threads, queue or timer: an  *)
(* append-only log.  A request names the offset it writes at; it is        *)
(* accepted, whole, only when the log ends at that offset, or it is        *)
(* refused and leaves no trace.  Every request is answered at most once.   *)
(* A sealed log accepts nothing.                                           *)
(***************************************************************************)
EXTENDS Integers, Sequences

CONSTANTS
  Reqs,     \* the append requests
  Offsets,  \* the offsets a request may name
  Lengths   \* the lengths of the buffers

VARIABLES
  log,      \* the bytes, each one labelled by the request that wrote it
  sealed,
  arg,      \* arg[r]: offset and length of request r
  answer    \* answer[r]: the status r was answered with, or "none"

logVars == <<log, sealed, arg, answer>>

Args == [offset : Offsets, len : Lengths]
Errors == {"EINVAL", "EPERM", "EIO"}

Bytes(r) == [i \in 1..arg[r].len |-> r]

LogInit ==
  /\ log = <<>>
  /\ sealed = FALSE
  /\ arg \in [Reqs -> Args]
  /\ answer = [r \in Reqs |-> "none"]

Accept(r) ==
  /\ answer[r] = "none"
  /\ ~sealed
  /\ arg[r].offset = Len(log)
  /\ log' = log \o Bytes(r)
  /\ answer' = [answer EXCEPT ![r] = "OK"]
  /\ UNCHANGED <<sealed, arg>>

Refuse(r) ==
  /\ answer[r] = "none"
  /\ \E e \in Errors :
       /\ e = "EPERM" => sealed
       /\ answer' = [answer EXCEPT ![r] = e]
  /\ UNCHANGED <<log, sealed, arg>>

SealLog ==
  /\ sealed' = TRUE
  /\ UNCHANGED <<log, arg, answer>>

LogNext ==
  \/ \E r \in Reqs : Accept(r) \/ Refuse(r)
  \/ SealLog

LogSpec == LogInit /\ [][LogNext]_logVars
=============================================================================
