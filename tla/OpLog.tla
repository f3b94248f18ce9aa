-------------------------------- MODULE OpLog --------------------------------
(***************************************************************************)
(* What deva promises the clients of OpenFile and Mkdir, without nodes,    *)
(* leaders and closures: one log of operations.  An operation that was     *)
(* taken in enters the log at most once and stays in its place; one that   *)
(* was turned away never does.  A client hears the outcome of its          *)
(* operation only when it is in the log.  A failure may come at any time,  *)
(* to many clients at once, and leaves open whether the operation enters;  *)
(* but no operation is dropped while its client waits.  Nobody is answered *)
(* twice.                                                                  *)
(***************************************************************************)
EXTENDS Integers, Sequences

CONSTANT Ops  \* the operations clients ask for

VARIABLES
  ops,    \* the operations that have been agreed on, in their order
  open,   \* operations that were taken in and may still enter the log
  reply   \* reply[o]: what the client of o was told

opVars == <<ops, open, reply>>

Outcomes == {"OK", "ENOENT", "EINVAL"}
Failures == {"EPERM", "broken"}

Waiting == {o \in Ops : reply[o] = "waits"}

OpInit ==
  /\ ops = <<>> /\ open = {}
  /\ reply = [o \in Ops |-> "none"]

TakeIn(o) ==
  /\ reply[o] = "none"
  /\ reply' = [reply EXCEPT ![o] = "waits"]
  /\ open' = open \cup {o}
  /\ UNCHANGED ops

\* by a server that is not the leader, or forgotten by one that is not ready
TurnAway(o) ==
  /\ reply[o] = "none"
  /\ \E e \in {"EPERM", "hangs"} : reply' = [reply EXCEPT ![o] = e]
  /\ UNCHANGED <<ops, open>>

Enter(o) ==
  /\ o \in open
  /\ ops' = Append(ops, o)
  /\ open' = open \ {o}
  /\ UNCHANGED reply

Answer(o) ==
  /\ o \in Waiting /\ \E i \in 1..Len(ops) : ops[i] = o
  /\ \E s \in Outcomes : reply' = [reply EXCEPT ![o] = s]
  /\ UNCHANGED <<ops, open>>

\* the clients in failed are told e, and some operations will not enter the log
Fail(failed, e) ==
  /\ reply' = [o \in Ops |-> IF o \in failed THEN e ELSE reply[o]]
  /\ open' \subseteq open
  /\ \A o \in open \ open' : reply'[o] # "waits"
  /\ UNCHANGED ops

OpNext ==
  \/ \E o \in Ops : TakeIn(o) \/ TurnAway(o) \/ Enter(o) \/ Answer(o)
  \/ \E failed \in SUBSET Waiting, e \in Failures : Fail(failed, e)

OpSpec == OpInit /\ [][OpNext]_opVars
=============================================================================
