-------------------------------- MODULE Deva --------------------------------
(***************************************************************************)
(* The metadata service deva: RPC handlers (deva_service_impl.cc) hand     *)
(* operations to a replicated state machine (bridge.h, container_op.h,     *)
(* rsm.cc) whose container is the namespace of deva.cc.                    *)
(*                                                                         *)
(* braft is external: it accepts tasks on its leader, agrees on one log,   *)
(* and calls Rsm::on_apply on every node with the entries in order.  A     *)
(* task's closure comes back on the node that proposed it, with the entry  *)
(* when it is committed or with an error when the node steps down.         *)
(***************************************************************************)
EXTENDS NamespaceOps, FiniteSets

CONSTANTS
  Nodes,
  Ops,          \* the operations clients ask for, see OpRecord
  MaxElections, \* bound on changes of the leader
  MaxCrashes,   \* bound on crashes of nodes
  None          \* no node

\* OpType, the parent directory and the name of the request's path, and the
\* inode the handler generated
OpRecord == [type : {"kCreateFile", "kCreateDir"}, dir : Seq(STRING),
             name : STRING, inode : Nat]

ASSUME OpsAreRequests == Ops \subseteq OpRecord

\* UUID::generate: an inode is the root's or that of one request
ASSUME InodesAreUnique ==
  /\ \A o, q \in Ops : o.inode = q.inode => o = q
  /\ \A o \in Ops : o.inode # Root

ASSUME NoneIsNoNode == None \notin Nodes

VARIABLES
  leader,    \* the leader braft knows, or None
  pending,   \* tasks braft accepted and has not committed: [op, done]
  log,       \* the committed log: [op, done], done the node that has the closure
  started,   \* nodes whose Rsm::start is over
  up,        \* nodes whose process runs
  applied,   \* applied[n]: last index on_apply was called with
  closures,  \* closures[n]: indices whose closure runs in a bthread of its own
  ns,        \* ns[n]: Deva::_namespace
  snap,      \* snap[n]: index of the last snapshot
  skipped,   \* skipped[n]: indices n is past only because of a snapshot (history)
  answer,    \* answer[o]: what the client of o was told
  elections, crashes

vars == <<leader, pending, log, started, up, applied, closures, ns, snap, skipped,
          answer, elections, crashes>>

Init ==
  /\ leader = None /\ pending = {} /\ log = <<>>
  /\ started = {} /\ up = Nodes
  /\ applied = [n \in Nodes |-> 0]
  /\ closures = [n \in Nodes |-> {}]
  /\ ns = [n \in Nodes |-> EmptyNamespace]
  /\ snap = [n \in Nodes |-> 0] /\ skipped = [n \in Nodes |-> {}]
  /\ answer = [o \in Ops |-> "none"]
  /\ elections = 0 /\ crashes = 0

-----------------------------------------------------------------------------
(* Deva::process *)

TypeOf(o) == IF o.type = "kCreateDir" THEN "kDirectory" ELSE "kFile"

\* Deva::create.  Its lookup and its insertion are two holds of the namespace's
\* mutex; with no removal among the operations a lookup that succeeded stays
\* true, so that one step stands for both.
Status(e, o) ==
  LET parent == Lookup(e, o.dir) IN
  IF parent.status # "OK" THEN parent.status
  ELSE IF parent.type # "kDirectory" THEN "EINVAL" ELSE "OK"

Process(e, o) ==
  IF Status(e, o) = "OK"
  THEN CreateEntry(e, Lookup(e, o.dir).inode, o.name, TypeOf(o), o.inode)
  ELSE e

\* the switch of decode: an operation it does not know fails its assertion
Decodable(o) == o.type # "kCreateDir"

-----------------------------------------------------------------------------
(* RPC handlers and braft *)

\* bridge and ContainerOp::apply: the operation as a task, with its closure on n
Task(n, o) == [op |-> o, done |-> n]

\* main starts the server before the Rsm; a task for an Rsm without a node is
\* dropped, closure included
ApplyNotStarted(n, o) ==
  /\ n \in up \ started
  /\ answer[o] = "none"
  /\ answer' = [answer EXCEPT ![o] = "hangs"]
  /\ UNCHANGED <<leader, pending, log, started, up, applied, closures, ns, snap, skipped,
                 elections, crashes>>

\* braft takes a task on its leader and fails its closure elsewhere
ApplyTask(n, o) ==
  /\ n \in up \cap started
  /\ answer[o] = "none"
  /\ IF n = leader
     THEN /\ pending' = pending \cup {Task(n, o)}
          /\ answer' = [answer EXCEPT ![o] = "waits"]
     ELSE /\ answer' = [answer EXCEPT ![o] = "EPERM"]
          /\ UNCHANGED pending
  /\ UNCHANGED <<leader, log, started, up, applied, closures, ns, snap, skipped, elections, crashes>>

Start(n) ==
  /\ n \in up \ started
  /\ started' = started \cup {n}
  /\ UNCHANGED <<leader, pending, log, up, applied, closures, ns, snap, skipped, answer,
                 elections, crashes>>

Quorum == 2 * Cardinality(up \cap started) > Cardinality(Nodes)

Commit(p) ==
  /\ leader # None /\ Quorum /\ p \in pending
  /\ log' = Append(log, p)
  /\ pending' = pending \ {p}
  /\ UNCHANGED <<leader, started, up, applied, closures, ns, snap, skipped, answer, elections, crashes>>

\* mutant: the closures of entries that were applied run with an error too
ElectTwice(n) ==
  /\ Quorum /\ n \in up \cap started /\ leader # n /\ elections < MaxElections
  /\ leader' = n /\ elections' = elections + 1
  /\ LET failed == {p.op : p \in {q \in pending : q.done # None}}
                     \cup {log[i].op : i \in {k \in 1..Len(log) : log[k].done = leader}}
     IN answer' = [o \in Ops |-> IF o \in failed THEN "EPERM" ELSE answer[o]]
  /\ pending' = {}
  /\ UNCHANGED <<log, started, up, applied, closures, ns, snap, skipped, crashes>>

\* The old leader's closures run with an error, which on_finish passes on.  Its
\* uncommitted entries survive in the new leader's log or are lost; the committed
\* ones it has not applied may have lost their closures too.
Elect(n) ==
  /\ Quorum /\ n \in up \cap started /\ leader # n /\ elections < MaxElections
  /\ leader' = n /\ elections' = elections + 1
  /\ \E kept \in SUBSET pending, clear \in BOOLEAN :
       LET lost == IF clear /\ leader # None
                   THEN {i \in applied[leader] + 1..Len(log) : log[i].done = leader} ELSE {}
           failed == {p.op : p \in {q \in pending : q.done # None}} \cup {log[i].op : i \in lost}
       IN /\ pending' = {[p EXCEPT !.done = None] : p \in kept}
          /\ log' = [i \in 1..Len(log) |->
                       IF i \in lost THEN [log[i] EXCEPT !.done = None] ELSE log[i]]
          /\ answer' = [o \in Ops |-> IF o \in failed THEN "EPERM" ELSE answer[o]]
  /\ UNCHANGED <<started, up, applied, closures, ns, snap, skipped, crashes>>

\* what a process loses when it dies; its clients' connections break
Die(n) ==
  /\ up' = up \ {n} /\ started' = started \ {n}
  /\ leader' = IF leader = n THEN None ELSE leader
  /\ closures' = [closures EXCEPT ![n] = {}]
  /\ ns' = [ns EXCEPT ![n] = EmptyNamespace]
  /\ applied' = [applied EXCEPT ![n] = snap[n]]
  /\ skipped' = [skipped EXCEPT ![n] = 1..snap[n]]
  /\ pending' = {[p EXCEPT !.done = IF @ = n THEN None ELSE @] : p \in pending}
  /\ log' = [i \in 1..Len(log) |-> [log[i] EXCEPT !.done = IF @ = n THEN None ELSE @]]
  /\ answer' = [o \in Ops |->
       IF answer[o] = "waits" /\ (\/ \E p \in pending : p.op = o /\ p.done = n
                                  \/ \E i \in 1..Len(log) : log[i].op = o /\ log[i].done = n)
       THEN "broken" ELSE answer[o]]
  /\ UNCHANGED <<snap, elections>>

Crash(n) ==
  /\ n \in up /\ crashes < MaxCrashes
  /\ crashes' = crashes + 1
  /\ Die(n)

Restart(n) ==
  /\ n \notin up
  /\ up' = up \cup {n}
  /\ UNCHANGED <<leader, pending, log, started, applied, closures, ns, snap, skipped, answer,
                 elections, crashes>>

-----------------------------------------------------------------------------
(* The state machine *)

\* mutant: an entry with a closure is decoded and applied as well
OnApplyBoth(n) ==
  LET i == applied[n] + 1 IN
  /\ n \in up \cap started /\ i <= Len(log)
  /\ closures' = [closures EXCEPT ![n] = IF log[i].done = n THEN @ \cup {i} ELSE @]
  /\ ns' = [ns EXCEPT ![n] = Process(@, log[i].op)]
  /\ applied' = [applied EXCEPT ![n] = i]
  /\ UNCHANGED <<leader, pending, log, started, up, snap, skipped, answer, elections, crashes>>

\* mutant: an entry without a closure is skipped
OnApplySkips(n) ==
  LET i == applied[n] + 1 IN
  /\ n \in up \cap started /\ i <= Len(log)
  /\ closures' = [closures EXCEPT ![n] = IF log[i].done = n THEN @ \cup {i} ELSE @]
  /\ applied' = [applied EXCEPT ![n] = i]
  /\ UNCHANGED <<leader, pending, log, started, up, ns, snap, skipped, answer, elections, crashes>>

\* mutant: an entry without a closure is left to a bthread too
OnApplyAsync(n) ==
  LET i == applied[n] + 1 IN
  /\ n \in up \cap started /\ i <= Len(log)
  /\ closures' = [closures EXCEPT ![n] = @ \cup {i}]
  /\ applied' = [applied EXCEPT ![n] = i]
  /\ UNCHANGED <<leader, pending, log, started, up, ns, snap, skipped, answer, elections, crashes>>

\* One turn of the loop of on_apply.  AsyncClosureGuard starts a bthread that
\* runs the closure; an entry without one is decoded and applied on the spot.
OnApply(n) ==
  LET i == applied[n] + 1 IN
  /\ n \in up \cap started /\ i <= Len(log)
  /\ \/ /\ log[i].done = n
        /\ closures' = [closures EXCEPT ![n] = @ \cup {i}]
        /\ applied' = [applied EXCEPT ![n] = i]
        /\ UNCHANGED <<leader, pending, log, started, up, ns, snap, skipped, answer, elections, crashes>>
     \/ /\ log[i].done # n /\ Decodable(log[i].op)
        /\ ns' = [ns EXCEPT ![n] = Process(@, log[i].op)]
        /\ applied' = [applied EXCEPT ![n] = i]
        /\ UNCHANGED <<leader, pending, log, started, up, closures, snap, skipped, answer,
                       elections, crashes>>
     \/ /\ log[i].done # n /\ ~Decodable(log[i].op)
        /\ Die(n)
        /\ UNCHANGED crashes

\* mutant: the status of process is lost, every operation succeeds
RunClosureOK(n, i) ==
  /\ i \in closures[n]
  /\ closures' = [closures EXCEPT ![n] = @ \ {i}]
  /\ ns' = [ns EXCEPT ![n] = Process(@, log[i].op)]
  /\ answer' = [answer EXCEPT ![log[i].op] = "OK"]
  /\ UNCHANGED <<leader, pending, log, started, up, applied, snap, skipped, elections, crashes>>

\* mutant: on_apply of the operation does not go on to on_finish
RunClosureSilent(n, i) ==
  /\ i \in closures[n]
  /\ closures' = [closures EXCEPT ![n] = @ \ {i}]
  /\ ns' = [ns EXCEPT ![n] = Process(@, log[i].op)]
  /\ UNCHANGED <<leader, pending, log, started, up, applied, snap, skipped, answer, elections, crashes>>

\* OpClosure::Run with an OK status: the operation is processed and its client
\* answered
RunClosure(n, i) ==
  /\ i \in closures[n]
  /\ closures' = [closures EXCEPT ![n] = @ \ {i}]
  /\ ns' = [ns EXCEPT ![n] = Process(@, log[i].op)]
  /\ answer' = [answer EXCEPT ![log[i].op] = Status(ns[n], log[i].op)]
  /\ UNCHANGED <<leader, pending, log, started, up, applied, snap, skipped, elections, crashes>>

\* save_snapshot writes no file and reports success: braft starts from here
\* after a restart
SaveSnapshot(n) ==
  /\ n \in up \cap started /\ snap[n] < applied[n]
  /\ snap' = [snap EXCEPT ![n] = applied[n]]
  /\ UNCHANGED <<leader, pending, log, started, up, applied, closures, ns, skipped,
                 answer, elections, crashes>>

\* A follower behind the leader's snapshot gets it; on_snapshot_load reads
\* nothing.  braft answers the closures of the entries it skips before.
LoadSnapshot(n) ==
  /\ n \in up \cap started /\ leader \notin {n, None} /\ applied[n] < snap[leader]
  /\ \A i \in applied[n] + 1..snap[leader] : log[i].done # n
  /\ applied' = [applied EXCEPT ![n] = snap[leader]]
  /\ snap' = [snap EXCEPT ![n] = snap[leader]]
  /\ skipped' = [skipped EXCEPT ![n] = @ \cup (applied[n] + 1..snap[leader])]
  /\ UNCHANGED <<leader, pending, log, started, up, closures, ns, answer, elections, crashes>>

Idle ==
  /\ \A o \in Ops : answer[o] # "none"
  /\ UNCHANGED vars

Next ==
  \/ \E n \in Nodes :
       \/ \E o \in Ops : ApplyNotStarted(n, o) \/ ApplyTask(n, o)
       \/ Start(n) \/ Elect(n) \/ Crash(n) \/ Restart(n)
       \/ OnApply(n) \/ (\E i \in closures[n] : RunClosure(n, i))
       \/ SaveSnapshot(n) \/ LoadSnapshot(n)
  \/ \E p \in pending : Commit(p)
  \/ Idle

Spec == Init /\ [][Next]_vars

\* A process is started again and its Rsm started; braft commits what a leader
\* with a quorum accepted and applies what is committed; a bthread gets to run.
Fairness ==
  /\ \A n \in Nodes : WF_vars(Restart(n)) /\ WF_vars(Start(n)) /\ WF_vars(OnApply(n))
  /\ \A n \in Nodes, i \in 1..Cardinality(Ops) : WF_vars(RunClosure(n, i))
  /\ \A o \in Ops, n \in Nodes : WF_vars(Commit(Task(n, o)))

FairSpec == Spec /\ Fairness

-----------------------------------------------------------------------------
(* Properties *)

Entries(n) == UNION {{<<d, i>> : i \in 1..Len(ns[n][d])} : d \in DOMAIN ns[n]}
EntryAt(n, at) == ns[n][at[1]][at[2]]

\* the entries n has processed since it started
Done(n) == (1..applied[n]) \ (closures[n] \cup skipped[n])

\* An operation takes effect on a node at most once, and only after it was
\* committed and handed to on_apply: neither a closure that runs late nor a
\* replay after a restart applies it again.
AppliedOnce ==
  \A n \in Nodes :
    /\ \A at \in Entries(n) : \E i \in Done(n) :
         log[i].op.inode = EntryAt(n, at).inode /\ log[i].op.name = EntryAt(n, at).name
    /\ \A a, b \in Entries(n) : EntryAt(n, a).inode = EntryAt(n, b).inode => a = b

\* o is the creation of the directory the path denotes
Makes(o, path) == o.type = "kCreateDir" /\ Append(o.dir, o.name) = path

\* the directory of log[i] is made by a later entry, and each earlier one that
\* makes it is in a snapshot some node started from
Overtaken(i) ==
  LET dir == log[i].op.dir IN
  /\ \E j \in i + 1..Len(log) : Makes(log[j].op, dir)
  /\ \A k \in 1..i - 1 : Makes(log[k].op, dir) => \E m \in Nodes : k \in skipped[m]

\* What OpenFile acknowledged as created is committed, and is there on every
\* node that has processed its entry, whichever node is the leader by then.  The
\* exceptions: the node got past the creation of its directory with a snapshot,
\* which holds nothing; or the closure of a later creation of its directory
\* overtook the one of the file on the node that answered.
AckedVisible ==
  \A o \in Ops : answer[o] = "OK" =>
    \E i \in 1..Len(log) :
      /\ log[i].op = o
      /\ \A n \in {m \in up : i \in Done(m)} :
           \/ \E at \in Entries(n) : EntryAt(n, at).inode = o.inode
           \/ \E j \in skipped[n] : Makes(log[j].op, o.dir)
           \/ Overtaken(i)

\* n lists x before y in one directory
Precedes(n, x, y) ==
  \E a, b \in Entries(n) :
    a[1] = b[1] /\ a[2] < b[2] /\ EntryAt(n, a) = x /\ EntryAt(n, b) = y

\* Two nodes that have processed the same entries list the same files in the same
\* directories, although one of them ran closures in another order.  They list
\* two of them in different orders, and so may find different files under one
\* name, only where one of the two was created by a closure.
CaughtUpAgree ==
  \A m, n \in up :
    applied[m] = applied[n] /\ skipped[m] = skipped[n] /\ closures[m] \cup closures[n] = {} =>
      LET Listed(k) == {<<at[1], EntryAt(k, at)>> : at \in Entries(k)} IN
      /\ Listed(m) = Listed(n)
      /\ \A x, y \in {e[2] : e \in Listed(m)} : Precedes(m, x, y) /\ Precedes(n, y, x) =>
           \E i \in 1..Len(log) : log[i].done \in {m, n} /\ log[i].op.inode \in {x.inode, y.inode}

\* A client whose task braft accepted gets an answer: from the closure, from the
\* step-down of the leader or from its broken connection.
TaskAnswered == \A o \in Ops : answer[o] = "waits" ~> answer[o] # "waits"

\* on_apply never meets an operation that decode does not know (the assertion
\* "unknown op type").
NoUnknownOp ==
  \A n \in up \cap started : LET i == applied[n] + 1 IN
    i <= Len(log) /\ log[i].done # n => Decodable(log[i].op)

\* deva as a log of operations: those of the committed entries, and those that
\* braft has accepted
Promised == INSTANCE OpLog WITH
  ops <- [i \in 1..Len(log) |-> log[i].op], open <- {p.op : p \in pending}, reply <- answer

\* Handlers, closures and braft together keep the promise of OpLog: an operation
\* is committed at most once, and not at all if it was refused at the door; its
\* outcome is told after it was committed, and only once; and a step-down or a
\* death that loses it tells its client.
ImplementsOpLog == Promised!OpSpec
=============================================================================
