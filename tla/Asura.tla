-------------------------------- MODULE Asura --------------------------------
(***************************************************************************)
(* The topology service (src/asura/asura_service_impl.cc) over the store   *)
(* of RocksdbStore.  A registration asks hexists and then calls hset, with *)
(* no lock around the two, while other calls do the same.  Checkpoints and *)
(* recoveries happen between registrations.                                *)
(***************************************************************************)
EXTENDS RocksdbStore

CONSTANTS
  Calls,  \* RPC calls
  Ids     \* uuids of servers

Hashes == {"asura_deva", "asura_manusya"}

\* an entry is the server a call registered: its hash, its uuid, the call
AsuraEntries == [hash : Hashes, field : Ids, by : Calls]

ASSUME EntriesAreServers == Entries = AsuraEntries

VARIABLES
  call,       \* call[c]: a registration or a list
  registered  \* <<hash, uuid>> answered "ok" since the last crash or recovery
              \* (history)

vars == <<storeVars, call, registered>>

NewCall == [at |-> "new", op |-> "none", id |-> "none", code |-> "none", got |-> {}]

Init ==
  /\ StoreInit
  /\ call = [c \in Calls |-> NewCall]
  /\ registered = {}

-----------------------------------------------------------------------------
(* The handlers *)

HashOf(op) == IF op \in {"RegisterDeva", "ListDeva"} THEN "asura_deva" ELSE "asura_manusya"

\* RegisterDeva refuses a server that is there; RegisterManusya one that is not,
\* so it registers none
Refused(op, there) == IF op = "RegisterDeva" THEN there ELSE ~there

\* mutant: the loop goes on to hset although the server was refused
CheckGoesOn(c, op, id) ==
  /\ Ready /\ call[c].at = "new"
  /\ db' = Put([hash |-> HashOf(op), field |-> id, by |-> c])
  /\ \E there \in hexists(HashOf(op), id) :
       call' = [call EXCEPT ![c] =
         [at   |-> IF Refused(op, there) THEN "answered" ELSE "checked",
          code |-> IF Refused(op, there) THEN "EEXIST" ELSE "none",
          op |-> op, id |-> id, got |-> {}]]
  /\ UNCHANGED <<disk, pc, old, outcome, up, crashes, registered>>

\* a registration up to hexists
Check(c, op, id) ==
  /\ Ready /\ call[c].at = "new"
  /\ \E there \in hexists(HashOf(op), id) :
       call' = [call EXCEPT ![c] =
         [at   |-> IF Refused(op, there) THEN "answered" ELSE "checked",
          code |-> IF Refused(op, there) THEN "EEXIST" ELSE "none",
          op |-> op, id |-> id, got |-> {}]]
  /\ UNCHANGED <<storeVars, registered>>

\* mutant: devas are stored under the hash of the manusyas
EntryElsewhere(c) == [hash |-> "asura_manusya", field |-> call[c].id, by |-> c]

Entry(c) == [hash |-> HashOf(call[c].op), field |-> call[c].id, by |-> c]

\* and from hset on
StoreEntry(c) ==
  /\ Ready /\ call[c].at = "checked"
  /\ db' = Put(Entry(c))
  /\ registered' = registered \cup {<<HashOf(call[c].op), call[c].id>>}
  /\ call' = [call EXCEPT ![c].at = "answered", ![c].code = "ok"]
  /\ UNCHANGED <<disk, pc, old, outcome, up, crashes>>

StoreEntryFails(c) ==
  /\ Ready /\ call[c].at = "checked"
  /\ call' = [call EXCEPT ![c].at = "answered", ![c].code = "EIO"]
  /\ UNCHANGED <<storeVars, registered>>

List(c, op) ==
  /\ Ready /\ call[c].at = "new"
  /\ call' = [call EXCEPT ![c] = [at |-> "answered", op |-> op, id |-> "none",
                                  code |-> "ok", got |-> hgetall(HashOf(op))]]
  /\ UNCHANGED <<storeVars, registered>>

-----------------------------------------------------------------------------
Quiet == \A c \in Calls : call[c].at # "checked"

\* a store that has recovered forgets registrations newer than the checkpoint
Maintain ==
  /\ Quiet
  /\ \/ (CheckPoint \/ RecoverStep \/ StoreStop) /\ UNCHANGED registered
     \/ RecoverOpen /\ registered' = {}
  /\ UNCHANGED call

Die ==
  /\ StoreCrash
  /\ registered' = {}
  /\ call' = [c \in Calls |-> IF call[c].at = "checked"
                              THEN [call[c] EXCEPT !.at = "answered", !.code = "broken"]
                              ELSE call[c]]

Restart == StoreOpen /\ UNCHANGED <<call, registered>>

\* what happens to the store between the steps of the calls
Environment ==
  \/ Flush /\ UNCHANGED <<call, registered>>
  \/ Maintain \/ Die \/ Restart

Next ==
  \/ \E c \in Calls :
       \/ \E op \in {"RegisterDeva", "RegisterManusya"}, id \in Ids : Check(c, op, id)
       \/ StoreEntry(c) \/ StoreEntryFails(c)
       \/ \E op \in {"ListDeva", "ListManusya"} : List(c, op)
  \/ Environment

Spec == Init /\ [][Next]_vars

-----------------------------------------------------------------------------
(* Properties *)

\* A server whose registration was answered "ok" is listed from then on, across
\* clean restarts and failed recoveries, whatever other calls do.
RegisteredIsListed ==
  db # Closed => registered \subseteq {Key(e) : e \in db}
=============================================================================
