---------------------------- MODULE RocksdbStore ----------------------------
(***************************************************************************)
(* The key-value store of src/common/rocksdb_store.cc: hashes kept in a    *)
(* RocksDB database, checkpoints of it, and recovery from a checkpoint,    *)
(* which swaps directories and undoes the swap when a step of it fails.    *)
(*                                                                         *)
(* RocksDB and the file system are external: an operation of theirs        *)
(* succeeds or fails and does nothing.  Writes bypass the log (disableWAL) *)
(* and reach the directory when the memtable is flushed.                   *)
(***************************************************************************)
EXTENDS Integers, FiniteSets

CONSTANTS
  Entries,    \* what a database holds: records with a key (hash and field)
  MaxCrashes, \* bound on crashes of the process
  Absent,     \* no such directory
  Closed      \* no open database

ASSUME MaxCrashesIsNat == MaxCrashes \in Nat
ASSUME NoDatabase == \A S \in SUBSET Entries : S # Absent /\ S # Closed

VARIABLES
  disk,    \* disk[d]: what directory d holds: the data, its backup, a checkpoint
  db,      \* RocksdbStore::_db with its memtable
  pc,      \* the next step of recover
  old,     \* what the store held when recover began (history)
  outcome, \* what recover returned last
  up,      \* the process runs
  crashes

storeVars == <<disk, db, pc, old, outcome, up, crashes>>

Dirs == {"data", "bak", "cpt"}

StoreInit ==
  /\ disk = [d \in Dirs |-> IF d = "data" THEN {} ELSE Absent]
  /\ db = {}
  /\ pc = "idle" /\ old = {} /\ outcome = "none"
  /\ up = TRUE /\ crashes = 0

Ready == up /\ pc = "idle" /\ db # Closed

-----------------------------------------------------------------------------
(* Hashes *)

Key(e) == <<e.hash, e.field>>

\* hset: Put replaces the value of the key
Put(e) == {x \in db : Key(x) # Key(e)} \cup {e}

\* what hexists may answer: a failure of the hget below it counts as "not there"
hexists(hash, field) == {\E x \in db : Key(x) = <<hash, field>>, FALSE}

hgetall(hash) == {x \in db : x.hash = hash}

\* RocksDB writes its memtable out
Flush ==
  /\ Ready
  /\ disk["data"] # db
  /\ disk' = [disk EXCEPT !["data"] = db]
  /\ UNCHANGED <<db, pc, old, outcome, up, crashes>>

\* CreateCheckpoint refuses a directory that exists
CheckPoint ==
  /\ Ready /\ disk["cpt"] = Absent
  /\ disk' = [disk EXCEPT !["data"] = db, !["cpt"] = db]
  /\ UNCHANGED <<db, pc, old, outcome, up, crashes>>

-----------------------------------------------------------------------------
(* RocksdbStore::recover *)

Goto(p) ==
  /\ up
  /\ pc' = p
  /\ UNCHANGED <<old, outcome, up, crashes>>

\* close fails, and recover returns with the database still open
RecoverCloseFails ==
  /\ Ready
  /\ outcome' = "EIO"
  /\ UNCHANGED <<disk, db, pc, old, up, crashes>>

\* close flushes what is not in the directory
RecoverClose ==
  /\ Ready
  /\ disk' = [disk EXCEPT !["data"] = db]
  /\ db' = Closed /\ old' = db
  /\ pc' = "delete bak"
  /\ UNCHANGED <<outcome, up, crashes>>

RecoverDeleteBak ==
  /\ pc = "delete bak"
  /\ disk' = [disk EXCEPT !["bak"] = Absent]
  /\ UNCHANGED db
  /\ Goto("rename")

RecoverRename ==
  /\ pc = "rename" /\ disk["bak"] = Absent
  /\ disk' = [disk EXCEPT !["bak"] = disk["data"], !["data"] = Absent]
  /\ UNCHANGED db
  /\ Goto("copy")

\* mutant: the backup is deleted before the copy is made
RecoverCopyUnsafe ==
  /\ pc = "copy" /\ disk["cpt"] # Absent
  /\ \/ /\ disk["bak"] # Absent
        /\ disk' = [disk EXCEPT !["bak"] = Absent]
        /\ UNCHANGED db
        /\ Goto("copy")
     \/ /\ disk["bak"] = Absent
        /\ disk' = [disk EXCEPT !["data"] = disk["cpt"]]
        /\ UNCHANGED db
        /\ Goto("clean")

\* OpenForReadOnly and CreateCheckpoint, which makes the directory in one go,
\* then the release of the two rollbacks
RecoverCopy ==
  /\ pc = "copy" /\ disk["cpt"] # Absent
  /\ disk' = [disk EXCEPT !["data"] = disk["cpt"]]
  /\ UNCHANGED db
  /\ Goto("clean")

\* a failure to delete the backup is only logged
RecoverClean ==
  /\ pc = "clean"
  /\ disk' \in {disk, [disk EXCEPT !["bak"] = Absent]}
  /\ UNCHANGED db
  /\ Goto("open")

Return(s) ==
  /\ up
  /\ db' = disk'["data"]
  /\ pc' = "idle" /\ outcome' = s
  /\ UNCHANGED <<old, up, crashes>>

\* open_or_die
RecoverOpen ==
  /\ pc = "open" /\ disk["data"] # Absent
  /\ UNCHANGED disk
  /\ Return("OK")

\* deleting or renaming fails: rollback_open runs open_or_die
RecoverFailsEarly ==
  /\ pc \in {"delete bak", "rename"} /\ disk["data"] # Absent
  /\ UNCHANGED disk
  /\ Return("EIO")

\* mutant: the directory is not renamed back
RecoverNoRollback ==
  /\ pc = "copy"
  /\ disk' = [disk EXCEPT !["data"] = {}]
  /\ Return("EIO")

\* the checkpoint cannot be opened or copied: rollback_dir renames the backup
\* back, then rollback_open opens it
RecoverRollback ==
  /\ pc = "copy" /\ disk["bak"] # Absent
  /\ disk' = [disk EXCEPT !["data"] = disk["bak"], !["bak"] = Absent]
  /\ Return("EIO")

-----------------------------------------------------------------------------
(* The process *)

StoreCrash ==
  /\ up /\ crashes < MaxCrashes
  /\ up' = FALSE /\ crashes' = crashes + 1
  /\ db' = Closed
  /\ UNCHANGED <<disk, pc, old, outcome>>

\* close at the end of main; one that fails leaves what a crash leaves
StoreStop ==
  /\ Ready
  /\ disk' = [disk EXCEPT !["data"] = db]
  /\ db' = Closed /\ up' = FALSE
  /\ UNCHANGED <<pc, old, outcome, crashes>>

\* RocksdbStore::open makes a missing directory and an empty database in it
StoreOpen ==
  /\ ~up
  /\ disk' = [disk EXCEPT !["data"] = IF @ = Absent THEN {} ELSE @]
  /\ db' = disk'["data"]
  /\ up' = TRUE /\ pc' = "idle"
  /\ UNCHANGED <<old, outcome, crashes>>

\* the steps of recover that leave the process with what it had in memory
RecoverStep ==
  \/ RecoverCloseFails \/ RecoverClose \/ RecoverDeleteBak \/ RecoverRename \/ RecoverCopy
  \/ RecoverClean \/ RecoverFailsEarly \/ RecoverRollback

-----------------------------------------------------------------------------
(* Properties *)

StoreTypeOK ==
  /\ \A d \in Dirs : disk[d] = Absent \/ disk[d] \subseteq Entries
  /\ db = Closed \/ db \subseteq Entries
  /\ pc \in {"idle", "delete bak", "rename", "copy", "clean", "open"}
  /\ old \subseteq Entries /\ up \in BOOLEAN /\ crashes \in 0..MaxCrashes

\* recover either returns OK and the store holds the checkpoint, or it returns
\* an error and the store holds what it held before, unflushed writes included.
RecoverAllOrNothing ==
  [][up /\ up' /\ pc # "idle" /\ pc' = "idle" =>
       db' = IF outcome' = "OK" THEN disk["cpt"] ELSE old]_storeVars

\* Wherever recover is, and wherever the process dies in it, some directory
\* holds all of what the store held before or all of the checkpoint.
KeptOnDisk ==
  pc # "idle" => \/ old \in {disk["data"], disk["bak"]}
                 \/ disk["data"] = disk["cpt"] /\ disk["cpt"] # Absent

\* The rollbacks of recover find what they need: a backup and no data directory
\* for the rename ("rollbak rename failed"), a directory for open_or_die.
RollbackPossible ==
  /\ pc = "copy" => disk["bak"] # Absent /\ disk["data"] = Absent
  /\ pc \in {"delete bak", "rename", "clean", "open"} => disk["data"] # Absent
=============================================================================
