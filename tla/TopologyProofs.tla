--------------------------- MODULE TopologyProofs ---------------------------
(***************************************************************************)
(* Proofs about RocksdbStore, Asura and SadTopology.  The store's argument *)
(* is where the two versions of the data are at each step of recover; the  *)
(* service's is that every set of entries in memory or on disk is one that *)
(* was there before, or the database with one more registration.           *)
(***************************************************************************)
EXTENDS SadTopology, TLAPS

Steps == {"idle", "delete bak", "rename", "copy", "clean", "open"}

\* where recover keeps what the store held, and the checkpoint
Where ==
  /\ pc \in {"delete bak", "rename"} => disk["data"] = old
  /\ pc = "copy" => disk["bak"] = old /\ disk["data"] = Absent
  /\ pc \in {"clean", "open"} => disk["data"] = disk["cpt"] /\ disk["cpt"] # Absent

StoreInv ==
  /\ StoreTypeOK
  /\ disk = [d \in Dirs |-> disk[d]]
  /\ pc # "idle" \/ ~up => db = Closed
  /\ Where

\* the steps of the store that no registration takes part in
StoreMove ==
  Flush \/ CheckPoint \/ RecoverStep \/ RecoverOpen \/ StoreCrash \/ StoreStop \/ StoreOpen

\* A database that is open is no directory that is missing, and the other way
\* round.
LEMMA SetsAreDatabases ==
  ASSUME NEW S, S \subseteq Entries PROVE S # Absent /\ S # Closed
  BY NoDatabase

\* RocksdbStore::open leaves a store in order.
LEMMA StoreInvInit == StoreInit => StoreInv
  BY SetsAreDatabases, MaxCrashesIsNat DEF StoreInit, StoreInv, StoreTypeOK, Dirs, Where

\* Every step of the store, of recover, and the death and the start of the
\* process keep the store in order.
LEMMA StoreInvMove ==
  ASSUME StoreInv, StoreMove PROVE StoreInv'
<1> USE DEF StoreInv, StoreTypeOK, Dirs, Where, Ready, Goto, Return
<1>1. CASE Flush
  BY <1>1, SetsAreDatabases, Zenon DEF Flush
<1>2. CASE CheckPoint
  BY <1>2, SetsAreDatabases, Zenon DEF CheckPoint
<1>3. CASE RecoverClose
  BY <1>3, SetsAreDatabases, Zenon DEF RecoverClose
<1>4. CASE RecoverDeleteBak \/ RecoverCloseFails
  BY <1>4, Zenon DEF RecoverDeleteBak, RecoverCloseFails
<1>5. CASE RecoverRename
  BY <1>5, Zenon DEF RecoverRename
<1>6. CASE RecoverCopy
  BY <1>6, Zenon DEF RecoverCopy
<1>7. CASE RecoverClean
  BY <1>7 DEF RecoverClean
<1>8. CASE RecoverFailsEarly
  BY <1>8, Zenon DEF RecoverFailsEarly
<1>9. CASE RecoverRollback
  BY <1>9, Zenon DEF RecoverRollback
<1>10. CASE RecoverOpen
  BY <1>10 DEF RecoverOpen
<1>11. CASE StoreCrash
  <2>0. crashes < MaxCrashes /\ crashes' = crashes + 1
    BY <1>11, Zenon DEF StoreCrash
  <2>1. crashes' \in 0..MaxCrashes
    <3> HIDE DEF Where
    <3>1. crashes \in 0..MaxCrashes /\ MaxCrashes \in Nat
      BY MaxCrashesIsNat, Zenon
    <3> HIDE DEF StoreInv
    <3>2. QED
      BY <2>0, <3>1
  <2>2. UNCHANGED <<disk, pc, old>> /\ db' = Closed /\ up' = FALSE
    BY <1>11, Zenon DEF StoreCrash
  <2>3. QED
    BY <2>1, <2>2, Zenon
<1>12. CASE StoreStop
  BY <1>12, SetsAreDatabases, Zenon DEF StoreStop
<1>13. CASE StoreOpen
  BY <1>13, Zenon DEF StoreOpen
<1>14. QED
  BY <1>1, <1>2, <1>3, <1>4, <1>5, <1>6, <1>7, <1>8, <1>9, <1>10, <1>11, <1>12, <1>13, Zenon
     DEF StoreMove, RecoverStep

\* What is open and what is in the directories.
Sets == {disk[d] : d \in Dirs} \cup {db}

\* Steps of the store make no new set of entries: they copy, forget, or begin an
\* empty database.
LEMMA MovesMakeNothing ==
  ASSUME StoreInv, StoreMove PROVE Sets' \subseteq Sets \cup {Absent, Closed, {}}
<1> USE DEF StoreInv, Dirs, Sets, Ready, Goto, Return
<1> DEFINE New == {disk'["data"], disk'["bak"], disk'["cpt"], db'}
<1>1. Sets' = New
  OBVIOUS
<1>2. \A S \in New : S \in Sets \cup {Absent, Closed, {}}
  <2>1. CASE Flush \/ CheckPoint \/ StoreStop \/ RecoverClose
    BY <2>1, Zenon DEF Flush, CheckPoint, StoreStop, RecoverClose
  <2>2. CASE RecoverCloseFails \/ RecoverDeleteBak \/ RecoverRename \/ RecoverCopy
    BY <2>2, Zenon DEF RecoverCloseFails, RecoverDeleteBak, RecoverRename, RecoverCopy
  <2>3. CASE RecoverClean
    BY <2>3 DEF RecoverClean
  <2>4. CASE RecoverFailsEarly \/ RecoverRollback \/ RecoverOpen
    BY <2>4, Zenon DEF RecoverFailsEarly, RecoverRollback, RecoverOpen
  <2>5. CASE StoreCrash \/ StoreOpen
    BY <2>5 DEF StoreCrash, StoreOpen
  <2>6. QED
    BY <2>1, <2>2, <2>3, <2>4, <2>5 DEF StoreMove, RecoverStep
<1>3. QED
  BY <1>1, <1>2

\* What recover may rely on follows from where the data is.
LEMMA StoreInvFacts == StoreInv => StoreTypeOK /\ KeptOnDisk /\ RollbackPossible
  BY SetsAreDatabases, Zenon DEF StoreInv, StoreTypeOK, Where, KeptOnDisk, RollbackPossible, Dirs

\* A return of recover leaves the old contents or the checkpoint.
LEMMA ReturnsAllOrNothing ==
  ASSUME StoreInv, StoreMove
  PROVE  up /\ up' /\ pc # "idle" /\ pc' = "idle" =>
           db' = IF outcome' = "OK" THEN disk["cpt"] ELSE old
<1> USE DEF StoreInv, Where, Dirs, Ready, Goto, Return
<1>1. CASE Flush \/ CheckPoint \/ StoreStop \/ RecoverClose \/ StoreCrash \/ StoreOpen
  BY <1>1, Zenon DEF Flush, CheckPoint, StoreStop, RecoverClose, StoreCrash, StoreOpen
<1>2. CASE \/ RecoverCloseFails \/ RecoverDeleteBak \/ RecoverRename \/ RecoverCopy
           \/ RecoverClean
  BY <1>2, Zenon DEF RecoverCloseFails, RecoverDeleteBak, RecoverRename, RecoverCopy, RecoverClean
<1>3. CASE RecoverFailsEarly \/ RecoverRollback \/ RecoverOpen
  BY <1>3, Zenon DEF RecoverFailsEarly, RecoverRollback, RecoverOpen
<1>4. QED
  BY <1>1, <1>2, <1>3, Zenon DEF StoreMove, RecoverStep

-----------------------------------------------------------------------------
(* The service *)

Rpcs == {"none", "RegisterDeva", "RegisterManusya", "ListDeva", "ListManusya"}

CallType == [at   : {"new", "checked", "answered"}, op : Rpcs, id : Ids \cup {"none"},
             code : {"none", "ok", "EEXIST", "EIO", "broken"}, got : SUBSET Entries]

\* a call has no code before it is answered, and only registrations are checked
CallsInv ==
  /\ call \in [Calls -> CallType]
  /\ \A c \in Calls :
       /\ call[c].at # "answered" => call[c].code = "none"
       /\ call[c].at = "checked" => call[c].id \in Ids

Asked(c) == <<HashOf(call[c].op), call[c].id>>

\* the entries of a set were stored by calls that were not refused, one each, and
\* no server is there twice
Stored(S) ==
  /\ S \subseteq Entries
  /\ \A e \in S : call[e.by].code \in {"ok", "broken"} /\ Key(e) = Asked(e.by)
  /\ \A e, f \in S : e.by = f.by \/ Key(e) = Key(f) => e = f

StoredInv == \A S \in Sets : S \in {Absent, Closed} \/ Stored(S)

Keys(S) == {Key(e) : e \in S}

\* where the registered servers are when no database is open
RegisteredInv ==
  /\ registered \subseteq Hashes \X Ids
  /\ db # Closed => registered \subseteq Keys(db)
  /\ pc # "idle" => registered \subseteq Keys(old)
  /\ ~up /\ pc # "idle" => registered = {}
  /\ db = Closed /\ pc = "idle" =>
       registered = {} \/ (disk["data"] # Absent /\ registered \subseteq Keys(disk["data"]))

TopologyInv == StoreInv /\ CallsInv /\ StoredInv /\ RegisteredInv

\* Before the first call nothing is stored.
LEMMA TopologyInvInit == TopologyInit => TopologyInv
<1> SUFFICES ASSUME TopologyInit PROVE TopologyInv
  OBVIOUS
<1>1. StoreInv
  BY StoreInvInit DEF TopologyInit, Init
<1>2. CallsInv
  BY DEF TopologyInit, Init, CallsInv, CallType, NewCall, Rpcs
<1>3. \A S \in Sets : S \in {{}, Absent}
  BY DEF TopologyInit, Init, StoreInit, Sets, Dirs
<1>4. StoredInv
  BY <1>3 DEF StoredInv, Stored
<1>5. RegisteredInv
  BY SetsAreDatabases DEF TopologyInit, Init, StoreInit, RegisteredInv
<1>6. QED
  BY <1>1, <1>2, <1>4, <1>5 DEF TopologyInv

\* Calls that were answered keep their code and what they asked for.
CodesKept ==
  \A c \in Calls : call[c].code \in {"ok", "broken"} =>
    /\ call'[c].code \in {"ok", "broken"}
    /\ call'[c].op = call[c].op /\ call'[c].id = call[c].id

\* Sets that were there before stay in order while the calls go on.
LEMMA StoredKept ==
  ASSUME StoredInv, CodesKept, Sets' \subseteq Sets \cup {Absent, Closed, {}}
  PROVE  StoredInv'
<1> SUFFICES ASSUME NEW S \in Sets', S \notin {Absent, Closed} PROVE Stored(S)'
  BY DEF StoredInv
<1>1. S \in Sets \/ S = {}
  OBVIOUS
<1>2. CASE S = {}
  BY <1>2 DEF Stored
<1>3. CASE S \in Sets
  <2>1. Stored(S)
    BY <1>3 DEF StoredInv
  <2>2. \A e \in S : e.by \in Calls
    BY <2>1, EntriesAreServers DEF Stored, AsuraEntries
  <2>3. QED
    BY <2>1, <2>2 DEF Stored, CodesKept, Asked
<1>4. QED
  BY <1>1, <1>2, <1>3

\* hexists and the lists read the database and change no entry.
LEMMA ReadersKeep ==
  ASSUME TopologyInv, NEW c \in Calls,
         \/ \E op \in {"RegisterDeva", "RegisterManusya"}, id \in Ids : Check(c, op, id)
         \/ \E op \in {"ListDeva", "ListManusya"} : List(c, op)
         \/ StoreEntryFails(c)
  PROVE  TopologyInv'
<1> USE DEF TopologyInv
<1>1. UNCHANGED <<storeVars, registered>> /\ call[c].code = "none"
  BY DEF Check, List, StoreEntryFails, CallsInv
<1>2. StoreInv'
  BY <1>1, Zenon DEF StoreInv, StoreTypeOK, Where, storeVars
<1>3. RegisteredInv'
  BY <1>1 DEF RegisteredInv, storeVars, Keys
<1>4. Sets' = Sets
  BY <1>1 DEF Sets, storeVars
<1>5. /\ db \in Sets
      /\ db # Closed /\ db # Absent => Stored(db)
  BY DEF Sets, StoredInv
<1>6. db # Closed => db # Absent
  BY SetsAreDatabases, Zenon DEF StoreInv, StoreTypeOK
<1>7. CallsInv'
  <2>1. CASE \E op \in {"RegisterDeva", "RegisterManusya"}, id \in Ids : Check(c, op, id)
    <3> PICK op \in {"RegisterDeva", "RegisterManusya"}, id \in Ids : Check(c, op, id)
      BY <2>1
    <3>1. PICK there \in hexists(HashOf(op), id) :
            call' = [call EXCEPT ![c] =
              [at   |-> IF Refused(op, there) THEN "answered" ELSE "checked",
               code |-> IF Refused(op, there) THEN "EEXIST" ELSE "none",
               op |-> op, id |-> id, got |-> {}]]
      BY Zenon DEF Check
    <3>2. QED
      BY <3>1 DEF CallsInv, CallType, Rpcs
  <2>2. CASE \E op \in {"ListDeva", "ListManusya"} : List(c, op)
    <3> PICK op \in {"ListDeva", "ListManusya"} : List(c, op)
      BY <2>2
    <3>1. db \subseteq Entries
      BY <1>5, <1>6 DEF List, Ready, Stored
    <3>2. hgetall(HashOf(op)) \subseteq Entries
      BY <3>1 DEF hgetall
    <3>3. QED
      BY <3>2 DEF List, CallsInv, CallType, Rpcs
  <2>3. CASE StoreEntryFails(c)
    BY <2>3 DEF StoreEntryFails, CallsInv, CallType
  <2>4. QED
    BY <2>1, <2>2, <2>3
<1>8. \A d \in Calls \ {c} : call'[d] = call[d]
  BY DEF Check, List, StoreEntryFails, CallsInv
<1>9. CodesKept
  BY <1>1, <1>8 DEF CodesKept
<1>10. StoredInv'
  BY <1>4, <1>9, StoredKept
<1>11. QED
  BY <1>2, <1>3, <1>7, <1>10

\* hset adds the entry of a call that had none.
LEMMA StoreEntryKeeps ==
  ASSUME TopologyInv, NEW c \in Calls, StoreEntry(c)
  PROVE  TopologyInv'
<1> USE DEF TopologyInv
<1> DEFINE e == Entry(c)
<1>1. /\ call[c].code = "none" /\ call[c].id \in Ids
      /\ db # Closed /\ db # Absent /\ db \subseteq Entries /\ Stored(db)
      /\ pc = "idle" /\ up
  BY SetsAreDatabases DEF StoreEntry, Ready, CallsInv, StoreInv, StoreTypeOK, StoredInv, Sets
<1>2. /\ e \in Entries /\ e.by = c /\ Key(e) = Asked(c) /\ Asked(c) \in Hashes \X Ids
  BY <1>1, EntriesAreServers DEF Entry, HashOf, AsuraEntries, Hashes, Key, Asked
<1>3. db' = Put(e) /\ UNCHANGED <<disk, pc, old, outcome, up, crashes>>
  BY DEF StoreEntry
<1>4. db' \subseteq Entries /\ db' # Closed /\ db' # Absent
  BY <1>1, <1>2, <1>3, SetsAreDatabases DEF Put
<1>5. StoreInv'
  BY <1>1, <1>3, <1>4 DEF StoreInv, StoreTypeOK, Where
<1>6. CallsInv'
  BY <1>1 DEF StoreEntry, CallsInv, CallType
<1>7. /\ call'[c].code = "ok" /\ call'[c].id = call[c].id /\ call'[c].op = call[c].op
      /\ \A d \in Calls \ {c} : call'[d] = call[d]
  BY DEF StoreEntry, CallsInv, CallType
<1>8. StoredInv'
  <2>1. CodesKept
    BY <1>1, <1>7 DEF CodesKept
  <2>2. SUFFICES ASSUME NEW S \in Sets', S \notin {Absent, Closed} PROVE Stored(S)'
    BY DEF StoredInv
  <2>3. S \in Sets \/ S = db'
    BY <1>3 DEF Sets
  <2>4. ASSUME NEW T, Stored(T) PROVE Stored(T)'
    <3>1. \A x \in T : x.by \in Calls
      BY <2>4, EntriesAreServers DEF Stored, AsuraEntries
    <3>2. QED
      BY <2>1, <2>4, <3>1 DEF Stored, CodesKept, Asked
  <2>5. CASE S \in Sets
    BY <2>2, <2>4, <2>5 DEF StoredInv
  <2>6. CASE S = db'
    <3>1. \A x \in db : x.by # c
      BY <1>1 DEF Stored
    <3>2. Stored(db)'
      <4>1. Stored(db) /\ db \subseteq Entries
        BY <1>1
      <4>2. \A x \in db : /\ x.by \in Calls
                          /\ call'[x.by].code \in {"ok", "broken"}
                          /\ Key(x) = <<HashOf(call'[x.by].op), call'[x.by].id>>
        BY <2>1, <4>1, EntriesAreServers DEF Stored, AsuraEntries, CodesKept, Asked
      <4>3. \A x \in Put(e) : (x \in db /\ Key(x) # Key(e)) \/ x = e
        BY DEF Put
      <4>4. \A x, y \in Put(e) : x.by = y.by \/ Key(x) = Key(y) => x = y
        BY <3>1, <4>1, <4>3, <1>2 DEF Stored
      <4>5. \A x \in Put(e) : /\ call'[x.by].code \in {"ok", "broken"}
                              /\ Key(x) = <<HashOf(call'[x.by].op), call'[x.by].id>>
        BY <4>2, <4>3, <1>2, <1>7 DEF Asked
      <4>6. QED
        BY <1>3, <1>4, <4>4, <4>5 DEF Stored, Asked
    <3>3. QED
      BY <2>6, <3>2
  <2>7. QED
    BY <2>3, <2>5, <2>6
<1>9. RegisteredInv'
  <2>1. registered' = registered \cup {Key(e)}
    BY <1>2 DEF StoreEntry, Asked
  <2>2. Key(e) \in Keys(db')
    BY <1>3 DEF Keys, Put
  <2>3. \A k \in Keys(db) : k \in Keys(db')
    BY <1>3 DEF Keys, Put
  <2>4. registered' \subseteq Hashes \X Ids
    BY <1>2, <2>1 DEF RegisteredInv
  <2>5. registered' \subseteq Keys(db')
    BY <1>1, <2>1, <2>2, <2>3 DEF RegisteredInv
  <2>6. QED
    BY <1>1, <1>3, <1>4, <2>4, <2>5 DEF RegisteredInv, Keys
<1>10. QED
  BY <1>5, <1>6, <1>8, <1>9

\* Checkpoints, recoveries, crashes and restarts lose no registration they are
\* not allowed to lose, and bring none back.
LEMMA EnvironmentKeeps ==
  ASSUME TopologyInv, Environment PROVE TopologyInv'
<1> USE DEF TopologyInv
<1>1. StoreMove
  BY Zenon DEF Environment, Maintain, Die, Restart, StoreMove
<1>2. StoreInv'
  BY <1>1, StoreInvMove
<1>3. CallsInv' /\ CodesKept
  <2>1. CASE UNCHANGED call
    BY <2>1 DEF CallsInv, CodesKept
  <2>2. CASE Die
    <3>1. \A c \in Calls : call'[c] = IF call[c].at = "checked"
             THEN [call[c] EXCEPT !.at = "answered", !.code = "broken"] ELSE call[c]
      BY <2>2, Zenon DEF Die
    <3>2. \A c \in Calls : /\ call[c] \in CallType
                            /\ [call[c] EXCEPT !.at = "answered", !.code = "broken"] \in CallType
      BY ZenonT(30) DEF CallsInv, CallType
    <3>3. \A c \in Calls : call'[c] \in CallType
      BY <3>1, <3>2, Zenon
    <3>4. call' \in [Calls -> CallType]
      BY <2>2, <3>3, Zenon DEF Die
    <3>5. \A c \in Calls :
            /\ call'[c].op = call[c].op /\ call'[c].id = call[c].id /\ call'[c].got = call[c].got
            /\ call'[c].at # "checked"
            /\ call'[c].at = call[c].at => call'[c].code = call[c].code
            /\ call'[c].at # call[c].at => call[c].code = "none" /\ call'[c].at = "answered"
      <4> TAKE c \in Calls
      <4>1. CASE call[c].at = "checked"
        <5>1. call[c].code = "none"
          BY <4>1 DEF CallsInv
        <5>2. call'[c] = [call[c] EXCEPT !.at = "answered", !.code = "broken"]
          BY <3>1, <4>1, ZenonT(30)
        <5>3. QED
          BY <3>2, <4>1, <5>1, <5>2, ZenonT(30) DEF CallType
      <4>2. CASE call[c].at # "checked"
        BY <3>1, <4>2, Zenon
      <4>3. QED
        BY <4>1, <4>2
    <3>6. CallsInv'
      BY <3>4, <3>5 DEF CallsInv
    <3>7. CodesKept
      BY <3>5 DEF CodesKept
    <3>8. QED
      BY <3>6, <3>7
  <2>3. QED
    BY <2>1, <2>2 DEF Environment, Maintain, Restart
<1>4. StoredInv'
  BY <1>1, <1>3, MovesMakeNothing, StoredKept
<1>5. RegisteredInv'
  <2> USE DEF RegisteredInv, Keys, Ready, Goto, Return, StoreInv, Dirs
  <2>1. CASE Flush /\ UNCHANGED registered
    BY <2>1 DEF Flush
  <2>2. CASE CheckPoint /\ UNCHANGED registered
    BY <2>2 DEF CheckPoint
  <2>3. CASE StoreStop /\ UNCHANGED registered
    <3>1. db \subseteq Entries
      BY <2>3 DEF StoreStop, StoreTypeOK
    <3>2. QED
      BY <2>3, <3>1, SetsAreDatabases DEF StoreStop
  <2>4. CASE RecoverClose /\ UNCHANGED registered
    BY <2>4, Zenon DEF RecoverClose
  <2>5. CASE (RecoverDeleteBak \/ RecoverRename \/ RecoverCopy \/ RecoverClean) /\ UNCHANGED registered
    BY <2>5, Zenon DEF RecoverDeleteBak, RecoverRename, RecoverCopy, RecoverClean
  <2>6. CASE (RecoverFailsEarly \/ RecoverRollback) /\ UNCHANGED registered
    <3>1. db' = old /\ old # Closed
      BY <2>6, SetsAreDatabases, Zenon DEF RecoverFailsEarly, RecoverRollback, Where, StoreTypeOK
    <3>2. QED
      BY <2>6, <3>1, Zenon DEF RecoverFailsEarly, RecoverRollback
  <2>7. CASE registered' = {}
    BY <2>7
  <2>8. CASE Restart
    <3>1. /\ ~up /\ pc' = "idle" /\ db' = disk'["data"] /\ registered' = registered /\ up'
          /\ disk' = [disk EXCEPT !["data"] = IF @ = Absent THEN {} ELSE @]
      BY <2>8 DEF Restart, StoreOpen
    <3>2. registered = {} \/ (disk["data"] # Absent /\ registered \subseteq Keys(disk["data"]))
      BY <3>1
    <3>3. registered \subseteq Keys(db') /\ db' # Closed
      <4>1. db' = IF disk["data"] = Absent THEN {} ELSE disk["data"]
        BY <3>1
      <4>2. db' \subseteq Entries
        BY <4>1, Zenon DEF StoreTypeOK
      <4>3. QED
        BY <3>2, <4>1, <4>2, SetsAreDatabases
    <3>4. QED
      BY <3>1, <3>3
  <2>9. CASE RecoverCloseFails /\ UNCHANGED registered
    BY <2>9, Zenon DEF RecoverCloseFails
  <2>10. QED
    BY <2>1, <2>2, <2>3, <2>4, <2>5, <2>6, <2>7, <2>8, <2>9, Zenon
       DEF Environment, Maintain, Die, RecoverStep
<1>6. QED
  BY <1>2, <1>3, <1>4, <1>5

\* Every step of the topology service keeps the invariant.
LEMMA TopologyInvStep == TopologyInv /\ [TopologyNext]_allVars => TopologyInv'
<1> SUFFICES ASSUME TopologyInv, [TopologyNext]_allVars PROVE TopologyInv'
  OBVIOUS
<1>1. CASE UNCHANGED vars
  <2> USE <1>1 DEF vars, storeVars, TopologyInv
  <2>1. StoreInv'
    BY Zenon DEF StoreInv, StoreTypeOK, Where
  <2>2. CallsInv' /\ CodesKept /\ Sets' = Sets
    BY DEF CallsInv, CodesKept, Sets
  <2>3. StoredInv'
    BY <2>2, StoredKept
  <2>4. RegisteredInv'
    BY DEF RegisteredInv, Keys
  <2>5. QED
    BY <2>1, <2>2, <2>3, <2>4
<1>2. ASSUME NEW c \in Calls, Serve(c) PROVE TopologyInv'
  BY <1>2, ReadersKeep, StoreEntryKeeps DEF Serve, Arrive
<1>3. CASE Environment
  BY <1>3, EnvironmentKeeps
<1>4. QED
  BY <1>1, <1>2, <1>3, Zenon DEF TopologyNext, Execute, End, allVars

\* recover never leaves the disk without a whole copy, at no step and at no
\* crash between two steps, and its rollbacks find what they need: for any number
\* of calls, servers, crashes and recoveries.
THEOREM RecoverIsSafe == TopologySpec => [](KeptOnDisk /\ RollbackPossible)
<1>1. TopologyInv => KeptOnDisk /\ RollbackPossible
  BY StoreInvFacts DEF TopologyInv
<1>2. QED
  BY <1>1, TopologyInvInit, TopologyInvStep, PTL DEF TopologySpec

\* recover is all or nothing.
THEOREM RecoverIsAtomic == TopologySpec => RecoverAllOrNothing
<1> DEFINE Step == up /\ up' /\ pc # "idle" /\ pc' = "idle" =>
                     db' = IF outcome' = "OK" THEN disk["cpt"] ELSE old
<1>1. TopologyInv /\ [TopologyNext]_allVars => [Step]_storeVars
  <2> SUFFICES ASSUME TopologyInv, [TopologyNext]_allVars, storeVars' # storeVars
               PROVE  Step
    OBVIOUS
  <2>1. CASE Environment
    <3>1. StoreMove
      BY <2>1, Zenon DEF Environment, Maintain, Die, Restart, StoreMove
    <3>2. QED
      BY <3>1, ReturnsAllOrNothing DEF TopologyInv
  <2>2. CASE UNCHANGED pc
    BY <2>2
  <2>3. QED
    BY <2>1, <2>2, Zenon DEF TopologyNext, Execute, End, Serve, Arrive, Check, List, StoreEntry,
                      StoreEntryFails, allVars, vars, storeVars
<1>2. QED
  BY <1>1, TopologyInvInit, TopologyInvStep, PTL DEF TopologySpec, RecoverAllOrNothing

\* A registration that was answered "ok" is listed across clean restarts and
\* failed recoveries, nothing that was refused ever is, and no server is listed
\* twice.
THEOREM ListsAreRight == TopologySpec => [](RegisteredIsListed /\ RefusedNotStored)
<1>1. TopologyInv => RegisteredIsListed
  BY DEF TopologyInv, RegisteredInv, RegisteredIsListed, Keys
<1>2. TopologyInv => RefusedNotStored
  BY Zenon DEF TopologyInv, StoredInv, Stored, Sets, RefusedNotStored, Asked
<1>3. QED
  BY <1>1, <1>2, TopologyInvInit, TopologyInvStep, PTL DEF TopologySpec

\* Every run of sad against the topology service is a behaviour of the service
\* as its other clients know it: the commands ask nothing of it that is new.
THEOREM SadUsesAsura == TopologySpec => Spec
<1>1. TopologyInit => Init
  BY DEF TopologyInit
<1>2. [TopologyNext]_allVars => [Next]_vars
  BY Zenon DEF TopologyNext, Next, allVars, Execute, End, Serve, Arrive
<1>3. QED
  BY <1>1, <1>2, PTL DEF TopologySpec, Spec
=============================================================================
