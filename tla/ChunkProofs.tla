----------------------------- MODULE ChunkProofs -----------------------------
(***************************************************************************)
(* Proofs about Chunk, for any number of appends, seals and queries and    *)
(* for any offsets and lengths.  IndInv is inductive; every safety         *)
(* property of Chunk and its refinement of AppendLog follow from it.       *)
(***************************************************************************)
EXTENDS Chunk, TLAPS

\* the mutex is held across steps by the append that drains the queue
HolderDrains == \A r \in Reqs : pc[r] = "draining" <=> mutex = r

\* a request that is linked in the queue waits and is undecided
QueuedUndecided == \A r \in queue : pc[r] = "waiting" /\ status[r] = "none"

\* what the place of an append says about its answer and its timer
AnswerFollowsPlace ==
  \A r \in Reqs :
    /\ pc[r] = "start" => status[r] = "none" /\ timer[r] = "off"
    /\ pc[r] = "draining" => status[r] = "OK"
    /\ pc[r] \in {"returned", "responded"} => status[r] # "none"

\* who still refers to a request that waits
RefsCounted ==
  \A r \in Reqs :
    /\ pc[r] = "waiting" => refs[r] > 0
    /\ pc[r] = "waiting" /\ timer[r] = "armed" => refs[r] = 2
    /\ timer[r] = "armed" => refs[r] > 0

\* a sealed chunk is never being drained
SealedIsFree == state = "kSealed" => mutex = Nobody

SealedByCall == \A s \in Sealers : sealing[s].at = "ok" => state = "kSealed"

RepliedIsOK == \A r \in Reqs : reply[r] # -1 => status[r] = "OK"

\* a byte of the file belongs to an append that was answered OK
RefusedLeavesNothing == \A i \in 1..Len(file) : status[file[i]] = "OK"

Control ==
  /\ TypeOK
  /\ HolderDrains
  /\ QueuedUndecided
  /\ AnswerFollowsPlace
  /\ RefsCounted
  /\ SealedIsFree
  /\ SealedByCall
  /\ RepliedIsOK

Data ==
  /\ SizeIsFileLength
  /\ QueueAhead
  /\ AckedInPlace
  /\ RefusedLeavesNothing
  /\ SealLengthFinal
  /\ ReplyCoversAppend

IndInv == Control /\ Data

-----------------------------------------------------------------------------
(* What writing a buffer does to the file *)

\* Appending the buffer of r keeps the bytes of the file and adds len bytes of
\* r behind them (FileHandle::append and the addition to _size in append).
LEMMA WriteFacts ==
  ASSUME TypeOK, NEW r \in Reqs, Write(r)
  PROVE  /\ arg[r].offset \in Nat /\ arg[r].len \in Nat
         /\ file' \in Seq(Reqs)
         /\ size' = size + arg[r].len
         /\ size' \in Nat
         /\ Len(file') = Len(file) + arg[r].len
         /\ \A i \in 1..Len(file) : file'[i] = file[i]
         /\ \A i \in 1..arg[r].len : file'[Len(file) + i] = r
<1>1. arg[r].offset \in Nat /\ arg[r].len \in Nat
  BY OffsetsAreNat, LengthsAreNat, Zenon DEF TypeOK, Args
<1>2. Bytes(r) \in Seq(Reqs) /\ Len(Bytes(r)) = arg[r].len
  BY <1>1 DEF Bytes
<1>3. file \in Seq(Reqs) /\ size \in Nat
  BY DEF TypeOK
<1>4. \A i \in 1..arg[r].len : Bytes(r)[i] = r
  BY DEF Bytes
<1> HIDE DEF Bytes
<1>5. file' = file \o Bytes(r) /\ size' = size + arg[r].len
  BY DEF Write
<1>6. file' \in Seq(Reqs) /\ Len(file') = Len(file) + arg[r].len
  BY <1>2, <1>3, <1>5
<1>7. \A i \in 1..Len(file) : file'[i] = file[i]
  BY <1>2, <1>3, <1>5
<1>8. ASSUME NEW i \in 1..arg[r].len PROVE file'[Len(file) + i] = r
  <2>1. (file \o Bytes(r))[Len(file) + i] = Bytes(r)[i]
    BY <1>1, <1>2, <1>3
  <2> QED
    BY <1>4, <1>5, <2>1
<1>9. size' \in Nat
  BY <1>1, <1>3, <1>5
<1> QED
  BY <1>1, <1>5, <1>6, <1>7, <1>8, <1>9

-----------------------------------------------------------------------------
(* The control part is inductive by itself *)

\* A fresh chunk (Chunk::create) satisfies the control part.
LEMMA ControlInit == Init => Control
<1> SUFFICES ASSUME Init PROVE Control
  OBVIOUS
<1>1. TypeOK
  BY DEF Init, CreatedState, TypeOK, Statuses, Errors
<1>2. HolderDrains /\ QueuedUndecided /\ AnswerFollowsPlace /\ RefsCounted
  BY NobodyIsNoReq DEF Init, HolderDrains, QueuedUndecided, AnswerFollowsPlace, RefsCounted
<1>3. SealedIsFree /\ SealedByCall /\ RepliedIsOK
  BY DEF Init, CreatedState, SealedIsFree, SealedByCall, RepliedIsOK
<1> QED
  BY <1>1, <1>2, <1>3 DEF Control

\* Every step of append, its loop and timer, and query_and_seal keeps the
\* control part: who holds the mutex, who is queued and who has an answer.
LEMMA ControlStep == Control /\ [Next]_vars => Control'
<1> SUFFICES ASSUME Control, [Next]_vars PROVE Control'
  OBVIOUS
<1> USE DEF Control, TypeOK, Statuses, Errors, HolderDrains, QueuedUndecided,
            AnswerFollowsPlace, RefsCounted, SealedIsFree, SealedByCall, RepliedIsOK
<1>1. ASSUME NEW r \in Reqs, AppendSealed(r) PROVE Control'
  BY <1>1, NobodyIsNoReq DEF AppendSealed, Return
<1>2. ASSUME NEW r \in Reqs, AppendBelowEnd(r) PROVE Control'
  BY <1>2, NobodyIsNoReq DEF AppendBelowEnd, Return
<1>3. ASSUME NEW r \in Reqs, AppendWait(r) PROVE Control'
  BY <1>3, NobodyIsNoReq DEF AppendWait, Insert, RefsTaken
<1>4. ASSUME NEW r \in Reqs, AppendAtEnd(r) PROVE Control'
  <2>1. file' \in Seq(Reqs) /\ size' \in Nat
    BY <1>4, WriteFacts DEF AppendAtEnd
  <2> QED
    BY <1>4, <2>1, NobodyIsNoReq DEF AppendAtEnd, Open
<1>5. ASSUME NEW r \in Reqs, AppendAtEndFails(r) PROVE Control'
  BY <1>5, NobodyIsNoReq DEF AppendAtEndFails, Return
<1>6. ASSUME NEW r \in Reqs, NEW q \in queue, DrainBelowEnd(r, q) PROVE Control'
  BY <1>6 DEF DrainBelowEnd, Answer
<1>7. ASSUME NEW r \in Reqs, NEW q \in queue, DrainAtEnd(r, q) PROVE Control'
  <2>1. file' \in Seq(Reqs) /\ size' \in Nat
    BY <1>7, WriteFacts DEF DrainAtEnd
  <2> QED
    BY <1>7, <2>1 DEF DrainAtEnd, Answer
<1>8. ASSUME NEW r \in Reqs, NEW q \in queue, DrainAtEndFails(r, q) PROVE Control'
  BY <1>8 DEF DrainAtEndFails, Answer
<1>9. ASSUME NEW r \in Reqs, DrainEnd(r) PROVE Control'
  BY <1>9, NobodyIsNoReq DEF DrainEnd
<1>10. ASSUME NEW r \in Reqs, Timeout(r) PROVE Control'
  <2>1. pc[r] # "start"
    BY <1>10 DEF Timeout
  <2>2. CASE NotReady(r)
    <3>1. /\ status[r] = "none"
          /\ status' = [status EXCEPT ![r] = "EINVAL"]
          /\ queue' = queue \ {r}
          /\ timer' = [timer EXCEPT ![r] = "fired"]
          /\ refs' = [refs EXCEPT ![r] = @ - 1]
          /\ pc[r] = "waiting" /\ refs[r] = 2
          /\ UNCHANGED <<mutex, size, state, file, arg, pc, reply, sealing, query>>
      BY <1>10, <2>2 DEF Timeout, NotReady, Unlink
    <3>2. TypeOK'
      BY <3>1
    <3>3. HolderDrains' /\ QueuedUndecided' /\ AnswerFollowsPlace' /\ RefsCounted'
      BY <2>1, <3>1
    <3>4. SealedIsFree' /\ SealedByCall' /\ RepliedIsOK'
      BY <3>1
    <3> QED
      BY <3>2, <3>3, <3>4
  <2>3. CASE ~NotReady(r)
    BY <1>10, <2>1, <2>3 DEF Timeout
  <2> QED
    BY <2>2, <2>3
<1>11. ASSUME NEW r \in Reqs, Wake(r) PROVE Control'
  BY <1>11, NobodyIsNoReq DEF Wake, Released
<1>12. ASSUME NEW r \in Reqs, Respond(r) PROVE Control'
  BY <1>12, NobodyIsNoReq DEF Respond
<1>13. ASSUME NEW s \in Sealers, QueryAndSeal(s) PROVE Control'
  BY <1>13 DEF QueryAndSeal
<1>14. ASSUME NEW s \in Sealers, QueryAndSealFails(s) PROVE Control'
  BY <1>14 DEF QueryAndSealFails
<1>15. ASSUME NEW q \in Queriers, QuerySize(q) PROVE Control'
  BY <1>15 DEF QuerySize
<1>16. ASSUME NEW q \in Queriers, QueryState(q) PROVE Control'
  BY <1>16 DEF QueryState
<1>17. CASE UNCHANGED vars
  BY <1>17 DEF vars
<1> HIDE DEF Control
<1> QED
  BY <1>1, <1>2, <1>3, <1>4, <1>5, <1>6, <1>7, <1>8, <1>9, <1>10, <1>11, <1>12,
     <1>13, <1>14, <1>15, <1>16, <1>17
     DEF Next, AppendStep, DrainStep, Finished

-----------------------------------------------------------------------------
(* The data part *)

\* A fresh chunk has no bytes and no answers, so the data part holds.
LEMMA DataInit == Init => Data
<1> SUFFICES ASSUME Init PROVE Data
  OBVIOUS
<1>1. SizeIsFileLength /\ QueueAhead
  BY DEF Init, SizeIsFileLength, QueueAhead
<1>2. AckedInPlace /\ RefusedLeavesNothing
  BY DEF Init, AckedInPlace, RefusedLeavesNothing
<1>3. SealLengthFinal /\ ReplyCoversAppend
  BY DEF Init, SealLengthFinal, ReplyCoversAppend
<1> QED
  BY <1>1, <1>2, <1>3 DEF Data

\* Writing an undecided request at the end and answering it OK, as append does
\* for its own buffer and the loop for a queued one, keeps every answered
\* append in its place and makes no byte anonymous.
LEMMA WriteKeepsData ==
  ASSUME Control, Data, NEW q \in Reqs,
         status[q] = "none", arg[q].offset = size, Write(q),
         status' = [status EXCEPT ![q] = "OK"], arg' = arg
  PROVE  SizeIsFileLength' /\ AckedInPlace' /\ RefusedLeavesNothing'
<1>1. TypeOK /\ SizeIsFileLength /\ AckedInPlace /\ RefusedLeavesNothing
  BY DEF Control, Data
<1>2. /\ arg[q].offset \in Nat /\ arg[q].len \in Nat
      /\ file' \in Seq(Reqs)
      /\ size' = size + arg[q].len
      /\ Len(file') = Len(file) + arg[q].len
      /\ \A i \in 1..Len(file) : file'[i] = file[i]
      /\ \A i \in 1..arg[q].len : file'[Len(file) + i] = q
  BY <1>1, WriteFacts
<1>3. file \in Seq(Reqs) /\ Len(file) \in Nat /\ size = Len(file)
  BY <1>1 DEF TypeOK, SizeIsFileLength
<1>4. \A r \in Reqs : arg[r].offset \in Nat /\ arg[r].len \in Nat
  BY <1>1, OffsetsAreNat, LengthsAreNat, Zenon DEF TypeOK, Args
<1>5. status \in [Reqs -> Statuses]
  BY <1>1 DEF TypeOK
<1>6. SizeIsFileLength'
  BY <1>2, <1>3 DEF SizeIsFileLength
<1>7. AckedInPlace'
  <2> SUFFICES ASSUME NEW r \in Reqs, status'[r] = "OK"
               PROVE  /\ arg[r].offset + arg[r].len <= Len(file')
                      /\ \A i \in 1..arg[r].len : file'[arg[r].offset + i] = r
    BY DEF AckedInPlace
  <2>1. CASE r = q
    <3>1. arg[r].offset = Len(file) /\ arg[r].len = arg[q].len
      BY <2>1, <1>3
    <3>2. arg[r].offset + arg[r].len <= Len(file')
      BY <3>1, <1>2, <1>3
    <3>3. \A i \in 1..arg[r].len : file'[arg[r].offset + i] = r
      BY <2>1, <3>1, <1>2, Zenon
    <3> QED
      BY <3>2, <3>3
  <2>2. CASE r # q
    <3>1. /\ arg[r].offset + arg[r].len <= Len(file)
          /\ \A i \in 1..arg[r].len : file[arg[r].offset + i] = r
      BY <2>2, <1>1, <1>5 DEF AckedInPlace
    <3>2. \A i \in 1..arg[r].len : arg[r].offset + i \in 1..Len(file)
      BY <3>1, <1>3, <1>4
    <3>3. arg[r].offset + arg[r].len <= Len(file')
      BY <3>1, <1>2, <1>3, <1>4, SMTT(30)
    <3>4. \A i \in 1..arg[r].len : file'[arg[r].offset + i] = file[arg[r].offset + i]
      BY <3>2, <1>2
    <3> QED
      BY <3>1, <3>3, <3>4
  <2> QED
    BY <2>1, <2>2
<1>8. RefusedLeavesNothing'
  <2> SUFFICES ASSUME NEW i \in 1..Len(file') PROVE status'[file'[i]] = "OK"
    BY DEF RefusedLeavesNothing
  <2>1. CASE i \in 1..Len(file)
    <3>1. file'[i] = file[i] /\ file[i] \in Reqs /\ status[file[i]] = "OK"
      BY <2>1, <1>1, <1>2, <1>3 DEF RefusedLeavesNothing
    <3> QED
      BY <3>1, <1>5
  <2>2. CASE i \notin 1..Len(file)
    <3>1. i - Len(file) \in 1..arg[q].len /\ i = Len(file) + (i - Len(file))
      BY <2>2, <1>2, <1>3
    <3>2. file'[i] = q
      BY <3>1, <1>2
    <3> QED
      BY <3>2, <1>5
  <2> QED
    BY <2>1, <2>2
<1> QED
  BY <1>6, <1>7, <1>8

\* A step that leaves the file alone and at most refuses undecided requests
\* keeps the written and the refused apart.
LEMMA RefusalKeepsData ==
  ASSUME Control, Data, UNCHANGED <<file, size, arg>>, status' \in [Reqs -> Statuses],
         \A r \in Reqs : status'[r] = "OK" <=> status[r] = "OK"
  PROVE  SizeIsFileLength' /\ AckedInPlace' /\ RefusedLeavesNothing'
<1>1. file \in Seq(Reqs) /\ \A i \in 1..Len(file) : file[i] \in Reqs
  BY DEF Control, TypeOK
<1> QED
  BY <1>1 DEF Data, SizeIsFileLength, AckedInPlace, RefusedLeavesNothing

\* Every step keeps the data part: the file, _size and the answers given agree.
LEMMA DataStep == IndInv /\ [Next]_vars => Data'
<1> SUFFICES ASSUME Control, Data, [Next]_vars PROVE Data'
  BY DEF IndInv
<1>1. Control'
  BY ControlStep
<1>2. /\ size \in Nat /\ queue \in SUBSET Reqs /\ status \in [Reqs -> Statuses]
      /\ status' \in [Reqs -> Statuses] /\ reply \in [Reqs -> Nat \cup {-1}]
      /\ mutex \in Reqs \cup {Nobody}
      /\ sealing \in [Sealers -> [at : {"start", "ok", "failed"}, len : Nat \cup {-1}]]
      /\ \A r \in Reqs : arg[r].offset \in Nat /\ arg[r].len \in Nat
  BY <1>1, OffsetsAreNat, LengthsAreNat, Zenon DEF Control, TypeOK, Args
<1>3. /\ SizeIsFileLength /\ QueueAhead /\ SealLengthFinal /\ ReplyCoversAppend
      /\ AckedInPlace /\ HolderDrains /\ QueuedUndecided /\ AnswerFollowsPlace
      /\ SealedIsFree /\ SealedByCall /\ RepliedIsOK
  BY DEF Control, Data
<1> DEFINE Kept == SizeIsFileLength' /\ AckedInPlace' /\ RefusedLeavesNothing'
<1>4. ASSUME NEW r \in Reqs, AppendStep(r), ~AppendAtEnd(r) PROVE Data'
  <2>1. /\ UNCHANGED <<mutex, size, state, file, arg, reply, sealing>>
        /\ \/ queue' = queue
           \/ queue' = Insert(r) /\ arg[r].offset > size
        /\ \/ status' = status
           \/ \E e \in Errors : status' = [status EXCEPT ![r] = e]
        /\ status[r] = "none"
    BY <1>3, <1>4 DEF AppendStep, AppendSealed, AppendBelowEnd, AppendWait,
       AppendAtEndFails, Return, Errors, AnswerFollowsPlace
  <2>2. \A p \in Reqs : status'[p] = "OK" <=> status[p] = "OK"
    BY <1>2, <2>1 DEF Errors
  <2>3. Kept
    BY <1>2, <2>1, <2>2, RefusalKeepsData
  <2>4. QueueAhead'
    BY <1>3, <2>1 DEF QueueAhead, Insert
  <2> QED
    BY <1>3, <2>1, <2>3, <2>4 DEF Data, SealLengthFinal, ReplyCoversAppend
<1>5. ASSUME NEW r \in Reqs, AppendAtEnd(r) PROVE Data'
  <2>1. Kept
    BY <1>3, <1>5, WriteKeepsData, Zenon DEF AppendAtEnd, AnswerFollowsPlace
  <2>2. size' = size + arg[r].len
    BY <1>5 DEF AppendAtEnd, Write
  <2>3. QueueAhead'
    BY <1>5, NobodyIsNoReq DEF AppendAtEnd, QueueAhead
  <2>4. SealLengthFinal'
    BY <1>3, <1>5 DEF AppendAtEnd, Open, SealLengthFinal, SealedByCall
  <2>5. ReplyCoversAppend'
    BY <1>2, <1>3, <1>5, <2>2 DEF AppendAtEnd, ReplyCoversAppend
  <2> QED
    BY <2>1, <2>3, <2>4, <2>5 DEF Data
<1>6. ASSUME NEW r \in Reqs, NEW q \in queue,
             DrainBelowEnd(r, q) \/ DrainAtEndFails(r, q)
      PROVE  Data'
  <2>1. /\ mutex = r /\ status[q] = "none" /\ q \in Reqs
        /\ UNCHANGED <<mutex, size, state, file, arg, reply, sealing>>
        /\ \E e \in Errors : status' = [status EXCEPT ![q] = e]
    BY <1>2, <1>3, <1>6 DEF DrainBelowEnd, DrainAtEndFails, Answer, Errors, QueuedUndecided
  <2>2. \A p \in Reqs : status'[p] = "OK" <=> status[p] = "OK"
    BY <1>2, <2>1 DEF Errors
  <2>3. Kept
    BY <1>2, <2>1, <2>2, RefusalKeepsData
  <2> QED
    BY <1>3, <2>1, <2>3, NobodyIsNoReq DEF Data, QueueAhead, SealLengthFinal, ReplyCoversAppend
<1>7. ASSUME NEW r \in Reqs, NEW q \in queue, DrainAtEnd(r, q) PROVE Data'
  <2>1. /\ mutex = r /\ q \in Reqs /\ status[q] = "none"
        /\ arg[q].offset = size /\ Write(q)
        /\ status' = [status EXCEPT ![q] = "OK"]
        /\ UNCHANGED <<mutex, state, arg, reply, sealing>>
    BY <1>2, <1>3, <1>7 DEF DrainAtEnd, Answer, QueuedUndecided
  <2>2. Kept
    BY <2>1, WriteKeepsData, Zenon
  <2>3. size' = size + arg[q].len
    BY <2>1 DEF Write
  <2>4. QueueAhead'
    BY <2>1, NobodyIsNoReq DEF QueueAhead
  <2>5. SealLengthFinal'
    BY <1>3, <2>1, NobodyIsNoReq DEF SealLengthFinal, SealedByCall, SealedIsFree
  <2>6. ReplyCoversAppend'
    BY <1>2, <1>3, <2>1, <2>3 DEF ReplyCoversAppend
  <2> QED
    BY <2>2, <2>4, <2>5, <2>6 DEF Data
<1>8. ASSUME NEW r \in Reqs, DrainEnd(r) PROVE Data'
  <2>1. Kept
    BY <1>2, <1>8, RefusalKeepsData DEF DrainEnd
  <2> QED
    BY <1>3, <1>8, <2>1 DEF DrainEnd, QueueBlocked, Data, QueueAhead, SealLengthFinal,
       ReplyCoversAppend
<1>9. ASSUME NEW r \in Reqs, Timeout(r) PROVE Data'
  <2>1. /\ UNCHANGED <<mutex, size, state, file, arg, reply, sealing>>
        /\ queue' \subseteq queue
        /\ \/ status' = status
           \/ status[r] = "none" /\ status' = [status EXCEPT ![r] = "EINVAL"]
    BY <1>9 DEF Timeout, NotReady, Unlink
  <2>2. \A p \in Reqs : status'[p] = "OK" <=> status[p] = "OK"
    BY <1>2, <2>1
  <2>3. Kept
    BY <1>2, <2>1, <2>2, RefusalKeepsData
  <2> QED
    BY <1>3, <2>1, <2>3 DEF Data, QueueAhead, SealLengthFinal, ReplyCoversAppend
<1>10. ASSUME NEW r \in Reqs, Respond(r) PROVE Data'
  <2>1. Kept
    BY <1>2, <1>10, RefusalKeepsData DEF Respond
  <2>2. ReplyCoversAppend'
    BY <1>2, <1>3, <1>10 DEF Respond, ReplyCoversAppend, AckedInPlace, SizeIsFileLength
  <2> QED
    BY <1>3, <1>10, <2>1, <2>2 DEF Respond, Data, QueueAhead, SealLengthFinal
<1>11. ASSUME NEW s \in Sealers, QueryAndSeal(s) \/ QueryAndSealFails(s) PROVE Data'
  <2>1. Kept
    BY <1>2, <1>11, RefusalKeepsData DEF QueryAndSeal, QueryAndSealFails
  <2>2. SealLengthFinal'
    BY <1>2, <1>3, <1>11 DEF QueryAndSeal, QueryAndSealFails, SealLengthFinal
  <2> QED
    BY <1>3, <1>11, <2>1, <2>2 DEF QueryAndSeal, QueryAndSealFails, Data, QueueAhead,
       ReplyCoversAppend
<1>12. ASSUME UNCHANGED <<mutex, size, state, file, queue, arg, status, reply, sealing>>
       PROVE  Data'
  <2>1. Kept
    BY <1>2, <1>12, RefusalKeepsData
  <2> QED
    BY <1>3, <1>12, <2>1 DEF Data, QueueAhead, SealLengthFinal, ReplyCoversAppend
<1>13. ASSUME NEW r \in Reqs, Wake(r) PROVE Data'
  BY <1>12, <1>13 DEF Wake
<1>14. ASSUME NEW q \in Queriers, QuerySize(q) \/ QueryState(q) PROVE Data'
  BY <1>12, <1>14 DEF QuerySize, QueryState
<1>15. CASE UNCHANGED vars
  BY <1>12, <1>15 DEF vars
<1> QED
  BY <1>4, <1>5, <1>6, <1>7, <1>8, <1>9, <1>10, <1>11, <1>13, <1>14, <1>15
     DEF Next, DrainStep, Finished

-----------------------------------------------------------------------------
(* Theorems *)

\* IndInv holds in every reachable state of the chunk (Chunk::append, its loop
\* and timer, query_and_seal and the handlers around them).
THEOREM Invariance == Spec => []IndInv
<1>1. Init => IndInv
  BY ControlInit, DataInit DEF IndInv
<1>2. IndInv /\ [Next]_vars => IndInv'
  BY ControlStep, DataStep DEF IndInv
<1> QED
  BY <1>1, <1>2, PTL DEF Spec

\* Type correctness of the chunk.
THEOREM TypeCorrect == Spec => []TypeOK
<1>1. IndInv => TypeOK
  BY DEF IndInv, Control
<1> QED
  BY <1>1, Invariance, PTL

\* What an append was answered is true of the file for ever: an OK has its bytes
\* where it asked, and the offset returned covers them.
THEOREM AnswersAreTrue == Spec => [](AckedInPlace /\ ReplyCoversAppend)
<1>1. IndInv => AckedInPlace /\ ReplyCoversAppend
  BY DEF IndInv, Data
<1> QED
  BY <1>1, Invariance, PTL

\* append's loop leaves no request behind that it could have served, and the
\* _size it compares offsets with is the length of the file.
THEOREM NoLostWakeup == Spec => [](QueueAhead /\ SizeIsFileLength)
<1>1. IndInv => QueueAhead /\ SizeIsFileLength
  BY DEF IndInv, Data
<1> QED
  BY <1>1, Invariance, PTL

\* A request that waits is not deleted under its timer, the queue or its caller:
\* the reference append takes for the timer callback outlives the others.
THEOREM RequestsOutliveUse == Spec => []RequestAlive
<1>1. IndInv => RequestAlive
  BY DEF IndInv, Control, TypeOK, RefsCounted, QueuedUndecided, RequestAlive
<1> QED
  BY <1>1, Invariance, PTL

\* The length query_and_seal returned is the length of the chunk from then on.
THEOREM SealIsFinal == Spec => []SealLengthFinal
<1>1. IndInv => SealLengthFinal
  BY DEF IndInv, Data
<1> QED
  BY <1>1, Invariance, PTL

\* The chunk implements the append-only log: append, its loop, its timer and
\* query_and_seal are steps of AppendLog or leave it alone.
THEOREM Refinement == Spec => ImplementsLog
<1> USE DEF Log!Errors, Errors
<1>1. Init => Log!LogInit
  BY DEF Init, CreatedState, Log!LogInit, Args, Log!Args
<1>2. IndInv /\ [Next]_vars => [Log!LogNext]_(Log!logVars)
  <2> SUFFICES ASSUME IndInv, [Next]_vars PROVE [Log!LogNext]_(Log!logVars)
    OBVIOUS
  <2>1. /\ TypeOK /\ SizeIsFileLength /\ AnswerFollowsPlace /\ QueuedUndecided
        /\ SealedIsFree /\ queue \in SUBSET Reqs
    BY DEF IndInv, Control, Data, TypeOK
  <2>2. ASSUME NEW r \in Reqs, status[r] = "none", UNCHANGED <<file, state, arg>>,
               NEW e \in Errors, e = "EPERM" => state = "kSealed",
               status' = [status EXCEPT ![r] = e]
        PROVE  Log!LogNext
    BY <2>2, Zenon DEF Log!LogNext, Log!Refuse
  <2>3. ASSUME NEW r \in Reqs, status[r] = "none", state # "kSealed",
               arg[r].offset = size, Write(r),
               status' = [status EXCEPT ![r] = "OK"], UNCHANGED <<state, arg>>
        PROVE  Log!LogNext
    BY <2>1, <2>3, Zenon DEF Log!LogNext, Log!Accept, Write, Bytes, Log!Bytes, SizeIsFileLength
  <2>4. ASSUME NEW r \in Reqs, AppendStep(r) PROVE [Log!LogNext]_(Log!logVars)
    <3>1. CASE AppendSealed(r)
      BY <2>1, <2>2, <3>1, Zenon DEF AppendSealed, Open, Return, AnswerFollowsPlace
    <3>2. CASE AppendBelowEnd(r)
      BY <2>1, <2>2, <3>2, Zenon DEF AppendBelowEnd, Return, AnswerFollowsPlace
    <3>3. CASE AppendWait(r)
      BY <3>3 DEF AppendWait, Log!logVars
    <3>4. CASE AppendAtEnd(r)
      BY <2>1, <2>3, <3>4, Zenon DEF AppendAtEnd, Open, AnswerFollowsPlace
    <3>5. CASE AppendAtEndFails(r)
      BY <2>1, <2>2, <3>5, Zenon DEF AppendAtEndFails, Return, AnswerFollowsPlace
    <3> QED
      BY <2>4, <3>1, <3>2, <3>3, <3>4, <3>5 DEF AppendStep
  <2>5. ASSUME NEW r \in Reqs, DrainStep(r) PROVE [Log!LogNext]_(Log!logVars)
    <3>1. ASSUME NEW q \in queue, DrainBelowEnd(r, q) PROVE Log!LogNext
      BY <2>1, <2>2, <3>1, Zenon DEF DrainBelowEnd, Answer, QueuedUndecided
    <3>2. ASSUME NEW q \in queue, DrainAtEndFails(r, q) PROVE Log!LogNext
      BY <2>1, <2>2, <3>2, Zenon DEF DrainAtEndFails, Answer, QueuedUndecided
    <3>3. ASSUME NEW q \in queue, DrainAtEnd(r, q) PROVE Log!LogNext
      BY <2>1, <2>3, <3>3, NobodyIsNoReq DEF DrainAtEnd, Answer, QueuedUndecided, SealedIsFree
    <3>4. CASE DrainEnd(r)
      BY <3>4 DEF DrainEnd, Log!logVars
    <3> QED
      BY <2>5, <3>1, <3>2, <3>3, <3>4 DEF DrainStep
  <2>6. ASSUME NEW r \in Reqs, Timeout(r) PROVE [Log!LogNext]_(Log!logVars)
    BY <2>2, <2>6 DEF Timeout, NotReady, Log!logVars
  <2>7. ASSUME NEW s \in Sealers, QueryAndSeal(s) PROVE [Log!LogNext]_(Log!logVars)
    BY <2>7 DEF QueryAndSeal, Log!LogNext, Log!SealLog
  <2>8. ASSUME UNCHANGED <<file, state, arg, status>> PROVE [Log!LogNext]_(Log!logVars)
    BY <2>8 DEF Log!logVars
  <2>9. ASSUME NEW r \in Reqs, Wake(r) \/ Respond(r) PROVE [Log!LogNext]_(Log!logVars)
    BY <2>8, <2>9 DEF Wake, Respond
  <2>10. ASSUME NEW s \in Sealers, QueryAndSealFails(s) PROVE [Log!LogNext]_(Log!logVars)
    BY <2>8, <2>10 DEF QueryAndSealFails
  <2>11. ASSUME NEW q \in Queriers, QuerySize(q) \/ QueryState(q)
         PROVE  [Log!LogNext]_(Log!logVars)
    BY <2>8, <2>11 DEF QuerySize, QueryState
  <2>12. CASE UNCHANGED vars
    BY <2>8, <2>12 DEF vars
  <2> QED
    BY <2>4, <2>5, <2>6, <2>7, <2>9, <2>10, <2>11, <2>12 DEF Next, Finished
<1> QED
  BY <1>1, <1>2, Invariance, PTL DEF Spec, ImplementsLog, Log!LogSpec

\* The loop and the timer never answer the same request twice, so the assertion
\* of FutureState::set_value holds: a step of the log answers the unanswered.
THEOREM NeverAnsweredTwice == Spec => AnsweredOnce
<1>1. TypeOK /\ [Log!LogNext]_(Log!logVars)
        => [\A r \in Reqs : status[r] # "none" => status'[r] = status[r]]_status
  BY DEF TypeOK, Log!LogNext, Log!Accept, Log!Refuse, Log!SealLog, Log!logVars
<1> QED
  BY <1>1, TypeCorrect, Refinement, PTL DEF ImplementsLog, Log!LogSpec, AnsweredOnce

\* A sealed chunk stays as it is: no append is under way, and none begins.
LEMMA SealedStays ==
  ASSUME IndInv, [Next]_vars, state = "kSealed"
  PROVE  state' = "kSealed" /\ file' = file /\ size' = size
<1>1. mutex \notin Reqs
  BY NobodyIsNoReq DEF IndInv, Control, SealedIsFree
<1>2. ASSUME NEW r \in Reqs, AppendStep(r) PROVE UNCHANGED <<state, file, size>>
  BY <1>2 DEF AppendStep, AppendSealed, AppendBelowEnd, AppendWait, AppendAtEnd, AppendAtEndFails, Open
<1>3. ASSUME NEW r \in Reqs, DrainStep(r) PROVE UNCHANGED <<state, file, size>>
  BY <1>1, <1>3 DEF DrainStep, DrainBelowEnd, DrainAtEnd, DrainAtEndFails, DrainEnd
<1>4. ASSUME NEW r \in Reqs, Timeout(r) \/ Wake(r) \/ Respond(r) PROVE UNCHANGED <<state, file, size>>
  BY <1>4 DEF Timeout, Wake, Respond
<1>5. ASSUME NEW s \in Sealers, QueryAndSeal(s) \/ QueryAndSealFails(s)
      PROVE  state' = "kSealed" /\ file' = file /\ size' = size
  BY <1>5 DEF QueryAndSeal, QueryAndSealFails
<1>6. ASSUME NEW q \in Queriers, QuerySize(q) \/ QueryState(q) PROVE UNCHANGED <<state, file, size>>
  BY <1>6 DEF QuerySize, QueryState
<1>7. CASE UNCHANGED vars
  BY <1>7 DEF vars
<1> QED
  BY <1>2, <1>3, <1>4, <1>5, <1>6, <1>7 DEF Next, Finished

\* what a query that begins on a sealed chunk has read so far
ReadsFinal(q) ==
  /\ state = "kSealed"
  /\ query[q].at \in {"sized", "done"} => query[q].size = Len(file)
  /\ query[q].at = "done" => query[q].sealed

\* QueryChunk is exact on a sealed chunk, without the mutex: size and state do
\* not move between its two reads.
THEOREM QueriesAreExact == Spec => QueryAfterSealExact
<1> DEFINE After(q)  == state = "kSealed" /\ query[q].at = "start"
           Exact(q)  == query[q].at = "done" => query[q].sealed /\ query[q].size = Len(file)
<1>1. ASSUME NEW q \in Queriers
      PROVE  Spec => [](After(q) => []Exact(q))
  <2>1. After(q) => ReadsFinal(q)
    BY DEF ReadsFinal
  <2>2. ReadsFinal(q) => Exact(q)
    BY DEF ReadsFinal
  <2>3. IndInv /\ ReadsFinal(q) /\ [Next]_vars => ReadsFinal(q)'
    <3>1. SUFFICES ASSUME IndInv, ReadsFinal(q), [Next]_vars PROVE ReadsFinal(q)'
      OBVIOUS
    <3>2. state = "kSealed" /\ state' = "kSealed" /\ file' = file /\ size = Len(file)
      BY <3>1, SealedStays DEF ReadsFinal, IndInv, Data, SizeIsFileLength
    <3>3. CASE query'[q] = query[q]
      BY <3>1, <3>2, <3>3 DEF ReadsFinal
    <3>4. CASE QuerySize(q)
      BY <3>2, <3>4 DEF QuerySize, ReadsFinal, IndInv, Control, TypeOK
    <3>5. CASE QueryState(q)
      BY <3>1, <3>2, <3>5, ZenonT(30) DEF QueryState, ReadsFinal, IndInv, Control, TypeOK
    <3>6. ASSUME NEW p \in Queriers, p # q, QuerySize(p) \/ QueryState(p)
          PROVE  query'[q] = query[q]
      BY <3>1, <3>6 DEF QuerySize, QueryState, IndInv, Control, TypeOK
    <3>7. ASSUME NEW r \in Reqs, AppendStep(r) \/ DrainStep(r) \/ Timeout(r) \/ Wake(r) \/ Respond(r)
          PROVE  query' = query
      BY <3>7, ZenonT(30) DEF AppendStep, AppendSealed, AppendBelowEnd, AppendWait, AppendAtEnd,
         AppendAtEndFails, DrainStep, DrainBelowEnd, DrainAtEnd, DrainAtEndFails, DrainEnd,
         Timeout, Wake, Respond
    <3>8. ASSUME NEW s \in Sealers, QueryAndSeal(s) \/ QueryAndSealFails(s)
          PROVE  query' = query
      BY <3>8 DEF QueryAndSeal, QueryAndSealFails
    <3>9. CASE UNCHANGED vars
      BY <3>3, <3>9 DEF vars
    <3> QED
      BY <3>1, <3>3, <3>4, <3>5, <3>6, <3>7, <3>8, <3>9 DEF Next, Finished
  <2> QED
    BY <2>1, <2>2, <2>3, Invariance, PTL DEF Spec
<1> QED
  BY <1>1 DEF QueryAfterSealExact

-----------------------------------------------------------------------------
(* The file as a whole *)

\* What a step does to the file: nothing, or one request that begins at its end
\* is put behind the bytes that are there, and only while the chunk is open.
LEMMA LogGrows ==
  ASSUME TypeOK, TypeOK', [Log!LogNext]_(Log!logVars)
  PROVE  /\ arg' = arg
         /\ state = "kSealed" => state' = "kSealed" /\ file' = file
         /\ \/ file' = file
            \/ \E r \in Reqs : /\ arg[r].offset = Len(file)
                               /\ Len(file') = Len(file) + arg[r].len
                               /\ \A i \in 1..Len(file) : file'[i] = file[i]
                               /\ \A i \in 1..Len(file') : i > Len(file) => file'[i] = r
<1>1. ASSUME NEW r \in Reqs, Log!Accept(r)
      PROVE  /\ state # "kSealed" /\ arg' = arg /\ arg[r].offset = Len(file)
             /\ Len(file') = Len(file) + arg[r].len
             /\ \A i \in 1..Len(file) : file'[i] = file[i]
             /\ \A i \in 1..Len(file') : i > Len(file) => file'[i] = r
  <2>1. arg[r].len \in Nat
    BY LengthsAreNat, Zenon DEF TypeOK, Args
  <2>2. Bytes(r) \in Seq(Reqs) /\ Len(Bytes(r)) = arg[r].len
    BY <2>1 DEF Bytes
  <2>3. \A i \in 1..arg[r].len : Bytes(r)[i] = r
    BY DEF Bytes
  <2>4. file' = file \o Bytes(r)
    BY <1>1, Zenon DEF Log!Accept, Log!Bytes, Bytes
  <2> HIDE DEF Bytes
  <2>5. file \in Seq(Reqs)
    BY DEF TypeOK
  <2>6. Len(file') = Len(file) + arg[r].len
    BY <2>2, <2>4, <2>5
  <2>7. \A i \in 1..Len(file) : file'[i] = file[i]
    BY <2>2, <2>4, <2>5
  <2>8. ASSUME NEW i \in 1..Len(file'), i > Len(file) PROVE file'[i] = r
    <3>1. i - Len(file) \in 1..arg[r].len
      BY <2>1, <2>5, <2>6, <2>8
    <3>2. (file \o Bytes(r))[i] = Bytes(r)[i - Len(file)]
      BY <2>1, <2>2, <2>5, <2>6, <2>8
    <3> QED
      BY <2>3, <2>4, <3>1, <3>2
  <2>9. state # "kSealed" /\ arg' = arg /\ arg[r].offset = Len(file)
    BY <1>1 DEF Log!Accept
  <2> QED
    BY <2>6, <2>7, <2>8, <2>9
<1>2. ASSUME NEW r \in Reqs, Log!Refuse(r)
      PROVE  file' = file /\ arg' = arg /\ (state' = "kSealed" <=> state = "kSealed")
  BY <1>2 DEF Log!Refuse
<1>3. ASSUME Log!SealLog PROVE file' = file /\ arg' = arg /\ state' = "kSealed"
  BY <1>3 DEF Log!SealLog
<1>4. ASSUME UNCHANGED Log!logVars
      PROVE  file' = file /\ arg' = arg /\ (state' = "kSealed" <=> state = "kSealed")
  BY <1>4 DEF Log!logVars
<1> QED
  BY <1>1, <1>2, <1>3, <1>4, Zenon DEF Log!LogNext

\* No byte of the file is changed or taken away, and once the chunk is sealed
\* none is added: readers may keep what they have read.
BytesStay ==
  [][/\ Len(file) <= Len(file')
     /\ \A i \in 1..Len(file) : file'[i] = file[i]
     /\ state = "kSealed" => state' = "kSealed" /\ file' = file]_vars

\* Chunk::append writes behind the end only, in whatever order requests come
\* and are drained, and never after query_and_seal.
THEOREM FileOnlyGrows == Spec => BytesStay
<1>1. TypeOK /\ TypeOK' /\ [Log!LogNext]_(Log!logVars)
        => [/\ Len(file) <= Len(file')
            /\ \A i \in 1..Len(file) : file'[i] = file[i]
            /\ state = "kSealed" => state' = "kSealed" /\ file' = file]_vars
  <2> SUFFICES ASSUME TypeOK, TypeOK', [Log!LogNext]_(Log!logVars)
               PROVE  /\ Len(file) <= Len(file')
                      /\ \A i \in 1..Len(file) : file'[i] = file[i]
                      /\ state = "kSealed" => state' = "kSealed" /\ file' = file
    OBVIOUS
  <2>1. \A r \in Reqs : arg[r].len \in Nat
    BY LengthsAreNat, Zenon DEF TypeOK, Args
  <2>2. Len(file) \in Nat
    BY DEF TypeOK
  <2> QED
    BY <2>1, <2>2, LogGrows
<1> QED
  BY <1>1, TypeCorrect, Refinement, PTL DEF ImplementsLog, Log!LogSpec, BytesStay

\* every byte lies where its request asked for it
BytesInPlace ==
  \A i \in 1..Len(file) :
    arg[file[i]].offset < i /\ i <= arg[file[i]].offset + arg[file[i]].len

\* Chunk::append compares the offset with _size before it writes, for requests
\* that arrive at the end and for those that waited in the queue alike.
THEOREM AppendsMakeTheFile == Spec => []FileIsItsAppends
<1>1. Init => BytesInPlace
  BY DEF Init, BytesInPlace
<1>2. TypeOK /\ TypeOK' /\ BytesInPlace /\ [Log!LogNext]_(Log!logVars) => BytesInPlace'
  <2> SUFFICES ASSUME TypeOK, TypeOK', BytesInPlace, [Log!LogNext]_(Log!logVars),
                      NEW i \in 1..Len(file')
               PROVE  arg'[file'[i]].offset < i /\ i <= arg'[file'[i]].offset + arg'[file'[i]].len
    BY Zenon DEF BytesInPlace
  <2>1. arg' = arg /\ Len(file) \in Nat /\ Len(file') \in Nat
    BY LogGrows DEF TypeOK
  <2>2. CASE file' = file
    BY <2>1, <2>2 DEF BytesInPlace
  <2>3. ASSUME NEW r \in Reqs, arg[r].offset = Len(file),
               Len(file') = Len(file) + arg[r].len,
               \A k \in 1..Len(file) : file'[k] = file[k],
               \A k \in 1..Len(file') : k > Len(file) => file'[k] = r
        PROVE  arg[file'[i]].offset < i /\ i <= arg[file'[i]].offset + arg[file'[i]].len
    <3>1. CASE i > Len(file)
      BY <2>1, <2>3, <3>1
    <3>2. CASE i \in 1..Len(file)
      BY <2>3, <3>2 DEF BytesInPlace
    <3> QED
      BY <2>1, <3>1, <3>2
  <2> QED
    BY <2>1, <2>2, <2>3, LogGrows, Zenon
<1>3. IndInv /\ BytesInPlace => FileIsItsAppends
  <2> SUFFICES ASSUME IndInv, BytesInPlace, NEW i \in 1..Len(file), NEW r \in Reqs
               PROVE  file[i] = r <=> /\ status[r] = "OK"
                                      /\ arg[r].offset < i /\ i <= arg[r].offset + arg[r].len
    BY Zenon DEF FileIsItsAppends
  <2>1. file[i] = r => /\ status[r] = "OK"
                       /\ arg[r].offset < i /\ i <= arg[r].offset + arg[r].len
    BY DEF IndInv, Data, RefusedLeavesNothing, BytesInPlace
  <2>2. ASSUME status[r] = "OK", arg[r].offset < i, i <= arg[r].offset + arg[r].len
        PROVE  file[i] = r
    <3>1. arg[r].offset \in Nat /\ arg[r].len \in Nat
      BY OffsetsAreNat, LengthsAreNat, Zenon DEF IndInv, Control, TypeOK, Args
    <3>2. i - arg[r].offset \in 1..arg[r].len /\ arg[r].offset + (i - arg[r].offset) = i
      BY <2>2, <3>1
    <3> QED
      BY <2>2, <3>2 DEF IndInv, Data, AckedInPlace
  <2> QED
    BY <2>1, <2>2
<1> QED
  BY <1>1, <1>2, <1>3, Invariance, TypeCorrect, Refinement, PTL DEF Spec, ImplementsLog, Log!LogSpec

-----------------------------------------------------------------------------
(* What the liveness of appends rests on *)

\* An append that waits and has no answer yet has its timer armed, also one that
\* was never linked in the queue or whose chunk has been sealed.
WaiterHasTimer ==
  \A r \in Reqs : pc[r] = "waiting" /\ status[r] = "none" => timer[r] = "armed"

\* Nobody waits in Chunk::append without somebody who will answer: the timer goes
\* off only together with an answer.
THEOREM WaitersAreAnswerable == Spec => []WaiterHasTimer
<1>1. Init => WaiterHasTimer
  BY DEF Init, WaiterHasTimer
<1>2. TypeOK /\ WaiterHasTimer /\ [Next]_vars => WaiterHasTimer'
  <2> SUFFICES ASSUME TypeOK, WaiterHasTimer, [Next]_vars PROVE WaiterHasTimer'
    OBVIOUS
  <2>1. ASSUME NEW r \in Reqs, AppendStep(r) PROVE WaiterHasTimer'
    BY <2>1 DEF AppendStep, AppendSealed, AppendBelowEnd, AppendWait, AppendAtEnd,
       AppendAtEndFails, Return, TypeOK, WaiterHasTimer
  <2>2. ASSUME NEW r \in Reqs, DrainStep(r) PROVE WaiterHasTimer'
    BY <2>2 DEF DrainStep, DrainBelowEnd, DrainAtEnd, DrainAtEndFails, DrainEnd, Answer, TypeOK,
       WaiterHasTimer
  <2>3. ASSUME NEW r \in Reqs, Timeout(r) \/ Wake(r) \/ Respond(r) PROVE WaiterHasTimer'
    BY <2>3 DEF Timeout, NotReady, Wake, Respond, TypeOK, WaiterHasTimer
  <2>4. ASSUME UNCHANGED <<pc, status, timer>> PROVE WaiterHasTimer'
    BY <2>4 DEF WaiterHasTimer
  <2>5. ASSUME NEW s \in Sealers, QueryAndSeal(s) \/ QueryAndSealFails(s) PROVE WaiterHasTimer'
    BY <2>4, <2>5 DEF QueryAndSeal, QueryAndSealFails
  <2>6. ASSUME NEW q \in Queriers, QuerySize(q) \/ QueryState(q) PROVE WaiterHasTimer'
    BY <2>4, <2>6 DEF QuerySize, QueryState
  <2>7. CASE UNCHANGED vars
    BY <2>4, <2>7 DEF vars
  <2> QED
    BY <2>1, <2>2, <2>3, <2>5, <2>6, <2>7 DEF Next, Finished
<1> QED
  BY <1>1, <1>2, TypeCorrect, PTL DEF Spec
==============================================================================
