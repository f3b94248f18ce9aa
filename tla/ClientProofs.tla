---------------------------- MODULE ClientProofs ----------------------------
(***************************************************************************)
(* Proofs about Client, for any number of callers, servers and calls.  How *)
(* often a request went out follows from where its caller is: call_rpc     *)
(* sends it on the way to "sent" and never comes back from there.          *)
(***************************************************************************)
EXTENDS Client, TLAPS

CallerInv(c) ==
  /\ pc[c] \in {"unmounted", "idle", "select", "refresh", "init", "call", "sent"}
  /\ result[c] \in {"none", "EINVAL", "unknown_leader", "ECONNREFUSED", "OK", "failed"}
  /\ sent[c] \in Nat /\ executed[c] \in 0..1 /\ executed[c] <= sent[c]
  /\ pc[c] \in {"unmounted", "select", "refresh", "init", "call"} => sent[c] = 0
  /\ pc[c] \in {"select", "refresh", "init", "call", "sent"} => result[c] = "none"
  /\ pc[c] = "unmounted" => result[c] \in {"none", "EINVAL"}
  /\ result[c] = "OK" => executed[c] = 1
  /\ result[c] \in {"unknown_leader", "ECONNREFUSED"} => sent[c] = 0

\* each variable is a function on the callers
Functions ==
  /\ pc = [c \in Callers |-> pc[c]] /\ result = [c \in Callers |-> result[c]]
  /\ sent = [c \in Callers |-> sent[c]] /\ executed = [c \in Callers |-> executed[c]]

ClientInv == Functions /\ \A c \in Callers : CallerInv(c)

\* what the invariant of a caller is about stays the same
Alone(c) == /\ pc'[c] = pc[c] /\ result'[c] = result[c]
            /\ sent'[c] = sent[c] /\ executed'[c] = executed[c]

\* A caller's step is seen by other callers only in the RouteTable.
LEMMA OthersAlone ==
  ASSUME ClientInv, NEW c \in Callers, CallerStep(c)
  PROVE  Functions' /\ \A d \in Callers \ {c} : Alone(d)
  BY DEF ClientInv, Functions, Alone, CallerStep, CallRpc, CreateFs, CreateFsFails, Begin,
     SelectLeader, RefreshLeader, RefreshFails, InitChannel, InitChannelFails, Issue, Answered,
     CallFails, Return, Goto, request

\* A caller's own step keeps its invariant.
LEMMA CallerKeeps ==
  ASSUME ClientInv, NEW c \in Callers, CallerStep(c) PROVE CallerInv(c)'
<1>0. CallerInv(c) /\ Functions
  BY DEF ClientInv
<1> USE <1>0 DEF CallerInv, Functions, Return, Goto, request
<1>1. ASSUME NEW devas \in SUBSET Peers, CreateFs(c, devas) PROVE CallerInv(c)'
  BY <1>1 DEF CreateFs
<1>2. CASE CreateFsFails(c)
  BY <1>2 DEF CreateFsFails
<1>3. CASE Begin(c)
  BY <1>3 DEF Begin
<1>4. CASE SelectLeader(c)
  BY <1>4 DEF SelectLeader
<1>5. CASE RefreshLeader(c) \/ RefreshFails(c)
  BY <1>5 DEF RefreshLeader, RefreshFails
<1>6. CASE InitChannel(c) \/ InitChannelFails(c)
  BY <1>6 DEF InitChannel, InitChannelFails
<1>7. CASE Issue(c)
  BY <1>7 DEF Issue
<1>8. CASE Answered(c)
  BY <1>8 DEF Answered
<1>9. CASE CallFails(c)
  BY <1>9 DEF CallFails
<1>10. QED
  BY <1>1, <1>2, <1>3, <1>4, <1>5, <1>6, <1>7, <1>8, <1>9 DEF CallerStep, CallRpc

\* Every step keeps the invariant.
LEMMA ClientInvStep == ClientInv /\ [Next]_vars => ClientInv'
<1> SUFFICES ASSUME ClientInv, [Next]_vars PROVE ClientInv'
  OBVIOUS
<1>1. ASSUME NEW c \in Callers, CallerStep(c) PROVE ClientInv'
  <2>1. ASSUME NEW d \in Callers, d # c PROVE CallerInv(d)'
    <3>1. CallerInv(d) /\ Alone(d)
      BY <1>1, <2>1, OthersAlone DEF ClientInv
    <3>2. QED
      BY <3>1 DEF Alone, CallerInv
  <2>2. QED
    BY <1>1, <2>1, OthersAlone, CallerKeeps DEF ClientInv
<1>2. CASE UNCHANGED vars
  BY <1>2 DEF vars, ClientInv, Functions, CallerInv
<1>3. QED
  BY <1>1, <1>2 DEF Next, Finished

\* Whatever callers of the process do to the shared RouteTable, a request of
\* call_rpc goes out at most once, OK means that a server executed it, and an
\* error before it went out that none did.
THEOREM CallsAreExact == Spec => []ExecutedOnce
<1>1. Init => ClientInv
  <2> SUFFICES ASSUME Init PROVE ClientInv
    OBVIOUS
  <2>1. Functions
    BY DEF Init, Functions
  <2>2. ASSUME NEW c \in Callers PROVE CallerInv(c)
    BY DEF Init, CallerInv
  <2>3. QED
    BY <2>1, <2>2 DEF ClientInv
<1>2. ClientInv => ExecutedOnce
  <2> SUFFICES ASSUME ClientInv, NEW c \in Callers
               PROVE  /\ executed[c] <= 1
                      /\ result[c] = "OK" => executed[c] = 1
                      /\ result[c] \in {"unknown_leader", "ECONNREFUSED"} => sent[c] = 0 /\ executed[c] = 0
    BY DEF ExecutedOnce
  <2>1. CallerInv(c)
    BY DEF ClientInv
  <2>2. QED
    BY <2>1 DEF CallerInv
<1>3. QED
  BY <1>1, <1>2, ClientInvStep, PTL DEF Spec
=============================================================================
