------------------------------- MODULE Client -------------------------------
(***************************************************************************)
(* The client side of the metadata service: FileSystem (src/pain) learns   *)
(* the servers from asura, and call_rpc (src/deva/sdk) finds the leader in *)
(* braft's RouteTable, which all callers of the process share, sends the   *)
(* request, and gives up or goes round its loop.                           *)
(*                                                                         *)
(* The RouteTable and the network are external: a refresh finds some peer  *)
(* of the configuration or fails, a call that fails may or may not have    *)
(* reached the server.  What the server put into its answer is left out:   *)
(* FileSystem looks at the status of call_rpc only, and takes the header   *)
(* of a refusal, and the all-zero id that comes with it, for success.      *)
(* None of src/deva answers EREMCHG, so the redirect that call_rpc has for *)
(* it is left out too.                                                     *)
(***************************************************************************)
EXTENDS Integers, FiniteSets

CONSTANTS
  Callers,  \* bthreads that use the file system
  Peers,    \* the servers of the group
  MaxCalls, \* bound on the calls a caller makes
  None      \* no leader known

ASSUME NoneIsNoPeer == None \notin Peers

VARIABLES
  conf,     \* the configuration of group "default" in the RouteTable
  route,    \* its leader there
  pc,       \* pc[c]: where the caller is
  peer,     \* peer[c]: its local leader
  result,   \* result[c]: the status it was returned last
  calls,    \* calls[c]: calls begun
  sent,     \* sent[c]: times the present request went out
  executed  \* executed[c]: times a server executed it (history)

vars == <<conf, route, pc, peer, result, calls, sent, executed>>

request == <<sent, executed>>

Init ==
  /\ conf = {} /\ route = None
  /\ pc = [c \in Callers |-> "unmounted"]
  /\ peer = [c \in Callers |-> None]
  /\ result = [c \in Callers |-> "none"]
  /\ calls = [c \in Callers |-> 0]
  /\ sent = [c \in Callers |-> 0]
  /\ executed = [c \in Callers |-> 0]

-----------------------------------------------------------------------------
Goto(c, p) == pc' = [pc EXCEPT ![c] = p]

Return(c, s) ==
  /\ Goto(c, "idle")
  /\ result' = [result EXCEPT ![c] = s]

\* FileSystem::create: the servers that ListDeva returned become the
\* configuration; a leader that is not among them is forgotten
CreateFs(c, devas) ==
  /\ pc[c] = "unmounted"
  /\ conf' = devas
  /\ route' = IF route \in devas THEN route ELSE None
  /\ Goto(c, "idle")
  /\ UNCHANGED <<peer, result, calls, request>>

\* the channel to asura or the call fails; the caller may try again
CreateFsFails(c) ==
  /\ pc[c] = "unmounted" /\ calls[c] < MaxCalls
  /\ calls' = [calls EXCEPT ![c] = @ + 1]
  /\ result' = [result EXCEPT ![c] = "EINVAL"]
  /\ UNCHANGED <<conf, route, pc, peer, request>>

\* FileSystem::open, remove or mkdir
Begin(c) ==
  /\ pc[c] = "idle" /\ calls[c] < MaxCalls
  /\ calls' = [calls EXCEPT ![c] = @ + 1]
  /\ sent' = [sent EXCEPT ![c] = 0]
  /\ executed' = [executed EXCEPT ![c] = 0]
  /\ result' = [result EXCEPT ![c] = "none"]
  /\ Goto(c, "select")
  /\ UNCHANGED <<conf, route, peer>>

SelectLeader(c) ==
  /\ pc[c] = "select"
  /\ peer' = [peer EXCEPT ![c] = route]
  /\ Goto(c, IF route = None THEN "refresh" ELSE "init")
  /\ UNCHANGED <<conf, route, result, calls, request>>

RefreshLeader(c) ==
  /\ pc[c] = "refresh"
  /\ route' \in conf
  /\ Goto(c, "select")
  /\ UNCHANGED <<conf, peer, result, calls, request>>

\* mutant: ask again for ever, as the comment says
RefreshFailsRetry(c) ==
  /\ pc[c] = "refresh"
  /\ Goto(c, "select")
  /\ UNCHANGED <<conf, route, peer, result, calls, request>>

RefreshFails(c) ==
  /\ pc[c] = "refresh"
  /\ Return(c, "unknown_leader")
  /\ UNCHANGED <<conf, route, peer, calls, request>>

InitChannel(c) ==
  /\ pc[c] = "init"
  /\ Goto(c, "call")
  /\ UNCHANGED <<conf, route, peer, result, calls, request>>

\* init_channel forgets the leader of the group
InitChannelFails(c) ==
  /\ pc[c] = "init"
  /\ route' = None
  /\ Return(c, "ECONNREFUSED")
  /\ UNCHANGED <<conf, peer, calls, request>>

\* the request goes out once (max_retry is 0), and reaches the server or not
Issue(c) ==
  /\ pc[c] = "call"
  /\ sent' = [sent EXCEPT ![c] = @ + 1]
  /\ UNCHANGED executed \/ executed' = [executed EXCEPT ![c] = @ + 1]
  /\ Goto(c, "sent")
  /\ UNCHANGED <<conf, route, peer, result, calls>>

\* whatever the status in the header is
Answered(c) ==
  /\ pc[c] = "sent" /\ executed[c] > 0
  /\ Return(c, "OK")
  /\ UNCHANGED <<conf, route, peer, calls, request>>

\* mutant: a call that failed is sent again
CallFailsRetry(c) ==
  /\ pc[c] = "sent"
  /\ Goto(c, "select")
  /\ UNCHANGED <<conf, route, peer, result, calls, request>>

\* refused, broken or timed out, also after the server executed it.  It forgets
\* the leader of group "deva", which is not the group of the call.
CallFails(c) ==
  /\ pc[c] = "sent"
  /\ Return(c, "failed")
  /\ UNCHANGED <<conf, route, peer, calls, request>>

\* all calls are made
Finished ==
  /\ \A c \in Callers : pc[c] \in {"idle", "unmounted"} /\ calls[c] = MaxCalls
  /\ UNCHANGED vars

CallRpc(c) ==
  \/ SelectLeader(c) \/ RefreshLeader(c) \/ RefreshFails(c)
  \/ InitChannel(c) \/ InitChannelFails(c)
  \/ Issue(c) \/ Answered(c) \/ CallFails(c)

CallerStep(c) ==
  \/ \E devas \in SUBSET Peers : CreateFs(c, devas)
  \/ CreateFsFails(c) \/ Begin(c)
  \/ CallRpc(c)

Next == (\E c \in Callers : CallerStep(c)) \/ Finished

Spec == Init /\ [][Next]_vars

\* a bthread inside call_rpc goes on: its RPCs end, if only by their timeouts
FairSpec == Spec /\ \A c \in Callers : WF_vars(CallRpc(c))

-----------------------------------------------------------------------------
(* Properties *)

\* One call of the file system makes at most one server execute it, whatever
\* call_rpc meets; OK means it was executed, and an error before the request
\* went out means it was not.
ExecutedOnce ==
  \A c \in Callers :
    /\ executed[c] <= 1
    /\ result[c] = "OK" => executed[c] = 1
    /\ result[c] \in {"unknown_leader", "ECONNREFUSED"} => sent[c] = 0 /\ executed[c] = 0

\* Every call returns: its loop ends although other callers clear the leader
\* it has just refreshed.
CallReturns == \A c \in Callers : pc[c] = "select" ~> pc[c] = "idle"
=============================================================================
