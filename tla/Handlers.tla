------------------------------ MODULE Handlers ------------------------------
(***************************************************************************)
(* RPC handlers: bthreads that open tracing scopes (the SPAN macros of     *)
(* src/manusya/macro.h and its siblings, src/base/tracer.cc) and wait in   *)
(* Future::get meanwhile.  A scope attaches a context to the bthread's own *)
(* stack and detaches it when it is left; a request carries the trace of   *)
(* the caller's current context to the handler that serves it.             *)
(*                                                                         *)
(* bthreads come and go, and brpc hands the key table of one that has      *)
(* ended to another (external): what a handler left on its stack would be  *)
(* what the next one starts with.                                          *)
(***************************************************************************)
EXTENDS Future, ContextStorage

CONSTANTS
  KeyTables, \* key tables of the pool
  MaxDepth   \* bound on nested scopes

\* contexts of scopes: whose, in which trace, how deep
Contexts == [of : Getters, trace : Getters, depth : Nat]

ASSUME RootIsNoContext == Root \notin Contexts
ASSUME NullIsNoThread == Null \notin Getters \cup KeyTables

VARIABLES
  table,  \* table[g]: the key table bthread g runs with, Null before and after
  stack,  \* stack[k]: the Stack that BthreadLocal finds in key table k
  open,   \* open[g]: the contexts of the scopes g is in, outermost first
  trace,  \* trace[g]: the trace of the request g serves (history)
  sent    \* traces that requests on their way carry

contextVars == <<table, stack, open, trace, sent>>
handlerVars == <<vars, contextVars>>

HandlersInit ==
  /\ Init
  /\ table = [g \in Getters |-> Null]
  /\ stack = [k \in KeyTables |-> EmptyStack]
  /\ open = [g \in Getters |-> <<>>]
  /\ trace = [g \in Getters |-> Null]
  /\ sent = {Null}

\* outside of get, with a bthread of its own
Runs(g) == table[g] # Null /\ at[g] \in {"none", "done"}

-----------------------------------------------------------------------------
(* Scopes *)

\* bthread_getspecific, and a new Stack where there is none
GetStack(g) == stack[table[g]]

\* StartSpan makes a child of the span it is given or of the current one, and
\* a trace of its own where there is neither
TraceOf(g, parent, current) ==
  IF parent # Null THEN parent ELSE IF current # Root THEN current.trace ELSE g

\* every WithActiveSpan attaches a context that is not on the stack
Scope(g, t) == [of |-> g, trace |-> t, depth |-> Len(open[g]) + 1]

\* mutant: key tables are shared, as thread_local would be by the bthreads of
\* a worker
FreeTableAny(k) == TRUE

FreeTable(k) == \A g \in Getters : table[g] # k

\* DEFINE_SPAN: a handler begins, under the trace its request carries
Serve(g, k, parent) ==
  /\ trace[g] = Null /\ FreeTable(k) /\ parent \in sent
  /\ LET c == Scope(g, TraceOf(g, parent, Top(stack[k]))) IN
     /\ stack' = [stack EXCEPT ![k] = Push(@, c)]
     /\ open' = [open EXCEPT ![g] = <<c>>]
  /\ table' = [table EXCEPT ![g] = k]
  /\ trace' = [trace EXCEPT ![g] = IF parent # Null THEN parent ELSE g]
  /\ UNCHANGED <<sent, vars>>

\* SPAN
EnterScope(g) ==
  /\ Runs(g) /\ Len(open[g]) < MaxDepth
  /\ LET c == Scope(g, TraceOf(g, Null, Top(GetStack(g)))) IN
     /\ stack' = [stack EXCEPT ![table[g]] = Push(@, c)]
     /\ open' = [open EXCEPT ![g] = Append(@, c)]
  /\ UNCHANGED <<table, trace, sent, vars>>

\* the destructor of the innermost scope's token
DetachInnermost(g) ==
  stack' = [stack EXCEPT ![table[g]] = Detach(@, open[g][Len(open[g])])]

\* with the outermost scope the handler ends, and its key table is free again
LeaveScope(g) ==
  /\ Runs(g)
  /\ DetachInnermost(g)
  /\ open' = [open EXCEPT ![g] = SubSeq(@, 1, Len(@) - 1)]
  /\ table' = IF Len(open[g]) = 1 THEN [table EXCEPT ![g] = Null] ELSE table
  /\ UNCHANGED <<trace, sent, vars>>

\* inject_tracer: a request to another server carries the current trace
Call(g) ==
  /\ Runs(g)
  /\ sent' = sent \cup {Top(GetStack(g)).trace}
  /\ UNCHANGED <<table, stack, open, trace, vars>>

-----------------------------------------------------------------------------
(* Waiting, and the promises of others *)

\* a future is taken or made inside the handler, and waited for there
Await(g) ==
  /\ table[g] # Null
  /\ GetterStep(g)
  /\ UNCHANGED contextVars

Promised(p) == PromiseStep(p) /\ UNCHANGED contextVars

AllServed ==
  /\ \A g \in Getters : trace[g] # Null /\ table[g] = Null
  /\ UNCHANGED handlerVars

HandlersNext ==
  \/ \E g \in Getters :
       \/ \E k \in KeyTables, t \in sent : Serve(g, k, t)
       \/ EnterScope(g) \/ LeaveScope(g) \/ Call(g) \/ Await(g)
  \/ \E p \in Promises : Promised(p)
  \/ AllServed

HandlersSpec == HandlersInit /\ [][HandlersNext]_handlerVars

\* A bthread that can run runs.  Nothing is assumed of the owners of promises: a
\* closure that braft never calls keeps its promise for ever.
HandlersFairSpec ==
  /\ HandlersSpec
  /\ \A g \in Getters : WF_handlerVars((Sleep(g) \/ GetReturn(g)) /\ UNCHANGED contextVars)

-----------------------------------------------------------------------------
(* Properties *)

\* stack s holds the contexts of the sequence q
Holds(s, q) ==
  /\ s.size = Len(q)
  /\ \A i \in 1..Len(q) : s.base[i] = q[i]

\* The stack of a bthread holds the contexts of the scopes it is in, whatever
\* others did while it waited, and nothing is left on it for the bthread that
\* gets its key table next: GetCurrent is the innermost scope of the caller.
StackIsScopes ==
  \A k \in KeyTables :
    IF FreeTable(k) THEN stack[k].size = 0
    ELSE \A g \in Getters : table[g] = k => Holds(stack[k], open[g])

\* Spans and requests stay in the trace of the request they are made for: no
\* handler continues the trace of another one.
TraceKept ==
  /\ \A g \in Getters : \A i \in 1..Len(open[g]) : open[g][i].trace = trace[g]
  /\ sent \subseteq {Null} \cup {trace[g] : g \in Getters}

\* "Resets the context to the value previous to the passed in token. This will
\* also detach all child contexts of the passed in token": for every scope that
\* is open, not only for the innermost.
DetachRestores ==
  \A g \in Getters : table[g] # Null =>
    \A i \in 1..Len(open[g]) :
      Holds(Detach(GetStack(g), open[g][i]), SubSeq(open[g], 1, i - 1))
=============================================================================
