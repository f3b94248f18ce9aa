--------------------------- MODULE ContextStorage ---------------------------
(***************************************************************************)
(* The stack of tracing contexts of a bthread                              *)
(* (src/base/bthread_local_context_storage.cc): an array that doubles when *)
(* it is full.  base has capacity_ slots, the first size of them in use.   *)
(***************************************************************************)
EXTENDS Integers, Sequences

CONSTANT Root  \* the empty Context

EmptyStack == [size |-> 0, base |-> <<>>]

Top(s) == IF s.size = 0 THEN Root ELSE s.base[s.size]

Pop(s) ==
  IF s.size = 0 THEN s
  ELSE [size |-> s.size - 1, base |-> [s.base EXCEPT ![s.size] = Root]]

Contains(s, token) == \E i \in 1..s.size : s.base[i] = token

\* mutant: one slot too few is copied
ResizeShort(s, capacity) ==
  [s EXCEPT !.base = [i \in 1..capacity |-> IF i < s.size - 1 THEN s.base[i] ELSE Root]]

\* Push has counted the new context already: old_size is size_ - 1
Resize(s, capacity) ==
  [s EXCEPT !.base = [i \in 1..capacity |-> IF i <= s.size - 1 THEN s.base[i] ELSE Root]]

Push(s, context) ==
  LET counted == [s EXCEPT !.size = @ + 1]
      roomy   == IF counted.size > Len(s.base) THEN Resize(counted, counted.size * 2) ELSE counted
  IN [roomy EXCEPT !.base[roomy.size] = context]

\* mutant: the loop stops at the token's context and leaves it there
PopThroughShort(s, i) ==
  [size |-> i, base |-> [j \in 1..Len(s.base) |-> IF j \in (i + 1)..s.size THEN Root ELSE s.base[j]]]

\* the loop of Detach and the Pop behind it, down to slot i
PopThrough(s, i) ==
  [size |-> i - 1, base |-> [j \in 1..Len(s.base) |-> IF j \in i..s.size THEN Root ELSE s.base[j]]]

\* the token's context on the top, nowhere, or below children that go with it
Detach(s, token) ==
  IF token = Top(s) THEN Pop(s)
  ELSE IF ~Contains(s, token) THEN s
  ELSE PopThrough(s, CHOOSE i \in 1..s.size :
                       s.base[i] = token /\ \A j \in (i + 1)..s.size : s.base[j] # token)
=============================================================================
