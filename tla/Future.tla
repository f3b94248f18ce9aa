------------------------------- MODULE Future -------------------------------
(***************************************************************************)
(* Promise and Future (include/pain/base/future.h), on which an append     *)
(* waits for its turn and an RPC handler for the replicated log.           *)
(*                                                                         *)
(* A FutureState is shared by the promise that will fill it and the future *)
(* somebody waits on.  The promise is moved from owner to owner (into a    *)
(* callback, see bridge.h) and set once or dropped; a destructor that      *)
(* finds nothing set breaks it.  Each state has one future, as at both     *)
(* places of the code that wait (bridge.h, chunk.cc): notify_one wakes one *)
(* bthread and get moves the value out.                                    *)
(***************************************************************************)
CONSTANTS
  Promises, \* Promise objects
  States,   \* FutureState objects
  Getters,  \* bthreads that wait
  Values,   \* what a promise is set to
  Null      \* no state, no value

ASSUME NullIsNoValue == Null \notin Values \cup States

VARIABLES
  life,     \* life[p]: "unborn", "alive" or "dead"
  holds,    \* holds[p]: Promise::_state
  state,    \* state[s]: FutureState::state
  value,    \* value[s]: the value in FutureState::u
  set,      \* set[s]: what the state's promise was set to (history)
  future,   \* future[g]: the state of g's Future
  at,       \* at[g]: where g is in FutureState::get
  result    \* result[g]: what get returned or threw

vars == <<life, holds, state, value, set, future, at, result>>

Init ==
  /\ life = [p \in Promises |-> "unborn"]
  /\ holds = [p \in Promises |-> Null]
  /\ state = [s \in States |-> "kFuture"]
  /\ value = [s \in States |-> Null]
  /\ set = [s \in States |-> Null]
  /\ future = [g \in Getters |-> Null]
  /\ at = [g \in Getters |-> "none"]
  /\ result = [g \in Getters |-> Null]

Fresh(s) == (\A p \in Promises : holds[p] # s) /\ state[s] = "kFuture"
            /\ \A g \in Getters : future[g] # s

-----------------------------------------------------------------------------
(* Promise *)

Construct(p, s) ==
  /\ life[p] = "unborn" /\ Fresh(s)
  /\ life' = [life EXCEPT ![p] = "alive"]
  /\ holds' = [holds EXCEPT ![p] = s]
  /\ UNCHANGED <<state, value, set, future, at, result>>

\* mutant: the moved-from promise keeps its state
TakeStateCopied(p, q) == [holds EXCEPT ![p] = holds[q]]

\* std::exchange(other._state, nullptr)
TakeState(p, q) == [holds EXCEPT ![p] = holds[q], ![q] = Null]

MoveConstruct(p, q) ==
  /\ life[p] = "unborn" /\ life[q] = "alive" /\ holds[q] # Null
  /\ life' = [life EXCEPT ![p] = "alive"]
  /\ holds' = TakeState(p, q)
  /\ UNCHANGED <<state, value, set, future, at, result>>

\* mutant: nobody is woken
NotifyNobody(s) == UNCHANGED at

\* _cond.notify_one()
Notify(s) ==
  LET asleep == {g \in Getters : future[g] = s /\ at[g] = "asleep"} IN
  IF asleep = {} THEN UNCHANGED at
  ELSE \E g \in asleep : at' = [at EXCEPT ![g] = "awake"]

\* set_value: its assertion that nothing was set holds where the code calls it
SetValue(p, v) ==
  LET s == holds[p] IN
  /\ life[p] = "alive" /\ s # Null /\ state[s] = "kFuture"
  /\ state' = [state EXCEPT ![s] = "kResult"]
  /\ value' = [value EXCEPT ![s] = v]
  /\ set' = [set EXCEPT ![s] = v]
  /\ Notify(s)
  /\ UNCHANGED <<life, holds, future, result>>

\* the exception of a promise that is dropped
Broken == "Broken Promise"

\* set_exception(std::runtime_error("Broken Promise"))
Break(s) ==
  /\ state' = [state EXCEPT ![s] = "kException"]
  /\ Notify(s)

\* ~Promise
Destroy(p) ==
  LET s == holds[p] IN
  /\ life[p] = "alive"
  /\ life' = [life EXCEPT ![p] = "dead"]
  /\ holds' = [holds EXCEPT ![p] = Null]
  /\ IF s # Null /\ state[s] = "kFuture" THEN Break(s) ELSE UNCHANGED <<state, at>>
  /\ UNCHANGED <<value, set, future, result>>

-----------------------------------------------------------------------------
(* Future *)

\* one future per state
GetFuture(p, g) ==
  /\ life[p] = "alive" /\ holds[p] # Null /\ future[g] = Null
  /\ \A h \in Getters : future[h] # holds[p]
  /\ future' = [future EXCEPT ![g] = holds[p]]
  /\ at' = [at EXCEPT ![g] = "awake"]
  /\ UNCHANGED <<life, holds, state, value, set, result>>

\* get, at its loop
Sleep(g) ==
  /\ at[g] = "awake" /\ state[future[g]] = "kFuture"
  /\ at' = [at EXCEPT ![g] = "asleep"]
  /\ UNCHANGED <<life, holds, state, value, set, future, result>>

\* _cond.wait may return without a notification
WakeSpuriously(g) ==
  /\ at[g] = "asleep"
  /\ at' = [at EXCEPT ![g] = "awake"]
  /\ UNCHANGED <<life, holds, state, value, set, future, result>>

\* mutant: if instead of while around _cond.wait
PastLoopOnce(s) == TRUE

PastLoop(s) == state[s] # "kFuture"

\* get, behind its loop: the value is moved out, the exception thrown
GetReturn(g) ==
  LET s == future[g] IN
  /\ at[g] = "awake" /\ PastLoop(s)
  /\ at' = [at EXCEPT ![g] = "done"]
  /\ result' = [result EXCEPT ![g] = IF state[s] = "kException" THEN Broken ELSE value[s]]
  /\ value' = [value EXCEPT ![s] = Null]
  /\ UNCHANGED <<life, holds, state, set, future>>

\* make_ready_future: the promise is set before its future exists, and gone
\* before anybody waits
MakeReady(s, g, v) ==
  /\ Fresh(s) /\ future[g] = Null
  /\ state' = [state EXCEPT ![s] = "kResult"]
  /\ value' = [value EXCEPT ![s] = v]
  /\ set' = [set EXCEPT ![s] = v]
  /\ future' = [future EXCEPT ![g] = s]
  /\ at' = [at EXCEPT ![g] = "awake"]
  /\ UNCHANGED <<life, holds, result>>

PromiseStep(p) ==
  \/ \E s \in States : Construct(p, s)
  \/ \E q \in Promises : MoveConstruct(p, q)
  \/ \E v \in Values : SetValue(p, v)
  \/ Destroy(p)

GetterStep(g) ==
  \/ \E p \in Promises : GetFuture(p, g)
  \/ \E s \in States, v \in Values : MakeReady(s, g, v)
  \/ Sleep(g) \/ WakeSpuriously(g) \/ GetReturn(g)

Next ==
  \/ \E p \in Promises : PromiseStep(p)
  \/ \E g \in Getters : GetterStep(g)

Spec == Init /\ [][Next]_vars

-----------------------------------------------------------------------------
(* Properties *)

\* get returns exactly what the promise was set to, however often it was moved
\* and whenever get began, and throws only if it was never set: no spurious
\* wakeup and no moved-from promise shows through.
GetIsFaithful ==
  \A g \in Getters : at[g] = "done" =>
    result[g] = IF set[future[g]] # Null THEN set[future[g]] ELSE Broken

\* A future is broken only when the last promise that could set it is gone: the
\* destructor of a moved-from promise breaks nothing.
NotBrokenEarly ==
  \A s \in States : state[s] = "kException" => \A p \in Promises : holds[p] # s

\* Whoever waits in get returns once the promise is set or dropped: the wakeup
\* is not lost between the test of the state and the wait, and a spurious one
\* does not use it up.
GetReturns ==
  \A g \in Getters :
    at[g] \in {"awake", "asleep"} /\ state[future[g]] # "kFuture" ~> at[g] = "done"
=============================================================================
