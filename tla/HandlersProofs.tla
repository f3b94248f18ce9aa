--------------------------- MODULE HandlersProofs ---------------------------
(***************************************************************************)
(* Proofs about Future and Handlers, for any number of promises, states,   *)
(* bthreads, key tables and nested scopes.  FutureInv is inductive: a      *)
(* state has at most one promise and one future, and its value is there    *)
(* until the one future has taken it.  The context stack follows the       *)
(* scopes through every resize, and a handler's wait is a wait of Future.  *)
(***************************************************************************)
EXTENDS Handlers, TLAPS

-----------------------------------------------------------------------------
(* Futures *)

FutureTypeOK ==
  /\ life \in [Promises -> {"unborn", "alive", "dead"}]
  /\ holds \in [Promises -> States \cup {Null}]
  /\ state \in [States -> {"kFuture", "kResult", "kException"}]
  /\ value \in [States -> Values \cup {Null}]
  /\ set \in [States -> Values \cup {Null}]
  /\ future \in [Getters -> States \cup {Null}]
  /\ at \in [Getters -> {"none", "awake", "asleep", "done"}]
  /\ DOMAIN result = Getters

\* std::exchange: a state belongs to one promise, which has not been destroyed
OneHolder ==
  /\ \A p, q \in Promises : holds[p] # Null /\ holds[p] = holds[q] => p = q
  /\ \A p \in Promises : holds[p] # Null => life[p] = "alive"

\* a state is waited on by one future
OneFuture ==
  /\ \A g, h \in Getters : future[g] # Null /\ future[g] = future[h] => g = h
  /\ \A g \in Getters : at[g] # "none" => future[g] # Null
  /\ \A g \in Getters : at[g] = "done" => state[future[g]] # "kFuture"

\* the value that was set is in the state until its future has moved it out
ValueKept ==
  \A s \in States :
    /\ state[s] = "kResult" <=> set[s] # Null
    /\ state[s] = "kResult" =>
         \/ value[s] = set[s]
         \/ \E g \in Getters : future[g] = s /\ at[g] = "done"

FutureInv ==
  /\ FutureTypeOK
  /\ OneHolder
  /\ OneFuture
  /\ ValueKept
  /\ NotBrokenEarly
  /\ GetIsFaithful

\* Nothing is held, set or waited for before the first Promise is constructed.
LEMMA FutureInvInit == Init => FutureInv
  BY DEF Init, FutureInv, FutureTypeOK, OneHolder, OneFuture, ValueKept,
         NotBrokenEarly, GetIsFaithful

\* Waking a bthread, as set_value and set_exception do, changes nothing but
\* where one that sleeps on the state is.
LEMMA NotifyFacts ==
  ASSUME FutureTypeOK, NEW s \in States, Notify(s)
  PROVE  /\ at' \in [Getters -> {"none", "awake", "asleep", "done"}]
         /\ \A g \in Getters : /\ at'[g] = "done" <=> at[g] = "done"
                               /\ at'[g] = "none" <=> at[g] = "none"
  BY DEF FutureTypeOK, Notify

\* Every step of Promise and Future keeps FutureInv: constructing, moving,
\* setting and dropping a promise, and waiting in get.
LEMMA FutureInvStep == FutureInv /\ [Next]_vars => FutureInv'
<1> SUFFICES ASSUME FutureInv, [Next]_vars PROVE FutureInv'
  OBVIOUS
<1> USE NullIsNoValue DEF FutureInv, FutureTypeOK, OneHolder, OneFuture, ValueKept,
        NotBrokenEarly, GetIsFaithful
<1>1. ASSUME NEW p \in Promises, NEW s \in States, Construct(p, s) PROVE FutureInv'
  BY <1>1 DEF Construct, Fresh
<1>2. ASSUME NEW p \in Promises, NEW q \in Promises, MoveConstruct(p, q) PROVE FutureInv'
  <2>1. /\ p # q /\ holds[p] = Null /\ holds[q] \in States
        /\ holds' = [holds EXCEPT ![p] = holds[q], ![q] = Null]
        /\ life' = [life EXCEPT ![p] = "alive"]
        /\ UNCHANGED <<state, value, set, future, at, result>>
    BY <1>2 DEF MoveConstruct, TakeState
  <2>2. holds'[p] = holds[q] /\ holds'[q] = Null
        /\ \A r \in Promises \ {p, q} : holds'[r] = holds[r]
    BY <2>1
  <2>3. FutureTypeOK'
    BY <2>1
  <2>4. OneHolder'
    BY <2>1, <2>2
  <2>5. NotBrokenEarly'
    BY <2>1, <2>2
  <2> QED
    BY <2>1, <2>3, <2>4, <2>5
<1>3. ASSUME NEW p \in Promises, NEW v \in Values, SetValue(p, v) PROVE FutureInv'
  <2> DEFINE s == holds[p]
  <2>1. /\ s \in States /\ state[s] = "kFuture"
        /\ state' = [state EXCEPT ![s] = "kResult"]
        /\ value' = [value EXCEPT ![s] = v]
        /\ set' = [set EXCEPT ![s] = v]
        /\ UNCHANGED <<life, holds, future, result>>
        /\ Notify(s)
    BY <1>3 DEF SetValue
  <2>2. /\ at' \in [Getters -> {"none", "awake", "asleep", "done"}]
        /\ \A g \in Getters : /\ at'[g] = "done" <=> at[g] = "done"
                              /\ at'[g] = "none" <=> at[g] = "none"
    BY <2>1, NotifyFacts
  <2> HIDE DEF s
  <2>3. FutureTypeOK' /\ OneHolder' /\ OneFuture'
    BY <2>1, <2>2
  <2>4. ValueKept' /\ NotBrokenEarly'
    BY <2>1, <2>2
  <2>5. GetIsFaithful'
    BY <2>1, <2>2
  <2> QED
    BY <2>3, <2>4, <2>5
<1>4. ASSUME NEW p \in Promises, Destroy(p) PROVE FutureInv'
  <2> DEFINE s == holds[p]
  <2>1. /\ life' = [life EXCEPT ![p] = "dead"]
        /\ holds' = [holds EXCEPT ![p] = Null]
        /\ UNCHANGED <<value, set, future, result>>
    BY <1>4 DEF Destroy
  <2>2. CASE s # Null /\ state[s] = "kFuture"
    <3>1. /\ s \in States
          /\ state' = [state EXCEPT ![s] = "kException"]
          /\ Notify(s)
      BY <1>4, <2>2 DEF Destroy, Break
    <3>2. /\ at' \in [Getters -> {"none", "awake", "asleep", "done"}]
          /\ \A g \in Getters : /\ at'[g] = "done" <=> at[g] = "done"
                                /\ at'[g] = "none" <=> at[g] = "none"
      BY <3>1, NotifyFacts
    <3>3. \A q \in Promises : holds'[q] # s
      BY <2>1, <2>2
    <3> HIDE DEF s
    <3>4. FutureTypeOK' /\ OneHolder' /\ OneFuture'
      BY <2>1, <2>2, <3>1, <3>2
    <3>5. ValueKept' /\ NotBrokenEarly'
      BY <2>1, <2>2, <3>1, <3>2, <3>3
    <3>6. GetIsFaithful'
      BY <2>1, <2>2, <3>1, <3>2
    <3> QED
      BY <3>4, <3>5, <3>6
  <2>3. CASE ~(s # Null /\ state[s] = "kFuture")
    BY <1>4, <2>1, <2>3 DEF Destroy
  <2> QED
    BY <2>2, <2>3
<1>5. ASSUME NEW p \in Promises, NEW g \in Getters, GetFuture(p, g) PROVE FutureInv'
  BY <1>5 DEF GetFuture
<1>6. ASSUME NEW g \in Getters, NEW s \in States, NEW v \in Values, MakeReady(s, g, v)
      PROVE  FutureInv'
  <2>1. at[g] = "none" /\ \A h \in Getters : future[h] # s
    BY <1>6 DEF MakeReady, Fresh
  <2>2. FutureTypeOK' /\ OneHolder' /\ OneFuture'
    BY <1>6, <2>1 DEF MakeReady, Fresh
  <2>3. ValueKept' /\ NotBrokenEarly' /\ GetIsFaithful'
    BY <1>6, <2>1 DEF MakeReady, Fresh
  <2> QED
    BY <2>2, <2>3
<1>7. ASSUME NEW g \in Getters, Sleep(g) \/ WakeSpuriously(g) PROVE FutureInv'
  BY <1>7 DEF Sleep, WakeSpuriously
<1>8. ASSUME NEW g \in Getters, GetReturn(g) PROVE FutureInv'
  <2> DEFINE s == future[g]
  <2>1. /\ at[g] = "awake" /\ s \in States /\ state[s] # "kFuture"
        /\ at' = [at EXCEPT ![g] = "done"]
        /\ result' = [result EXCEPT ![g] = IF state[s] = "kException" THEN Broken ELSE value[s]]
        /\ value' = [value EXCEPT ![s] = Null]
        /\ UNCHANGED <<life, holds, state, set, future>>
    BY <1>8 DEF GetReturn, PastLoop
  <2>2. state[s] = "kResult" => value[s] = set[s]
    BY <2>1
  <2>3. FutureTypeOK' /\ OneHolder' /\ OneFuture'
    BY <2>1
  <2>4. ValueKept' /\ NotBrokenEarly'
    BY <2>1
  <2>5. GetIsFaithful'
    <3> SUFFICES ASSUME NEW h \in Getters, at'[h] = "done"
                 PROVE  result'[h] = IF set[future[h]] # Null THEN set[future[h]] ELSE Broken
      BY <2>1
    <3>1. CASE h = g
      BY <2>1, <2>2, <3>1
    <3>2. CASE h # g
      BY <2>1, <3>2
    <3> QED
      BY <3>1, <3>2
  <2> QED
    BY <2>3, <2>4, <2>5
<1>9. CASE UNCHANGED vars
  BY <1>9 DEF vars
<1> HIDE DEF FutureInv
<1> QED
  BY <1>1, <1>2, <1>3, <1>4, <1>5, <1>6, <1>7, <1>8, <1>9 DEF Next, PromiseStep, GetterStep

\* get returns what the promise was set to and throws only if it was dropped
\* unset, and only the last promise of a state breaks it: for any number of
\* moves, spurious wakeups and bthreads.
THEOREM FutureIsFaithful == Spec => [](GetIsFaithful /\ NotBrokenEarly)
<1>1. FutureInv => GetIsFaithful /\ NotBrokenEarly
  BY DEF FutureInv
<1> QED
  BY <1>1, FutureInvInit, FutureInvStep, PTL DEF Spec

\* Whoever sleeps in get sleeps on a state that is not set yet, and whoever is in
\* get with its state not set has a live promise that will set or break it.
WaiterHasPromise ==
  \A g \in Getters :
    /\ at[g] = "asleep" => state[future[g]] = "kFuture"
    /\ at[g] \in {"awake", "asleep"} /\ state[future[g]] = "kFuture" =>
         \E p \in Promises : holds[p] = future[g] /\ life[p] = "alive"

\* The wakeup is not lost: set_value and set_exception wake the one bthread that
\* sleeps on the state, moving a promise takes its duty along, and a destructor
\* leaves no state unset.
THEOREM NobodySleepsInVain == Spec => []WaiterHasPromise
<1>1. Init => WaiterHasPromise
  BY DEF Init, WaiterHasPromise
<1>2. FutureInv /\ WaiterHasPromise /\ [Next]_vars => WaiterHasPromise'
  <2> SUFFICES ASSUME FutureInv, WaiterHasPromise, [Next]_vars PROVE WaiterHasPromise'
    OBVIOUS
  <2> USE NullIsNoValue DEF FutureInv, FutureTypeOK, OneHolder, OneFuture
  <2>1. ASSUME NEW p \in Promises, NEW s \in States, Construct(p, s) PROVE WaiterHasPromise'
    BY <2>1 DEF Construct, Fresh, WaiterHasPromise
  <2>2. ASSUME NEW p \in Promises, NEW q \in Promises, MoveConstruct(p, q)
        PROVE  WaiterHasPromise'
    <3>1. /\ p # q /\ holds[p] = Null
          /\ holds'[p] = holds[q] /\ life'[p] = "alive"
          /\ \A r \in Promises \ {p, q} : holds'[r] = holds[r] /\ life'[r] = life[r]
          /\ UNCHANGED <<state, future, at>>
      BY <2>2 DEF MoveConstruct, TakeState
    <3>2. \A g \in Getters : at[g] \in {"awake", "asleep"} => future[g] \in States
      OBVIOUS
    <3> QED
      BY <3>1, <3>2 DEF WaiterHasPromise
  \* setting or breaking s: its one future, if it sleeps, is woken
  <2>3. ASSUME NEW s \in States, Notify(s), NEW k \in {"kResult", "kException"},
               state' = [state EXCEPT ![s] = k], future' = future,
               \A p \in Promises : holds[p] # s => holds'[p] = holds[p] /\ life'[p] = life[p]
        PROVE  WaiterHasPromise'
    <3>1. ASSUME NEW g \in Getters, future[g] = s
          PROVE  at'[g] # "asleep" /\ state'[future[g]] # "kFuture"
      BY <2>3, <3>1 DEF Notify
    <3>2. ASSUME NEW g \in Getters, future[g] # s
          PROVE  at'[g] = at[g]
      BY <2>3, <3>2 DEF Notify
    <3>3. ASSUME NEW g \in Getters, future[g] # s, at[g] \in {"awake", "asleep"}
          PROVE  state'[future[g]] = state[future[g]]
      BY <2>3, <3>3
    <3> QED
      BY <2>3, <3>1, <3>2, <3>3 DEF WaiterHasPromise
  <2>4. ASSUME NEW p \in Promises, NEW v \in Values, SetValue(p, v) PROVE WaiterHasPromise'
    BY <2>3, <2>4, ZenonT(30) DEF SetValue
  <2>5. ASSUME NEW p \in Promises, Destroy(p) PROVE WaiterHasPromise'
    <3>1. CASE holds[p] # Null /\ state[holds[p]] = "kFuture"
      BY <2>3, <2>5, <3>1 DEF Destroy, Break
    <3>2. CASE ~(holds[p] # Null /\ state[holds[p]] = "kFuture")
      <4>1. /\ UNCHANGED <<state, at, future>>
            /\ \A q \in Promises : q # p => holds'[q] = holds[q] /\ life'[q] = life[q]
        BY <2>5, <3>2 DEF Destroy
      <4>2. \A g \in Getters : at[g] \in {"awake", "asleep"} => future[g] # Null
        OBVIOUS
      <4> QED
        BY <3>2, <4>1, <4>2 DEF WaiterHasPromise
    <3> QED
      BY <3>1, <3>2
  <2>6. ASSUME NEW p \in Promises, NEW g \in Getters, GetFuture(p, g) PROVE WaiterHasPromise'
    BY <2>6 DEF GetFuture, WaiterHasPromise
  <2>7. ASSUME NEW g \in Getters, NEW s \in States, NEW v \in Values, MakeReady(s, g, v)
        PROVE  WaiterHasPromise'
    BY <2>7 DEF MakeReady, Fresh, WaiterHasPromise
  <2>8. ASSUME NEW g \in Getters, Sleep(g) \/ WakeSpuriously(g) \/ GetReturn(g)
        PROVE  WaiterHasPromise'
    BY <2>8 DEF Sleep, WakeSpuriously, GetReturn, PastLoop, WaiterHasPromise
  <2>9. CASE UNCHANGED vars
    BY <2>9 DEF vars, WaiterHasPromise
  <2> HIDE DEF FutureInv
  <2> QED
    BY <2>1, <2>2, <2>4, <2>5, <2>6, <2>7, <2>8, <2>9 DEF Next, PromiseStep, GetterStep
<1> QED
  BY <1>1, <1>2, FutureInvInit, FutureInvStep, PTL DEF Spec

-----------------------------------------------------------------------------
(* Handlers *)

Slots == Contexts \cup {Root}

WellFormed(s) ==
  /\ s \in [size : Nat, base : Seq(Slots)]
  /\ s.size <= Len(s.base)

-----------------------------------------------------------------------------
(* The stack *)

\* Push keeps the contexts below the new one, also when Resize moves them to a
\* larger array.
LEMMA PushFacts ==
  ASSUME NEW s, WellFormed(s), NEW q \in Seq(Contexts), Holds(s, q), NEW c \in Contexts
  PROVE  WellFormed(Push(s, c)) /\ Holds(Push(s, c), Append(q, c))
<1> DEFINE counted == [s EXCEPT !.size = @ + 1]
           roomy   == IF counted.size > Len(s.base) THEN Resize(counted, counted.size * 2) ELSE counted
<1>1. s \in [size : Nat, base : Seq(Slots)] /\ s.size <= Len(s.base) /\ s.size = Len(q)
  BY DEF WellFormed, Holds
<1>2. counted = [size |-> s.size + 1, base |-> s.base]
  BY <1>1
<1>3. /\ roomy \in [size : Nat, base : Seq(Slots)]
      /\ roomy.size = s.size + 1
      /\ roomy.size <= Len(roomy.base)
      /\ \A i \in 1..s.size : roomy.base[i] = s.base[i]
  <2>1. CASE counted.size > Len(s.base)
    <3> DEFINE moved == [i \in 1..(counted.size * 2) |-> IF i <= counted.size - 1 THEN counted.base[i] ELSE Root]
    <3>1. roomy = [counted EXCEPT !.base = moved]
      BY <2>1 DEF Resize
    <3>2. moved \in Seq(Slots) /\ Len(moved) = (s.size + 1) * 2
      <4>1. \A i \in 1..(counted.size * 2) : moved[i] \in Slots
        BY <1>1, <1>2 DEF Slots
      <4> QED
        BY <1>1, <1>2, <4>1
    <3>3. \A i \in 1..s.size : moved[i] = s.base[i]
      BY <1>1, <1>2
    <3> HIDE DEF moved
    <3>4. roomy = [size |-> s.size + 1, base |-> moved]
      BY <1>2, <3>1, Zenon
    <3> QED
      BY <1>1, <3>2, <3>3, <3>4
  <2>2. CASE ~(counted.size > Len(s.base))
    BY <1>1, <1>2, <2>2
  <2> QED
    BY <2>1, <2>2, Zenon
<1>4. Push(s, c) = [roomy EXCEPT !.base[roomy.size] = c]
  BY DEF Push
<1> HIDE DEF roomy, counted
<1>5. Push(s, c) = [size |-> s.size + 1, base |-> [roomy.base EXCEPT ![s.size + 1] = c]]
  BY <1>3, <1>4
<1> DEFINE pushed == [roomy.base EXCEPT ![s.size + 1] = c]
<1>6. /\ pushed \in Seq(Slots) /\ Len(pushed) = Len(roomy.base)
      /\ pushed[s.size + 1] = c
      /\ \A i \in 1..s.size : pushed[i] = s.base[i]
  BY <1>1, <1>3 DEF Slots
<1> HIDE DEF pushed
<1>7. WellFormed(Push(s, c))
  BY <1>1, <1>3, <1>5, <1>6 DEF WellFormed, pushed
<1>8. Holds(Push(s, c), Append(q, c))
  BY <1>1, <1>3, <1>5, <1>6 DEF Holds, pushed
<1> QED
  BY <1>7, <1>8

\* Detach of any scope that is open leaves exactly the contexts below it: on the
\* top by one Pop, further down by the loop.
LEMMA DetachFacts ==
  ASSUME NEW s, WellFormed(s), NEW q \in Seq(Contexts), Holds(s, q),
         \A j \in 1..Len(q) : q[j].depth = j, NEW i \in 1..Len(q)
  PROVE  WellFormed(Detach(s, q[i])) /\ Holds(Detach(s, q[i]), SubSeq(q, 1, i - 1))
<1>1. /\ s \in [size : Nat, base : Seq(Slots)] /\ s.size <= Len(s.base)
      /\ s.size = Len(q) /\ \A j \in 1..Len(q) : s.base[j] = q[j]
  BY DEF WellFormed, Holds
<1>2. /\ SubSeq(q, 1, i - 1) \in Seq(Contexts) /\ Len(SubSeq(q, 1, i - 1)) = i - 1
      /\ \A j \in 1..(i - 1) : SubSeq(q, 1, i - 1)[j] = q[j]
  OBVIOUS
<1>3. Top(s) = q[Len(q)] /\ s.size > 0
  BY <1>1 DEF Top
<1>4. CASE i = Len(q)
  <2> DEFINE cleared == [s.base EXCEPT ![s.size] = Root]
  <2>1. Detach(s, q[i]) = [size |-> s.size - 1, base |-> cleared]
    BY <1>3, <1>4 DEF Detach, Pop
  <2>2. /\ cleared \in Seq(Slots) /\ Len(cleared) = Len(s.base)
        /\ \A j \in 1..(s.size - 1) : cleared[j] = s.base[j]
    BY <1>1 DEF Slots
  <2> HIDE DEF cleared
  <2> QED
    BY <1>1, <1>2, <1>4, <2>1, <2>2 DEF WellFormed, Holds
<1>5. CASE i # Len(q)
  <2>1. q[i] # q[Len(q)]
    BY <1>5
  <2>2. Contains(s, q[i])
    BY <1>1 DEF Contains
  <2> DEFINE Topmost(k) == s.base[k] = q[i] /\ \A j \in (k + 1)..s.size : s.base[j] # q[i]
  <2>3. \A k \in 1..s.size : Topmost(k) <=> k = i
    <3>1. \A k \in 1..s.size : s.base[k] = q[i] <=> k = i
      BY <1>1
    <3> QED
      BY <1>1, <3>1
  <2>4. (CHOOSE k \in 1..s.size : Topmost(k)) = i
    <3>1. i \in 1..s.size
      BY <1>1
    <3> HIDE DEF Topmost
    <3> QED
      BY <2>3, <3>1
  <2>5. Detach(s, q[i]) = PopThrough(s, i)
    BY <1>3, <2>1, <2>2, <2>4, Zenon DEF Detach
  <2> DEFINE cleared == [j \in 1..Len(s.base) |-> IF j \in i..s.size THEN Root ELSE s.base[j]]
  <2>6. Detach(s, q[i]) = [size |-> i - 1, base |-> cleared]
    BY <2>5 DEF PopThrough
  <2>7. /\ cleared \in Seq(Slots) /\ Len(cleared) = Len(s.base)
        /\ \A j \in 1..(i - 1) : cleared[j] = s.base[j]
    <3>1. \A j \in 1..Len(s.base) : cleared[j] \in Slots
      BY <1>1 DEF Slots
    <3> QED
      BY <1>1, <3>1
  <2> HIDE DEF cleared
  <2> QED
    BY <1>1, <1>2, <2>6, <2>7 DEF WellFormed, Holds
<1> QED
  BY <1>4, <1>5
-----------------------------------------------------------------------------
(* The handlers *)

HandlersTypeOK ==
  /\ table \in [Getters -> KeyTables \cup {Null}]
  /\ stack \in [KeyTables -> [size : Nat, base : Seq(Slots)]]
  /\ \A k \in KeyTables : WellFormed(stack[k])
  /\ open \in [Getters -> Seq(Contexts)]
  /\ trace \in [Getters -> Getters \cup {Null}]
  /\ sent \subseteq Getters \cup {Null}

\* a bthread has a key table to itself while it is in a scope
OwnTable ==
  /\ \A g, h \in Getters : table[g] # Null /\ table[g] = table[h] => g = h
  /\ \A g \in Getters : table[g] # Null <=> Len(open[g]) > 0
  /\ \A g \in Getters : table[g] # Null => trace[g] # Null

\* the contexts of a bthread differ: a token names one scope
ByDepth == \A g \in Getters : \A i \in 1..Len(open[g]) : open[g][i].depth = i

HandlersInv ==
  /\ HandlersTypeOK
  /\ OwnTable
  /\ ByDepth
  /\ StackIsScopes
  /\ TraceKept

\* Before the first request all key tables are empty.
LEMMA HandlersInvInit == HandlersInit => HandlersInv
<1> SUFFICES ASSUME HandlersInit PROVE HandlersInv
  OBVIOUS
<1>1. /\ table = [g \in Getters |-> Null] /\ stack = [k \in KeyTables |-> EmptyStack]
      /\ open = [g \in Getters |-> <<>>] /\ trace = [g \in Getters |-> Null] /\ sent = {Null}
  BY DEF HandlersInit
<1>2. WellFormed(EmptyStack) /\ EmptyStack.size = 0
  BY DEF WellFormed, EmptyStack
<1>3. HandlersTypeOK
  BY <1>1, <1>2 DEF HandlersTypeOK, WellFormed
<1>4. OwnTable /\ ByDepth /\ TraceKept
  BY <1>1 DEF OwnTable, ByDepth, TraceKept
<1>5. StackIsScopes
  BY <1>1, <1>2, NullIsNoThread DEF StackIsScopes, FreeTable
<1> QED
  BY <1>3, <1>4, <1>5 DEF HandlersInv

\* The stack of a bthread that runs holds its scopes.
LEMMA OwnStack ==
  ASSUME HandlersInv, NEW g \in Getters, table[g] # Null
  PROVE  table[g] \in KeyTables /\ WellFormed(stack[table[g]]) /\ Holds(stack[table[g]], open[g])
  BY DEF HandlersInv, HandlersTypeOK, StackIsScopes, FreeTable

\* bthread g pushes context c on the stack of key table k, which is its own
Attached(g, k, c) ==
  /\ \A h \in Getters \ {g} : table[h] # k
  /\ Holds(stack[k], open[g])
  /\ c.depth = Len(open[g]) + 1
  /\ stack' = [stack EXCEPT ![k] = Push(@, c)]
  /\ open' = [open EXCEPT ![g] = Append(@, c)]
  /\ table' = [table EXCEPT ![g] = k] /\ table[g] \in {Null, k}
  /\ trace' \in [Getters -> Getters \cup {Null}] /\ trace'[g] = c.trace
  /\ \A h \in Getters \ {g} : trace'[h] = trace[h]
  /\ trace[g] \in {Null, trace'[g]}
  /\ sent' = sent

\* A bthread that opens a scope keeps the invariant: Attach pushes a context of
\* the trace that the bthread is in.
LEMMA AttachKeeps ==
  ASSUME HandlersInv, NEW g \in Getters, NEW k \in KeyTables, NEW c \in Contexts,
         Attached(g, k, c)
  PROVE  HandlersInv'
<1> USE DEF Attached
<1>1. HandlersTypeOK /\ OwnTable /\ ByDepth /\ StackIsScopes /\ TraceKept
  BY DEF HandlersInv
<1>2. /\ open \in [Getters -> Seq(Contexts)] /\ table \in [Getters -> KeyTables \cup {Null}]
      /\ stack \in [KeyTables -> [size : Nat, base : Seq(Slots)]]
      /\ WellFormed(stack[k]) /\ Null \notin KeyTables /\ Null \notin Getters
  BY <1>1, NullIsNoThread DEF HandlersTypeOK
<1>3. WellFormed(Push(stack[k], c)) /\ Holds(Push(stack[k], c), Append(open[g], c))
  BY <1>2, PushFacts
<1>4. /\ stack'[k] = Push(stack[k], c) /\ \A m \in KeyTables \ {k} : stack'[m] = stack[m]
      /\ open'[g] = Append(open[g], c) /\ \A h \in Getters \ {g} : open'[h] = open[h]
      /\ table'[g] = k /\ \A h \in Getters \ {g} : table'[h] = table[h]
  BY <1>2
<1>5. /\ Append(open[g], c) \in Seq(Contexts)
      /\ Len(Append(open[g], c)) = Len(open[g]) + 1
      /\ Append(open[g], c)[Len(open[g]) + 1] = c
      /\ \A i \in 1..Len(open[g]) : Append(open[g], c)[i] = open[g][i]
      /\ Len(open[g]) \in Nat
  BY <1>2
<1>6. HandlersTypeOK'
  <2>1. Push(stack[k], c) \in [size : Nat, base : Seq(Slots)]
    BY <1>3 DEF WellFormed
  <2> QED
    BY <1>1, <1>2, <1>3, <1>4, <1>5, <2>1 DEF HandlersTypeOK
<1>7. OwnTable'
  <2>1. trace'[g] # Null
    BY <1>2 DEF Contexts
  <2>2. \A h \in Getters : table'[h] # Null <=> Len(open'[h]) > 0
    BY <1>1, <1>2, <1>4, <1>5 DEF OwnTable
  <2>3. \A h \in Getters : table'[h] # Null => trace'[h] # Null
    BY <1>1, <1>2, <1>4, <2>1, ZenonT(30) DEF OwnTable
  <2>4. \A h, m \in Getters : table'[h] # Null /\ table'[h] = table'[m] => h = m
    BY <1>1, <1>2, <1>4 DEF OwnTable
  <2> QED
    BY <2>2, <2>3, <2>4 DEF OwnTable
<1>8. ByDepth'
  BY <1>1, <1>2, <1>4, <1>5 DEF ByDepth
<1>9. StackIsScopes'
  <2> SUFFICES ASSUME NEW m \in KeyTables
               PROVE  IF FreeTable(m)' THEN stack'[m].size = 0
                      ELSE \A h \in Getters : table'[h] = m => Holds(stack'[m], open'[h])
    BY DEF StackIsScopes, Holds
  <2>1. CASE m = k
    BY <1>3, <1>4, <2>1 DEF FreeTable
  <2>2. CASE m # k
    <3>1. FreeTable(m)' <=> FreeTable(m)
      BY <1>2, <1>4, <2>2 DEF FreeTable
    <3> QED
      BY <1>1, <1>4, <2>2, <3>1 DEF StackIsScopes
  <2> QED
    BY <2>1, <2>2
<1>10. TraceKept'
  <2>1. \A h \in Getters : \A i \in 1..Len(open'[h]) : open'[h][i].trace = trace'[h]
    <3> SUFFICES ASSUME NEW h \in Getters, NEW i \in 1..Len(open'[h])
                 PROVE  open'[h][i].trace = trace'[h]
      OBVIOUS
    <3>1. CASE h # g
      BY <1>1, <1>4, <3>1 DEF TraceKept
    <3>2. CASE h = g /\ i = Len(open[g]) + 1
      BY <1>4, <1>5, <3>2
    <3>3. CASE h = g /\ i # Len(open[g]) + 1
      <4>1. i \in 1..Len(open[g]) /\ open'[h][i] = open[g][i]
        BY <1>4, <1>5, <3>3
      <4>2. open[g][i].trace = trace[g]
        BY <1>1, <4>1 DEF TraceKept
      <4>3. table[g] # Null /\ trace[g] # Null
        BY <1>1, <1>5, <4>1 DEF OwnTable
      <4> QED
        BY <3>3, <4>1, <4>2, <4>3
    <3> QED
      BY <3>1, <3>2, <3>3
  <2>2. \A h \in Getters : trace[h] # Null => trace'[h] = trace[h]
    OBVIOUS
  <2>3. sent' \subseteq {Null} \cup {trace'[h] : h \in Getters}
    BY <1>1, <2>2 DEF TraceKept
  <2> QED
    BY <2>1, <2>3 DEF TraceKept
<1> QED
  BY <1>6, <1>7, <1>8, <1>9, <1>10 DEF HandlersInv

\* Leaving the innermost scope keeps the invariant; leaving the outermost gives
\* the key table back empty.
LEMMA DetachKeeps ==
  ASSUME HandlersInv, NEW g \in Getters, LeaveScope(g)
  PROVE  HandlersInv'
<1>1. HandlersTypeOK /\ OwnTable /\ ByDepth /\ StackIsScopes /\ TraceKept
  BY DEF HandlersInv
<1> DEFINE k == table[g]
           n == Len(open[g])
           rest == SubSeq(open[g], 1, n - 1)
           left == Detach(stack[k], open[g][n])
<1>2. /\ open \in [Getters -> Seq(Contexts)] /\ table \in [Getters -> KeyTables \cup {Null}]
      /\ stack \in [KeyTables -> [size : Nat, base : Seq(Slots)]]
      /\ Null \notin KeyTables /\ k \in KeyTables /\ k # Null
      /\ WellFormed(stack[k]) /\ Holds(stack[k], open[g])
      /\ n \in Nat /\ n > 0
  BY <1>1, OwnStack, NullIsNoThread DEF HandlersTypeOK, LeaveScope, Runs, OwnTable
<1>3. WellFormed(left) /\ Holds(left, rest)
  <2>1. open[g] \in Seq(Contexts) /\ n \in 1..Len(open[g])
    BY <1>2
  <2>2. \A j \in 1..Len(open[g]) : open[g][j].depth = j
    BY <1>1 DEF ByDepth
  <2> HIDE DEF k, n
  <2> QED
    BY <1>2, <2>1, <2>2, DetachFacts
<1>4. rest \in Seq(Contexts) /\ Len(rest) = n - 1 /\ \A i \in 1..(n - 1) : rest[i] = open[g][i]
  <2>1. open[g] \in Seq(Contexts) /\ n - 1 \in Nat /\ n - 1 <= Len(open[g])
    BY <1>2
  <2> QED
    BY <2>1
<1>5. /\ stack' = [stack EXCEPT ![k] = left]
      /\ open' = [open EXCEPT ![g] = rest]
      /\ table' = IF n = 1 THEN [table EXCEPT ![g] = Null] ELSE table
      /\ UNCHANGED <<trace, sent>>
  BY DEF LeaveScope, DetachInnermost
<1>6. left.size = n - 1 /\ left \in [size : Nat, base : Seq(Slots)]
  BY <1>3, <1>4 DEF Holds, WellFormed
<1>7. \A h \in Getters \ {g} : table[h] # k
  BY <1>1, <1>2 DEF OwnTable
<1> HIDE DEF rest, left, n, k
<1>8. /\ stack'[k] = left /\ \A m \in KeyTables \ {k} : stack'[m] = stack[m]
      /\ open'[g] = rest /\ \A h \in Getters \ {g} : open'[h] = open[h]
      /\ table'[g] = IF n = 1 THEN Null ELSE k
      /\ \A h \in Getters \ {g} : table'[h] = table[h]
  BY <1>2, <1>5 DEF k
<1>9. HandlersTypeOK'
  BY <1>1, <1>2, <1>3, <1>4, <1>5, <1>6, <1>8 DEF HandlersTypeOK
<1>10. OwnTable'
  BY <1>1, <1>2, <1>4, <1>5, <1>7, <1>8 DEF OwnTable, k
<1>11. ByDepth' /\ TraceKept'
  <2>1. \A h \in Getters : \A i \in 1..Len(open'[h]) :
          i \in 1..Len(open[h]) /\ open'[h][i] = open[h][i]
    <3> SUFFICES ASSUME NEW h \in Getters, NEW i \in 1..Len(open'[h])
                 PROVE  i \in 1..Len(open[h]) /\ open'[h][i] = open[h][i]
      OBVIOUS
    <3>1. CASE h = g
      <4>1. Len(open'[h]) = n - 1 /\ n \in Nat /\ n = Len(open[g])
        BY <1>2, <1>4, <1>8, <3>1, ZenonT(30) DEF n
      <4>2. i \in 1..(n - 1) /\ i \in 1..Len(open[g])
        BY <4>1
      <4> QED
        BY <1>4, <1>8, <3>1, <4>2
    <3>2. CASE h # g
      BY <1>8, <3>2
    <3> QED
      BY <3>1, <3>2
  <2> QED
    BY <1>1, <1>5, <2>1, SMTT(30) DEF ByDepth, TraceKept
<1>12. StackIsScopes'
  <2> SUFFICES ASSUME NEW m \in KeyTables
               PROVE  IF FreeTable(m)' THEN stack'[m].size = 0
                      ELSE \A h \in Getters : table'[h] = m => Holds(stack'[m], open'[h])
    BY DEF StackIsScopes, Holds
  <2>1. CASE m = k
    <3>1. CASE n = 1
      BY <1>2, <1>6, <1>7, <1>8, <2>1, <3>1 DEF FreeTable
    <3>2. CASE n # 1
      BY <1>3, <1>7, <1>8, <2>1, <3>2 DEF FreeTable
    <3> QED
      BY <3>1, <3>2
  <2>2. CASE m # k
    <3>1. FreeTable(m)' <=> FreeTable(m)
      BY <1>2, <1>8, <2>2, Zenon DEF FreeTable, k
    <3> QED
      BY <1>1, <1>2, <1>8, <2>2, <3>1 DEF StackIsScopes, k
  <2> QED
    BY <2>1, <2>2
<1> QED
  BY <1>9, <1>10, <1>11, <1>12 DEF HandlersInv

\* A step that leaves the scopes alone keeps the invariant.
LEMMA OthersKeep ==
  ASSUME HandlersInv, UNCHANGED <<table, stack, open, trace>>,
         sent' \subseteq Getters \cup {Null},
         sent' \subseteq {Null} \cup {trace[g] : g \in Getters}
  PROVE  HandlersInv'
  BY DEF HandlersInv, HandlersTypeOK, OwnTable, ByDepth, StackIsScopes, FreeTable, TraceKept,
         Holds, WellFormed

\* Every step of a handler keeps the invariant.
LEMMA HandlersInvStep == HandlersInv /\ [HandlersNext]_handlerVars => HandlersInv'
<1> SUFFICES ASSUME HandlersInv, [HandlersNext]_handlerVars PROVE HandlersInv'
  OBVIOUS
<1>1. HandlersTypeOK /\ OwnTable /\ ByDepth /\ StackIsScopes /\ TraceKept
  BY DEF HandlersInv
<1>2. Null \notin KeyTables /\ Null \notin Getters
  BY NullIsNoThread
<1>3. ASSUME NEW g \in Getters, NEW k \in KeyTables, NEW t \in sent, Serve(g, k, t)
      PROVE  HandlersInv'
  <2> DEFINE c == Scope(g, TraceOf(g, t, Top(stack[k])))
  <2>1. /\ trace[g] = Null /\ \A h \in Getters : table[h] # k
        /\ stack' = [stack EXCEPT ![k] = Push(@, c)]
        /\ open' = [open EXCEPT ![g] = <<c>>]
        /\ table' = [table EXCEPT ![g] = k]
        /\ trace' = [trace EXCEPT ![g] = IF t # Null THEN t ELSE g]
        /\ sent' = sent
    BY <1>3 DEF Serve, FreeTable
  <2>2. stack[k].size = 0 /\ table[g] = Null /\ Len(open[g]) = 0 /\ open[g] = <<>>
    BY <1>1, <2>1 DEF StackIsScopes, FreeTable, OwnTable, HandlersTypeOK
  <2>3. Top(stack[k]) = Root
    BY <2>2 DEF Top
  <2>4. c = [of |-> g, trace |-> IF t # Null THEN t ELSE g, depth |-> 1]
    BY <2>2, <2>3, SMTT(30) DEF Scope, TraceOf
  <2>5. c \in Contexts /\ c.depth = Len(open[g]) + 1 /\ c.trace = IF t # Null THEN t ELSE g
    BY <1>1, <2>2, <2>4 DEF Contexts, HandlersTypeOK
  <2> HIDE DEF c
  <2>6. open' = [open EXCEPT ![g] = Append(@, c)]
    BY <2>1, <2>2
  <2>7. Holds(stack[k], open[g])
    BY <2>2 DEF Holds
  <2>8. /\ trace' \in [Getters -> Getters \cup {Null}] /\ trace'[g] = c.trace
        /\ \A h \in Getters \ {g} : trace'[h] = trace[h]
    BY <1>1, <2>1, <2>5 DEF HandlersTypeOK
  <2>9. Attached(g, k, c)
    BY <2>1, <2>2, <2>5, <2>6, <2>7, <2>8 DEF Attached
  <2> QED
    BY <2>5, <2>9, AttachKeeps
<1>4. ASSUME NEW g \in Getters, EnterScope(g) PROVE HandlersInv'
  <2> DEFINE k == table[g]
             c == Scope(g, TraceOf(g, Null, Top(stack[k])))
  <2>1. /\ k # Null
        /\ stack' = [stack EXCEPT ![k] = Push(@, c)]
        /\ open' = [open EXCEPT ![g] = Append(@, c)]
        /\ UNCHANGED <<table, trace, sent>>
    BY <1>4 DEF EnterScope, GetStack, Runs
  <2>2. k \in KeyTables /\ Holds(stack[k], open[g]) /\ Len(open[g]) > 0 /\ trace[g] \in Getters
        /\ open[g] \in Seq(Contexts)
    BY <1>1, <2>1, OwnStack DEF OwnTable, HandlersTypeOK
  <2>3. Top(stack[k]) = open[g][Len(open[g])] /\ Top(stack[k]) \in Contexts
    BY <2>2, SMTT(30) DEF Top, Holds
  <2>4. Top(stack[k]) # Root /\ Top(stack[k]).trace = trace[g]
    BY <1>1, <2>2, <2>3, RootIsNoContext, SMTT(30) DEF TraceKept
  <2>5. c = [of |-> g, trace |-> trace[g], depth |-> Len(open[g]) + 1]
    BY <2>4 DEF Scope, TraceOf
  <2>6. c \in Contexts /\ c.depth = Len(open[g]) + 1 /\ c.trace = trace[g]
    BY <2>2, <2>5, SMTT(30) DEF Contexts
  <2>7. \A h \in Getters \ {g} : table[h] # k
    BY <1>1, <2>1 DEF OwnTable
  <2>8. table' = [table EXCEPT ![g] = k] /\ table[g] = k
    BY <1>1, <2>1 DEF HandlersTypeOK
  <2>9. trace' \in [Getters -> Getters \cup {Null}] /\ trace'[g] = c.trace /\ trace' = trace
    BY <1>1, <2>1, <2>6 DEF HandlersTypeOK
  <2>10. PICK m \in KeyTables, d \in Contexts : m = k /\ d = c
    BY <2>2, <2>6
  <2>11. /\ stack' = [stack EXCEPT ![m] = Push(@, d)]
         /\ open' = [open EXCEPT ![g] = Append(@, d)]
         /\ table' = [table EXCEPT ![g] = m] /\ table[g] = m
    BY <2>1, <2>8, <2>10, Zenon
  <2>12. /\ Holds(stack[m], open[g]) /\ d.depth = Len(open[g]) + 1
         /\ \A h \in Getters \ {g} : table[h] # m
         /\ trace'[g] = d.trace
    BY <2>2, <2>6, <2>7, <2>9, <2>10
  <2>13. /\ sent' = sent /\ table[g] \in {Null, m} /\ trace[g] \in {Null, trace'[g]}
         /\ trace' \in [Getters -> Getters \cup {Null}]
         /\ \A h \in Getters \ {g} : trace'[h] = trace[h]
    BY <2>1, <2>9, <2>11
  <2> HIDE DEF c, k
  <2>14. Attached(g, m, d)
    BY <2>11, <2>12, <2>13 DEF Attached
  <2> QED
    BY <2>14, AttachKeeps
<1>5. ASSUME NEW g \in Getters, LeaveScope(g) PROVE HandlersInv'
  BY <1>5, DetachKeeps
<1>6. ASSUME NEW g \in Getters, Call(g) PROVE HandlersInv'
  <2>1. table[g] # Null /\ sent' = sent \cup {Top(stack[table[g]]).trace}
        /\ UNCHANGED <<table, stack, open, trace>>
    BY <1>6 DEF Call, GetStack, Runs
  <2>2. Holds(stack[table[g]], open[g]) /\ Len(open[g]) > 0 /\ open[g] \in Seq(Contexts)
    BY <1>1, <2>1, OwnStack DEF OwnTable, HandlersTypeOK
  <2>3. Top(stack[table[g]]).trace = trace[g]
    BY <1>1, <2>2, SMTT(30) DEF Top, Holds, TraceKept
  <2> QED
    BY <1>1, <2>1, <2>3, OthersKeep DEF HandlersTypeOK, TraceKept
<1>7. ASSUME UNCHANGED contextVars PROVE HandlersInv'
  BY <1>1, <1>7, OthersKeep DEF contextVars, HandlersTypeOK, TraceKept
<1> QED
  BY <1>3, <1>4, <1>5, <1>6, <1>7 DEF HandlersNext, Await, Promised, AllServed, handlerVars

-----------------------------------------------------------------------------
(* Theorems *)

\* Whatever the bthreads do and wherever they wait, the stack of each holds the
\* scopes it is in, and spans stay in their request's trace.
THEOREM ContextsFollowScopes == HandlersSpec => [](StackIsScopes /\ TraceKept)
<1>1. HandlersInv => StackIsScopes /\ TraceKept
  BY DEF HandlersInv
<1> QED
  BY <1>1, HandlersInvInit, HandlersInvStep, PTL DEF HandlersSpec

\* Detach does what its comment promises for every scope that is open.
THEOREM DetachIsRight == HandlersSpec => []DetachRestores
<1>1. HandlersInv => DetachRestores
  <2> SUFFICES ASSUME HandlersInv, NEW g \in Getters, table[g] # Null, NEW i \in 1..Len(open[g])
               PROVE  Holds(Detach(stack[table[g]], open[g][i]), SubSeq(open[g], 1, i - 1))
    BY DEF DetachRestores, GetStack
  <2>1. WellFormed(stack[table[g]]) /\ Holds(stack[table[g]], open[g])
    BY OwnStack
  <2>2. open[g] \in Seq(Contexts) /\ \A j \in 1..Len(open[g]) : open[g][j].depth = j
    BY DEF HandlersInv, HandlersTypeOK, ByDepth
  <2> QED
    BY <2>1, <2>2, DetachFacts
<1> QED
  BY <1>1, HandlersInvInit, HandlersInvStep, PTL DEF HandlersSpec

\* A handler that opens scopes and waits uses Promise and Future as Future says,
\* so what is proved about get holds inside a handler.
THEOREM HandlersUseFutures == HandlersSpec => Spec
<1>1. HandlersInit => Init
  BY DEF HandlersInit
<1>2. [HandlersNext]_handlerVars => [Next]_vars
  BY DEF HandlersNext, Serve, EnterScope, LeaveScope, Call, Await, Promised, AllServed,
         handlerVars, Next
<1> QED
  BY <1>1, <1>2, PTL DEF HandlersSpec, Spec
=============================================================================
