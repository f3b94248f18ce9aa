----------------------------- MODULE SadTopology -----------------------------
(***************************************************************************)
(* The commands of sad for the topology (src/sad/asura.cc) against the     *)
(* service of Asura.  Some calls are commands, the others come from other  *)
(* clients, which choose the ids they register.                            *)
(***************************************************************************)
EXTENDS Asura

CONSTANTS
  Commands  \* the calls that sad makes

ASSUME CommandsAreCalls == Commands \subseteq Calls

VARIABLES cmd

INSTANCE Sad

allVars == <<vars, cmd>>

TopologyInit == Init /\ SadInit

register_deva(c) == Issue(c, "RegisterDeva", FALSE)
list_deva(c) == Issue(c, "ListDeva", FALSE)
register_manusya(c) == Issue(c, "RegisterManusya", TRUE)
list_manusya(c) == Issue(c, "ListManusya", FALSE)

Execute(c) ==
  /\ register_deva(c) \/ list_deva(c) \/ register_manusya(c) \/ list_manusya(c)
  /\ UNCHANGED vars

\* UUID::generate: every run of a command registers another id
Generated(id) == \A d \in Calls : call[d].id # id

\* the beginning of a call
Arrive(c) ==
  \/ \E op \in {"RegisterDeva", "RegisterManusya"}, id \in Ids :
       /\ c \in Commands => Sent(c, op) /\ Generated(id)
       /\ Check(c, op, id)
  \/ \E op \in {"ListDeva", "ListManusya"} :
       /\ c \in Commands => Sent(c, op)
       /\ List(c, op)

\* no handler sets the status of the header; the code of a result is printed
\* with the rest of the response
End(c) ==
  /\ \/ call[c].at = "answered" /\ call[c].code # "broken" /\ Answered(c, "OK", <<call[c].got>>)
     \/ NoAnswer(c)
  /\ UNCHANGED vars

Serve(c) == (Arrive(c) \/ StoreEntry(c) \/ StoreEntryFails(c)) /\ UNCHANGED cmd

TopologyNext ==
  \/ \E c \in Commands : Execute(c) \/ End(c)
  \/ \E c \in Calls : Serve(c)
  \/ Environment /\ UNCHANGED cmd

TopologySpec == TopologyInit /\ [][TopologyNext]_allVars

-----------------------------------------------------------------------------
(* Properties *)

\* A server is stored only by a registration that was answered "ok" or whose
\* answer nobody got, under the hash and the id of that registration: no list,
\* restart or recovery brings one back that was refused.  A server is stored once,
\* also when two registrations of it both found it missing, and a command adds at
\* most one.
RefusedNotStored ==
  \A S \in {disk[d] : d \in Dirs} \cup {db} : S \notin {Absent, Closed} =>
    /\ \A e \in S : LET r == call[e.by] IN
         r.code \in {"ok", "broken"} /\ Key(e) = <<HashOf(r.op), r.id>>
    /\ \A e, f \in S : e.by = f.by \/ Key(e) = Key(f) => e = f
=============================================================================
