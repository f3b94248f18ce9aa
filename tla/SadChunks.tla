------------------------------ MODULE SadChunks ------------------------------
(***************************************************************************)
(* The commands of sad for chunks (src/sad/manusya.cc) against the chunk   *)
(* server of Manusya.  A call of Manusya is what the server makes of the   *)
(* request of a command.  The arguments of a command are chosen when the   *)
(* server reads them.                                                      *)
(***************************************************************************)
EXTENDS Manusya

VARIABLES cmd

INSTANCE Sad WITH Commands <- Calls

allVars == <<vars, cmd>>

ChunksInit == Init /\ SadInit

create_chunk(c) == Issue(c, "create", FALSE)
append_chunk(c) == Issue(c, "append", TRUE)
list_chunk(c) == Issue(c, "list", TRUE)
read_chunk(c) == Issue(c, "read", TRUE)
seal_chunk(c) == Issue(c, "seal", TRUE)
remove_chunk(c) == Issue(c, "remove", TRUE)
query_chunk(c) == Issue(c, "query", TRUE)

\* the subcommand execute finds
Execute(c) ==
  /\ \/ create_chunk(c) \/ append_chunk(c) \/ list_chunk(c) \/ read_chunk(c)
     \/ seal_chunk(c) \/ remove_chunk(c) \/ query_chunk(c)
  /\ UNCHANGED vars

\* the command ends with the server's answer, or without
End(c) ==
  /\ \/ call[c].at = "answered" /\ Answered(c, call[c].status, call[c].got)
     \/ call[c].at = "failed" /\ Failed(c, call[c].status)
     \/ NoAnswer(c)
  /\ UNCHANGED vars

\* a step of the server, on the request c if it begins a call
Serve(c) ==
  /\ Handler(c)
  /\ call[c].at = "new" => Sent(c, call'[c].op)
  /\ UNCHANGED cmd

\* every command has ended
AllExited == (\A c \in Calls : cmd[c].at = "exited") /\ UNCHANGED allVars

ChunksNext ==
  \/ AllExited
  \/ \E c \in Calls : Execute(c) \/ End(c) \/ Serve(c)
  \/ (Crash \/ Load) /\ UNCHANGED cmd

ChunksSpec == ChunksInit /\ [][ChunksNext]_allVars

-----------------------------------------------------------------------------
(* Properties *)

\* What a command that succeeded printed was so and stays so, whatever others do
\* meanwhile and while the answer is on its way, unless the bytes are gone with a
\* memory store: the chunk it created exists; what it appended is below the new
\* offset it printed; what it sealed has the length it printed; what it read is
\* what the chunk holds; a queried chunk is not shorter, and takes no appends if it
\* was sealed; a listed chunk was created; a removed one is not served.
ShownIsDone ==
  \A c \in {x \in Calls : Succeeded(x)} :
    LET r == call[c] u == call[c].uuid out == cmd[c].out IN
    CASE cmd[c].op = "create" -> out = <<u>> /\ (u \in files \cup removed \/ Gone(u))
      [] cmd[c].op = "append" -> \/ Gone(u)
                                 \/ /\ out[1] \in r.offset + 1..Len(data[u])
                                    /\ data[u][r.offset + 1] = c
      [] cmd[c].op = "seal"   -> Gone(u) \/ out = <<Len(data[u])>>
      [] cmd[c].op = "read"   -> \/ Gone(u)
                                 \/ /\ r.offset + r.size < Modulus => DOMAIN out = 1..r.size
                                    /\ \A k \in DOMAIN out : /\ r.offset + k <= Len(data[u])
                                                             /\ out[k] = data[u][r.offset + k]
      [] cmd[c].op = "query"  -> /\ Gone(u) \/ out[1] <= Len(data[u])
                                 /\ out[2] = "kSealed" => cstate[u] # "kOpen"
      [] cmd[c].op = "list"   -> \A v \in out[1] : v \in files \cup removed \/ Gone(v)
      [] cmd[c].op = "remove" -> u \notin bank

\* Each chunk was made by one command, which printed its id, is still running or
\* never got an answer: no chunk is left behind by a create that was answered
\* with an error, and no id is given out twice.
UnknownUnanswered ==
  \A u \in bank \cup files : \E c \in Calls :
    /\ \A d \in Calls : call[d].op = "create" /\ call[d].uuid = u <=> d = c
    /\ \/ Succeeded(c) /\ cmd[c].out = <<u>>
       \/ cmd[c].at = "sent" \/ cmd[c].shown \in Unanswered
=============================================================================
