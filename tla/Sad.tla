--------------------------------- MODULE Sad ---------------------------------
(***************************************************************************)
(* A run of the command line tool sad (src/sad): one command, one RPC to   *)
(* one server, no retry, a timeout of ten seconds, then the answer is      *)
(* printed and the process exits.  The server, and which command is run    *)
(* next, are left to the modules that use this one.                        *)
(*                                                                         *)
(* The network is external: a request may be lost or late, an answer too,  *)
(* and a connection may break under them.                                  *)
(***************************************************************************)
EXTENDS Integers

CONSTANTS
  Commands  \* runs of sad

VARIABLES
  cmd       \* cmd[c]: at "ready", "sent" or "exited"; the command; the exit code,
            \* 0 or 1; the status and the rest of the answer it printed

Ready1 == [at |-> "ready", op |-> "none", exit |-> -1, shown |-> "none", out |-> <<>>]

SadInit == cmd = [c \in Commands |-> Ready1]

\* main when execute returned an error: print(status), EXIT_FAILURE
Failure(c, op, status) ==
  cmd' = [cmd EXCEPT ![c] = [at |-> "exited", op |-> op, exit |-> 1, shown |-> status,
                             out |-> <<>>]]

\* a command up to its RPC: UUID::valid on the ids it was given, Channel::Init
Issue(c, op, takesId) ==
  /\ cmd[c].at = "ready"
  /\ \/ takesId /\ Failure(c, op, "EINVAL")
     \/ Failure(c, op, "EAGAIN")
     \/ cmd' = [cmd EXCEPT ![c].at = "sent", ![c].op = op]

\* mutant: the header of the answer is not merged
HeaderOwn(status) == "OK"

\* print: merge_patch puts the header of the response over {status: 0}
Header(status) == status

\* the RPC is answered; sad does not look into the response, it prints it
Answered(c, status, response) ==
  /\ cmd[c].at = "sent"
  /\ cmd' = [cmd EXCEPT ![c].at = "exited", ![c].exit = 0, ![c].shown = Header(status),
                        ![c].out = response]

\* cntl.Failed(): the server called SetFailed, or there is no answer
Failed(c, status) ==
  /\ cmd[c].at = "sent"
  /\ Failure(c, cmd[c].op, status)

\* the errors of a channel: the timeout of the call, a connection that broke
\* or was refused
Unanswered == {"ERPCTIMEDOUT", "EFAILEDSOCKET"}

NoAnswer(c) == \E e \in Unanswered : Failed(c, e)

\* the server may meet the request as long as it was sent, and long after sad
\* has given up on it
Sent(c, op) ==
  /\ cmd[c].op = op
  /\ cmd[c].at = "sent" \/ cmd[c].shown \in Unanswered

\* the command printed a status of 0 and exited with 0
Succeeded(c) == cmd[c].exit = 0 /\ cmd[c].shown = "OK"
=============================================================================
