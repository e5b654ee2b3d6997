--------------------------- MODULE CommandService ---------------------------
(***************************************************************************)
(* What a client of the control queue is promised (control_queue.h): the   *)
(* emulator serves the accepted commands one at a time, in the order in    *)
(* which they were accepted; a call returns either "served", after its     *)
(* command ran once, or "refused", and then its command never ran.         *)
(* Closing the service refuses everything that waits.                      *)
(***************************************************************************)
EXTENDS Sequences

CONSTANT Clients

VARIABLES
  line,     \* clients whose command is accepted and has not run, oldest first
  status,   \* what each client's call has come to
  open      \* the service accepts commands

vars == <<line, status, open>>

Init ==
  /\ line = <<>>
  /\ status = [c \in Clients |-> "idle"]
  /\ open = TRUE

Accept(c) ==
  /\ open
  /\ status[c] = "idle"
  /\ status' = [status EXCEPT ![c] = "waiting"]
  /\ line' = Append(line, c)
  /\ UNCHANGED open

Refuse(c) ==
  /\ status[c] = "idle"
  /\ status' = [status EXCEPT ![c] = "refused"]
  /\ UNCHANGED <<line, open>>

Serve ==
  /\ line # <<>>
  /\ status' = [status EXCEPT ![Head(line)] = "served"]
  /\ line' = Tail(line)
  /\ UNCHANGED open

Return(c) ==
  /\ status[c] \in {"served", "refused"}
  /\ status' = [status EXCEPT ![c] = "idle"]
  /\ UNCHANGED <<line, open>>

Close ==
  /\ open
  /\ open' = FALSE
  /\ line' = <<>>
  /\ status' = [c \in Clients |->
                  IF status[c] = "waiting" THEN "refused" ELSE status[c]]

Next ==
  \/ \E c \in Clients : Accept(c) \/ Refuse(c) \/ Return(c)
  \/ Serve
  \/ Close

Spec == Init /\ [][Next]_vars
=============================================================================
