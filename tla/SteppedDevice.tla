---------------------------- MODULE SteppedDevice ----------------------------
(***************************************************************************)
(* A device on the bus that carries out every cycle when it happens: what  *)
(* the lazy path of via_tick promises to look like, and what the build     *)
(* with VIA_NO_LAZY does.  ViaLazy says what a cycle and a call are.       *)
(***************************************************************************)
CONSTANTS
  Reset,            \* the device after power-on
  Step(_),          \* the device after one more cycle
  Answers(_, _, _), \* a call of a program may take the first to the second
  Unheard(_),       \* the device after a reset of the CPU alone
  Users             \* the programs that may use the device

VARIABLES
  dev,   \* the device
  user   \* the program that uses it, fixed for a behaviour

vars == <<dev, user>>

Init ==
  /\ dev = Reset
  /\ user \in Users

Tick ==
  /\ dev' = Step(dev)
  /\ UNCHANGED user

Call ==
  /\ Answers(dev, dev', user)
  /\ UNCHANGED user

CpuReset ==
  /\ dev' = Unheard(dev)
  /\ UNCHANGED user

Next == Tick \/ Call \/ CpuReset

Spec == Init /\ [][Next]_vars

=============================================================================
