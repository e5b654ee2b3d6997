---------------------------- MODULE CpuSavestate ----------------------------
(***************************************************************************)
(* Save and load of the CPU section of a savestate (savestate.c), between  *)
(* two instructions of CpuInterrupts.                                      *)
(***************************************************************************)
EXTENDS CpuInterrupts

VARIABLES
  file,     \* the CPU section of the savestate file, NoFile before a save
  at_save   \* history: the interrupt state of the CPU when it was written

NoFile == [missing |-> TRUE]

\* What decides which interrupt the CPU takes next.
InterruptState == <<flagI, irq, irq_sampled, nmi_sampled, nmi_pending, irq_pulse>>

SaveInit == Init /\ file = NoFile /\ at_save = <<>>

\* P carries the flag I; the plan, the pending NMI and the pulses are not
\* written.
savestate_save ==
  /\ AtBoundary
  /\ file' = [irq |-> irq, flagI |-> flagI,
              irq_sampled |-> irq_sampled, nmi_sampled |-> nmi_sampled]
  /\ at_save' = InterruptState
  /\ UNCHANGED vars

\* What is not in the file keeps the value of the session that loads it.
savestate_load ==
  /\ AtBoundary
  /\ file # NoFile
  /\ irq' = file.irq
  /\ flagI' = file.flagI
  /\ irq_sampled' = file.irq_sampled
  /\ nmi_sampled' = file.nmi_sampled
  /\ ms_active' = FALSE
  /\ irq_log' = "none"
  /\ UNCHANGED <<ms_enabled, halted, nmi_pending, irq_pulse, sequence,
                 nmi_owed, wait, just, file, at_save>>

SaveNext ==
  \/ Next /\ UNCHANGED <<file, at_save>>
  \/ savestate_save
  \/ savestate_load

saveVars == <<vars, file, at_save>>
SaveSpec == SaveInit /\ [][SaveNext]_saveVars

-----------------------------------------------------------------------------

\* A savestate is an exact resume point (docs/ACCURACY.md): the CPU that
\* resumes owes the interrupts that the saved CPU owed, and no other.
ResumeIsExact ==
  [][savestate_load => InterruptState' = at_save]_saveVars

=============================================================================
