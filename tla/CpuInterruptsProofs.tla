------------------------ MODULE CpuInterruptsProofs ------------------------
(***************************************************************************)
(* Proofs about CpuInterrupts, for any sources, any saturation of the      *)
(* pulses and any lengths of an instruction.                               *)
(***************************************************************************)
EXTENDS CpuInterrupts, DebugSession, SequenceTheorems, WellFoundedInduction, TLAPS

\* A sequence in progress has a micro-operation left; the historical engine
\* never has one.
PlanInv ==
  /\ ms_active => ms_enabled /\ ms_pc < ms_len
  /\ Entering => ms_len = 6

\* While an instruction runs, the samples are those of its last cycle so far.
SampleInv ==
  /\ ms_active => (irq_sampled => ~flagI)
  /\ ms_active => (nmi_sampled <=> nmi_pending)

\* From the push of P on, interrupts are masked, and stay so up to the end.
MaskInv ==
  /\ Entering /\ ms_pc >= 4 => flagI
  /\ AtBoundary /\ just = "entered" => flagI
  /\ ms_enabled /\ AtBoundary /\ just \in {"entered", "unmasked"} => ~irq_sampled
  /\ ms_enabled /\ AtBoundary /\ irq_sampled /\ flagI => just = "masked"

\* An IRQ that has outlived an instruction is interruptible and, once a cycle
\* has sampled it, sampled; the second one it outlives decides for it.
IrqWaitInv ==
  /\ wait.irq <= 2
  /\ wait.irq >= 1 => Interruptible
  /\ ms_active /\ wait.irq >= 1 => irq_sampled
  /\ ms_enabled /\ ~ms_active /\ wait.irq = 2 => irq_sampled
  /\ ms_active /\ wait.irq = 2 => op = "int"
  /\ ~ms_enabled => wait.irq <= 1

NmiWaitInv ==
  /\ wait.nmi <= 1
  /\ wait.nmi = 1 => nmi_pending /\ ms_enabled /\ ~ms_active /\ nmi_sampled

IrqInv == TypeOK /\ PlanInv /\ NmiServedOnce /\ SampleInv /\ MaskInv /\ IrqWaitInv /\ NmiWaitInv

-----------------------------------------------------------------------------
(* Typing *)

\* Initially the CPU is idle and masked.
LEMMA InitInv == Init => IrqInv
<1> SUFFICES ASSUME Init PROVE IrqInv
  OBVIOUS
<1>1. TypeOK
  <2>1. irq = {} /\ irq_pulse = 0
    BY DEF Init
  <2>2. irq_pulse \in 0 .. PulseMax
    BY <2>1, PulseAssumption
  <2>3. wait \in [irq : Nat, nmi : Nat]
    BY DEF Init
  <2>4. ms_pc \in Nat /\ ms_len \in Nat /\ nmi_owed \in Int
    BY DEF Init
  <2>5. irq \in SUBSET Sources
    BY <2>1
  <2>6. QED
    BY <2>2, <2>3, <2>4, <2>5, Zenon DEF Init, TypeOK, Ops
<1>2. PlanInv /\ NmiServedOnce /\ SampleInv
  BY DEF Init, PlanInv, NmiServedOnce, SampleInv, Entering
<1>3. MaskInv /\ IrqWaitInv /\ NmiWaitInv
  BY DEF Init, MaskInv, IrqWaitInv, NmiWaitInv, AtBoundary, Entering
<1>4. QED
  BY <1>1, <1>2, <1>3 DEF IrqInv

\* A bus access keeps the lines in their types; pulses saturate.
LEMMA AccessType ==
  ASSUME NEW n \in 0 .. PulseMax, Access(n)
  PROVE irq' \in SUBSET Sources /\ irq_pulse' \in 0 .. PulseMax
  BY PulseAssumption DEF Access, Saturated

\* Taking a pulse does not go below zero.
LEMMA TakenType ==
  ASSUME NEW n \in 0 .. PulseMax
  PROVE Taken(n) \in 0 .. PulseMax
  BY PulseAssumption DEF Taken

\* Every plan has a micro-operation; that of BRK has six.
LEMMA LengthType ==
  ASSUME NEW o \in Ops, NEW n \in Lengths(o)
  PROVE n \in Nat /\ n > 0 /\ (o = "brk" => n = 6)
  BY LengthsAssumption DEF Ops, Lengths, Entries

\* The history of waits stays a pair of naturals.
LEMMA TallyType ==
  ASSUME NEW e \in BOOLEAN, Tally(e), wait \in [irq : Nat, nmi : Nat]
  PROVE wait' \in [irq : Nat, nmi : Nat]
  BY DEF Tally, Outlived

-----------------------------------------------------------------------------
(* One lemma per action *)

\* The first cycle of an NMI sequence keeps the invariant.
LEMMA TakeNmiInv == IrqInv /\ TakeNmi => IrqInv'
<1> SUFFICES ASSUME IrqInv, TakeNmi PROVE IrqInv'
  OBVIOUS
<1> USE DEF IrqInv, TakeNmi, ms_build_interrupt, Begin
<1>1. TypeOK'
  <2>1. irq' \in SUBSET Sources /\ irq_pulse' \in 0 .. PulseMax
    BY AccessType DEF TypeOK
  <2>2. wait' \in [irq : Nat, nmi : Nat]
    BY TallyType DEF TypeOK
  <2>3. nmi_sampled' \in BOOLEAN /\ irq_sampled' \in BOOLEAN
    BY DEF ms_sample_interrupts, Interruptible, Asserted
  <2>4. QED
    BY <2>1, <2>2, <2>3 DEF TypeOK
<1>2. PlanInv'
  BY DEF PlanInv, Entering, Entries
<1>3. NmiServedOnce'
  BY DEF NmiServedOnce, Entering, Entries, AtBoundary, TypeOK
<1>4. SampleInv'
  BY DEF SampleInv, ms_sample_interrupts, Interruptible, AtBoundary, TypeOK
<1>5. MaskInv'
  BY DEF MaskInv, Entering, AtBoundary
<1>6. IrqWaitInv'
  BY DEF IrqWaitInv, Tally, Outlived, ms_sample_interrupts, TypeOK, AtBoundary
<1>7. NmiWaitInv'
  BY DEF NmiWaitInv, Tally, Outlived, TypeOK
<1>8. QED
  BY <1>1, <1>2, <1>3, <1>4, <1>5, <1>6, <1>7

\* The first cycle of an IRQ sequence keeps the invariant.
LEMMA TakeIrqInv == IrqInv /\ TakeIrq => IrqInv'
<1> SUFFICES ASSUME IrqInv, TakeIrq PROVE IrqInv'
  OBVIOUS
<1> USE DEF IrqInv, TakeIrq, ms_build_interrupt, Begin
<1>1. TypeOK'
  <2>1. irq' \in SUBSET Sources /\ irq_pulse' \in 0 .. PulseMax
    BY AccessType, TakenType DEF TypeOK
  <2>2. wait' \in [irq : Nat, nmi : Nat]
    BY TallyType DEF TypeOK
  <2>3. nmi_sampled' \in BOOLEAN /\ irq_sampled' \in BOOLEAN
    BY DEF ms_sample_interrupts, Interruptible, Asserted, TypeOK
  <2>4. QED
    BY <2>1, <2>2, <2>3 DEF TypeOK
<1>2. PlanInv'
  BY DEF PlanInv, Entering, Entries
<1>3. NmiServedOnce'
  BY DEF NmiServedOnce, Entering, Entries, AtBoundary, TypeOK
<1>4. SampleInv'
  BY DEF SampleInv, ms_sample_interrupts, Interruptible, AtBoundary, TypeOK
<1>5. MaskInv'
  BY DEF MaskInv, Entering, AtBoundary, Entries
<1>6. IrqWaitInv'
  BY DEF IrqWaitInv, Tally, Outlived, ms_sample_interrupts, TypeOK, AtBoundary
<1>7. NmiWaitInv'
  BY DEF NmiWaitInv, Tally, Outlived, TypeOK
<1>8. QED
  BY <1>1, <1>2, <1>3, <1>4, <1>5, <1>6, <1>7

\* The fetch of an opcode keeps the invariant.
LEMMA FetchInv == IrqInv /\ Fetch => IrqInv'
<1> SUFFICES ASSUME IrqInv, Fetch PROVE IrqInv'
  OBVIOUS
<1> USE DEF IrqInv
<1>1. PICK o \in Ops : \E n \in Lengths(o) : ms_build_plan(o, n)
  BY DEF Fetch
<1>2. PICK n \in Lengths(o) : ms_build_plan(o, n)
  BY <1>1
<1>3. n \in Nat /\ n > 0 /\ (o = "brk" => n = 6)
  BY LengthType
<1>4. /\ Access(irq_pulse) /\ ms_sample_interrupts(FALSE) /\ Tally(FALSE)
      /\ ms_active' = TRUE /\ op' = o /\ ms_pc' = 0 /\ ms_len' = n
      /\ ms_vector' = (IF o = "brk" THEN "irq" ELSE ms_vector)
      /\ nmi_pending' = nmi_pending /\ irq_log' = "none"
      /\ ms_enabled' = ms_enabled /\ halted' = halted /\ flagI' = flagI
      /\ nmi_owed' = nmi_owed /\ just' = just
  BY <1>2 DEF ms_build_plan, Begin
<1>5. ms_enabled /\ AtBoundary /\ ~(nmi_sampled /\ nmi_pending) /\ ~irq_sampled
  BY DEF Fetch
<1>6. TypeOK'
  <2>1. irq' \in SUBSET Sources /\ irq_pulse' \in 0 .. PulseMax
    BY <1>4, AccessType DEF TypeOK
  <2>2. wait' \in [irq : Nat, nmi : Nat]
    BY <1>4, TallyType DEF TypeOK
  <2>3. nmi_sampled' \in BOOLEAN /\ irq_sampled' \in BOOLEAN
    BY <1>4 DEF ms_sample_interrupts, Interruptible, Asserted, TypeOK
  <2>4. ms_pc' \in Nat /\ ms_len' \in Nat
    BY <1>3, <1>4
  <2>5. QED
    BY <2>1, <2>2, <2>3, <2>4, <1>4 DEF TypeOK
<1>7. PlanInv'
  BY <1>3, <1>4, <1>5 DEF PlanInv, Entering, Entries, Ops
<1>8. NmiServedOnce'
  BY <1>4, <1>5 DEF NmiServedOnce, Entering, Entries, Ops, AtBoundary
<1>9. SampleInv'
  BY <1>4 DEF SampleInv, ms_sample_interrupts, Interruptible, TypeOK
<1>10. MaskInv'
  BY <1>4 DEF MaskInv, Entering, AtBoundary
<1>11. IrqWaitInv'
  <2>1. wait.irq \in Nat /\ wait.irq <= 1
    BY <1>5 DEF IrqWaitInv, AtBoundary, TypeOK
  <2>2. wait'.irq = (IF Interruptible' THEN wait.irq ELSE 0) /\ (irq_sampled' <=> Interruptible')
    BY <1>4 DEF Tally, Outlived, ms_sample_interrupts
  <2>3. QED
    BY <2>1, <2>2, <1>4, <1>5 DEF IrqWaitInv
<1>12. NmiWaitInv'
  <2>1. wait.nmi \in Nat /\ wait.nmi <= 1 /\ wait.nmi # 1
    BY <1>5 DEF NmiWaitInv, TypeOK
  <2>2. wait'.nmi = IF nmi_pending' THEN wait.nmi ELSE 0
    BY <1>4 DEF Tally, Outlived
  <2>3. QED
    BY <2>1, <2>2 DEF NmiWaitInv
<1>13. QED
  BY <1>6, <1>7, <1>8, <1>9, <1>10, <1>11, <1>12

-----------------------------------------------------------------------------
(* The common tail of the micro-operations *)

CpuInv == PlanInv /\ SampleInv /\ MaskInv /\ IrqWaitInv /\ NmiWaitInv

\* The tail of cpu_cycle keeps every variable in its type.
LEMMA AdvanceType ==
  ASSUME TypeOK, NEW i \in BOOLEAN, Advance(i),
         nmi_pending' \in BOOLEAN, ms_vector' \in {"none", "nmi", "irq"},
         nmi_owed' \in Int, irq_log' \in {"none", "entry", "rti"}
  PROVE TypeOK'
<1>1. irq' \in SUBSET Sources /\ irq_pulse' \in 0 .. PulseMax
  <2>1. Access(irq_pulse) /\ irq_pulse \in 0 .. PulseMax
    BY DEF Advance, TypeOK
  <2>2. QED
    BY <2>1, AccessType
<1>2. wait' \in [irq : Nat, nmi : Nat]
  <2>1. LastCycle \in BOOLEAN /\ Tally(LastCycle) /\ wait \in [irq : Nat, nmi : Nat]
    BY DEF Advance, LastCycle, TypeOK
  <2>2. QED
    BY <2>1, TallyType
<1>3. nmi_sampled' \in BOOLEAN /\ irq_sampled' \in BOOLEAN
  <2>1. ms_sample_interrupts(LastCycle)
    BY DEF Advance
  <2>2. nmi_sampled \in BOOLEAN /\ irq_sampled \in BOOLEAN
    BY DEF TypeOK
  <2>3. CASE LastCycle
    BY <2>1, <2>2, <2>3 DEF ms_sample_interrupts, samples
  <2>4. CASE ~LastCycle
    BY <2>1, <2>4 DEF ms_sample_interrupts, Interruptible, Asserted
  <2>5. QED
    BY <2>3, <2>4
<1>4. just' \in {"none", "entered", "unmasked", "masked"}
  BY DEF Advance, Ended, TypeOK
<1>5. ms_active' \in BOOLEAN /\ ms_pc' \in Nat /\ flagI' \in BOOLEAN
  BY DEF Advance, LastCycle, TypeOK
<1>6. QED
  BY <1>1, <1>2, <1>3, <1>4, <1>5 DEF Advance, TypeOK

\* A cycle that is not the last one samples the lines.
LEMMA MidCycle ==
  ASSUME IrqInv, NEW i \in BOOLEAN, Advance(i), TypeOK',
         ms_enabled, ~halted, ms_active, ~LastCycle,
         op \in Entries /\ ms_pc >= 3 => i
  PROVE CpuInv'
<1> USE DEF IrqInv
<1>1. /\ ms_active' /\ ms_pc' = ms_pc + 1 /\ flagI' = i
      /\ ms_enabled' = ms_enabled /\ op' = op /\ ms_len' = ms_len
      /\ halted' = halted /\ just' = just
  BY DEF Advance
<1>2. (nmi_sampled' <=> nmi_pending') /\ (irq_sampled' <=> Interruptible')
  BY DEF Advance, ms_sample_interrupts, TypeOK
<1>3. /\ wait'.irq = IF Interruptible' THEN wait.irq ELSE 0
      /\ wait'.nmi = IF nmi_pending' THEN wait.nmi ELSE 0
  BY DEF Advance, Tally, Outlived
<1>4. wait.irq \in Nat /\ wait.nmi \in Nat /\ ms_pc \in Nat /\ ms_len \in Nat
  BY DEF TypeOK
<1>5. PlanInv'
  BY <1>1, <1>4 DEF PlanInv, LastCycle, Entering
<1>6. SampleInv'
  BY <1>1, <1>2 DEF SampleInv, Interruptible
<1>7. MaskInv'
  BY <1>1, <1>4 DEF MaskInv, AtBoundary, Entering
<1>8. IrqWaitInv'
  BY <1>1, <1>2, <1>3, <1>4 DEF IrqWaitInv
<1>9. NmiWaitInv'
  BY <1>1, <1>3, <1>4 DEF NmiWaitInv
<1>10. QED
  BY <1>5, <1>6, <1>7, <1>8, <1>9 DEF CpuInv

\* The last cycle leaves the samples of the one before.
LEMMA EndCycle ==
  ASSUME IrqInv, NEW i \in BOOLEAN, Advance(i), TypeOK',
         ms_enabled, ~halted, ms_active, LastCycle,
         nmi_pending' = nmi_pending, op \in Entries => i = flagI
  PROVE CpuInv'
<1> USE DEF IrqInv
<1>1. /\ ~ms_active' /\ flagI' = i /\ ms_enabled' = ms_enabled /\ halted' = halted
      /\ just' = Ended(i)
  BY DEF Advance
<1>2. nmi_sampled' = nmi_sampled /\ irq_sampled' = irq_sampled
  BY DEF Advance, ms_sample_interrupts, samples
<1>3. /\ wait'.irq = IF Interruptible' THEN wait.irq + 1 ELSE 0
      /\ wait'.nmi = IF nmi_pending' THEN wait.nmi + 1 ELSE 0
  BY DEF Advance, Tally, Outlived
<1>4. wait.irq \in Nat /\ wait.nmi \in Nat /\ ms_pc \in Nat /\ ms_len \in Nat
  BY DEF TypeOK
<1>5. op \in Entries => flagI /\ i /\ ~irq_sampled
  <2>1. op \in Entries => ms_pc >= 4
    BY <1>4 DEF PlanInv, LastCycle, Entering
  <2>2. QED
    BY <2>1 DEF MaskInv, SampleInv, Entering
<1>6. PlanInv' /\ SampleInv'
  BY <1>1 DEF PlanInv, SampleInv, Entering
<1>7. MaskInv'
  <2>1. CASE op \in Entries
    BY <2>1, <1>1, <1>2, <1>5 DEF MaskInv, Entering, Ended
  <2>2. CASE op \notin Entries
    <3>1. just' # "entered"
      BY <2>2, <1>1 DEF Ended
    <3>2. just' = "unmasked" => flagI
      BY <2>2, <1>1 DEF Ended
    <3>3. ~flagI /\ i => just' = "masked"
      BY <2>2, <1>1 DEF Ended
    <3>4. irq_sampled => ~flagI
      BY DEF SampleInv
    <3>5. QED
      BY <3>1, <3>2, <3>3, <3>4, <1>1, <1>2 DEF MaskInv, Entering
  <2>3. QED
    BY <2>1, <2>2
<1>8. IrqWaitInv'
  <2>1. wait.irq <= 1
    BY <1>4, <1>5 DEF IrqWaitInv, Interruptible, Entries
  <2>2. QED
    BY <2>1, <1>1, <1>2, <1>3, <1>4 DEF IrqWaitInv
<1>9. NmiWaitInv'
  <2>1. wait.nmi = 0
    BY <1>4 DEF NmiWaitInv
  <2>2. nmi_pending => nmi_sampled
    BY DEF SampleInv
  <2>3. QED
    BY <2>1, <2>2, <1>1, <1>2, <1>3, <1>4 DEF NmiWaitInv
<1>10. QED
  BY <1>6, <1>7, <1>8, <1>9 DEF CpuInv

-----------------------------------------------------------------------------
(* The other micro-operations *)

\* A cycle without effect on interrupts keeps the invariant.
LEMMA BusCycleInv == IrqInv /\ BusCycle => IrqInv'
<1> SUFFICES ASSUME IrqInv, BusCycle PROVE IrqInv'
  OBVIOUS
<1> USE DEF IrqInv
<1>1. /\ ms_enabled /\ ~halted /\ ms_active /\ MicroOp(op, ms_pc) = "bus"
      /\ Advance(flagI) /\ flagI \in BOOLEAN
      /\ nmi_pending' = nmi_pending /\ ms_vector' = ms_vector /\ nmi_owed' = nmi_owed
      /\ irq_log' \in {"none", "rti"}
  BY DEF BusCycle, At, TypeOK
<1>2. TypeOK'
  BY <1>1, AdvanceType DEF TypeOK
<1>3. op \in Entries => ms_pc # 3 /\ ms_pc # 5
  BY <1>1 DEF MicroOp
<1>4. CpuInv'
  <2>1. CASE LastCycle
    BY <2>1, <1>1, <1>2, EndCycle
  <2>2. CASE ~LastCycle
    <3>1. op \in Entries /\ ms_pc >= 3 => flagI
      BY <1>1, <1>3 DEF MaskInv, Entering, TypeOK
    <3>2. QED
      BY <3>1, <2>2, <1>1, <1>2, MidCycle
  <2>3. QED
    BY <2>1, <2>2
<1>5. NmiServedOnce'
  <2>1. Entering' <=> Entering
    <3>1. op \in Entries => ms_pc + 1 < ms_len
      BY <1>1, <1>3 DEF PlanInv, Entering, TypeOK
    <3>2. op' = op /\ (ms_active' <=> ~LastCycle)
      BY <1>1 DEF Advance
    <3>3. QED
      BY <1>1, <3>1, <3>2 DEF Entering, LastCycle, TypeOK
  <2>2. QED
    BY <2>1, <1>1 DEF NmiServedOnce
<1>6. QED
  BY <1>2, <1>4, <1>5 DEF CpuInv

\* CLI, SEI and the pull of P keep the invariant.
LEMMA FlagCycleInv == IrqInv /\ FlagCycle => IrqInv'
<1> SUFFICES ASSUME IrqInv, FlagCycle PROVE IrqInv'
  OBVIOUS
<1> USE DEF IrqInv
<1>1. PICK i \in BOOLEAN : Advance(i)
  BY DEF FlagCycle
<1>2. /\ ms_enabled /\ ~halted /\ ms_active
      /\ nmi_pending' = nmi_pending /\ ms_vector' = ms_vector /\ nmi_owed' = nmi_owed
      /\ irq_log' = "none"
  BY DEF FlagCycle, At
<1>3. op \notin Entries
  <2>1. MicroOp(op, ms_pc) \in {"cli", "sei", "pull_p"}
    BY DEF FlagCycle, At
  <2>2. QED
    BY <2>1 DEF MicroOp, Entries
<1>4. TypeOK'
  BY <1>1, <1>2, AdvanceType DEF TypeOK
<1>5. CpuInv'
  <2>1. CASE LastCycle
    BY <2>1, <1>1, <1>2, <1>3, <1>4, EndCycle
  <2>2. CASE ~LastCycle
    BY <2>2, <1>1, <1>2, <1>3, <1>4, MidCycle
  <2>3. QED
    BY <2>1, <2>2
<1>6. NmiServedOnce'
  <2>1. op' = op
    BY <1>1 DEF Advance
  <2>2. QED
    BY <2>1, <1>2, <1>3 DEF NmiServedOnce, Entering
<1>7. QED
  BY <1>4, <1>5, <1>6 DEF CpuInv

\* The push of P, with or without a hijack, keeps the invariant.
LEMMA PushPInv == IrqInv /\ PushP => IrqInv'
<1> SUFFICES ASSUME IrqInv, PushP PROVE IrqInv'
  OBVIOUS
<1> USE DEF IrqInv
<1>1. /\ ms_enabled /\ ~halted /\ ms_active /\ MicroOp(op, ms_pc) = "push_p"
      /\ Advance(TRUE) /\ ms_nmi_hijack /\ nmi_owed' = nmi_owed /\ irq_log' = "none"
  BY DEF PushP, At
<1>2. op \in Entries /\ ms_pc = 3
  BY <1>1 DEF MicroOp, TypeOK, Ops
<1>3. nmi_pending' \in BOOLEAN /\ ms_vector' \in {"none", "nmi", "irq"}
  BY <1>1 DEF ms_nmi_hijack, TypeOK
<1>4. TypeOK'
  BY <1>1, <1>3, AdvanceType, Zenon DEF TypeOK
<1>5. ~LastCycle
  BY <1>1, <1>2 DEF LastCycle, PlanInv, Entering
<1>6. CpuInv'
  BY <1>1, <1>4, <1>5, MidCycle, Zenon
<1>7. NmiServedOnce'
  <2>1. Entering /\ Entering'
    BY <1>1, <1>2, <1>5 DEF Entering, Advance
  <2>2. CASE nmi_pending /\ ms_vector # "nmi"
    BY <2>1, <2>2, <1>1 DEF ms_nmi_hijack, NmiServedOnce
  <2>3. CASE ~(nmi_pending /\ ms_vector # "nmi")
    BY <2>1, <2>3, <1>1 DEF ms_nmi_hijack, NmiServedOnce
  <2>4. QED
    BY <2>2, <2>3
<1>8. QED
  BY <1>4, <1>6, <1>7 DEF CpuInv

\* The entry of a handler keeps the invariant.
LEMMA VecHiInv == IrqInv /\ VecHi => IrqInv'
<1> SUFFICES ASSUME IrqInv, VecHi PROVE IrqInv'
  OBVIOUS
<1> USE DEF IrqInv
<1>1. /\ ms_enabled /\ ~halted /\ ms_active /\ MicroOp(op, ms_pc) = "vec_hi"
      /\ Advance(flagI) /\ flagI \in BOOLEAN
      /\ nmi_pending' = nmi_pending /\ ms_vector' = ms_vector
      /\ irq_log' \in {"none", "entry"}
      /\ nmi_owed' = IF ms_vector = "nmi" THEN nmi_owed - 1 ELSE nmi_owed
  BY DEF VecHi, At, TypeOK
<1>2. op \in Entries /\ ms_pc = 5
  BY <1>1 DEF MicroOp, TypeOK, Ops
<1>3. TypeOK'
  <2>1. nmi_owed' \in Int
    BY <1>1 DEF TypeOK
  <2>2. QED
    BY <2>1, <1>1, AdvanceType DEF TypeOK
<1>4. LastCycle
  BY <1>1, <1>2 DEF LastCycle, PlanInv, Entering
<1>5. CpuInv'
  BY <1>1, <1>3, <1>4, EndCycle
<1>6. NmiServedOnce'
  <2>1. Entering /\ ~Entering'
    BY <1>1, <1>2, <1>4 DEF Entering, Advance
  <2>2. QED
    BY <2>1, <1>1 DEF NmiServedOnce, TypeOK
<1>7. QED
  BY <1>3, <1>5, <1>6 DEF CpuInv

\* A JAM keeps the invariant.
LEMMA JamInv == IrqInv /\ Jam => IrqInv'
<1> SUFFICES ASSUME IrqInv, Jam PROVE IrqInv'
  OBVIOUS
<1> USE DEF IrqInv
<1>1. /\ ms_enabled' = ms_enabled /\ flagI' = flagI /\ nmi_pending' = nmi_pending
      /\ irq' = irq /\ irq_pulse' = irq_pulse /\ op' = op /\ ms_pc' = ms_pc
      /\ ms_len' = ms_len /\ ms_vector' = ms_vector /\ nmi_sampled' = nmi_sampled
      /\ irq_sampled' = irq_sampled /\ nmi_owed' = nmi_owed /\ wait' = wait
      /\ just' = just /\ irq_log' = "none" /\ halted' /\ ~ms_active' /\ ms_active
      /\ halted' \in BOOLEAN /\ ms_active' \in BOOLEAN
  BY DEF Jam, At, lines, sequence, samples
<1>2. op \notin Entries
  BY DEF Jam, At, MicroOp, Entries
<1>3. TypeOK'
  BY <1>1 DEF TypeOK
<1>4. PlanInv' /\ SampleInv' /\ MaskInv'
  BY <1>1 DEF PlanInv, SampleInv, MaskInv, Entering, AtBoundary
<1>5. NmiServedOnce'
  BY <1>1, <1>2 DEF NmiServedOnce, Entering
<1>6. IrqWaitInv'
  BY <1>1 DEF IrqWaitInv, Interruptible, Asserted, TypeOK
<1>7. NmiWaitInv'
  BY <1>1 DEF NmiWaitInv
<1>8. QED
  BY <1>3, <1>4, <1>5, <1>6, <1>7

-----------------------------------------------------------------------------
(* The historical engine *)

\* Whatever an instruction of the historical engine does, it ends at a
\* boundary; only the NMI accounting differs.
LEMMA LegacyInv ==
  ASSUME IrqInv, NEW i \in BOOLEAN, NEW j \in {"none", "entered"},
         NEW log \in {"none", "entry", "rti"}, LegacyTail(i, j, log),
         ~ms_enabled, ~ms_active, wait.irq = 0 \/ i, ~nmi_pending',
         nmi_pending' \in BOOLEAN, halted' \in BOOLEAN,
         irq' \in SUBSET Sources, irq_pulse' \in 0 .. PulseMax,
         j = "entered" => i,
         nmi_owed' = 0
  PROVE IrqInv'
<1> USE DEF IrqInv
<1>1. /\ flagI' = i /\ just' = j /\ irq_log' = log /\ Tally(TRUE)
      /\ ms_enabled' = ms_enabled /\ ms_active' = ms_active /\ op' = op
      /\ ms_pc' = ms_pc /\ ms_len' = ms_len /\ ms_vector' = ms_vector
      /\ nmi_sampled' = nmi_sampled /\ irq_sampled' = irq_sampled
  BY DEF LegacyTail, sequence, samples
<1>2. TypeOK'
  <2>1. wait' \in [irq : Nat, nmi : Nat]
    BY <1>1, TallyType DEF TypeOK
  <2>2. QED
    BY <2>1, <1>1 DEF TypeOK
<1>3. PlanInv' /\ SampleInv'
  BY <1>1 DEF PlanInv, SampleInv, Entering
<1>4. NmiServedOnce'
  BY <1>1 DEF NmiServedOnce, Entering
<1>5. MaskInv'
  BY <1>1 DEF MaskInv, Entering
<1>6. IrqWaitInv'
  <2>1. wait'.irq = IF Interruptible' THEN wait.irq + 1 ELSE 0
    BY <1>1 DEF Tally, Outlived
  <2>2. i => ~Interruptible'
    BY <1>1 DEF Interruptible
  <2>3. wait.irq \in Nat
    BY DEF TypeOK
  <2>4. QED
    BY <2>1, <2>2, <2>3, <1>1 DEF IrqWaitInv
<1>7. NmiWaitInv'
  BY <1>1 DEF NmiWaitInv, Tally, Outlived
<1>8. QED
  BY <1>2, <1>3, <1>4, <1>5, <1>6, <1>7

\* A step of the historical engine keeps the invariant.
LEMMA CpuStepInv == IrqInv /\ cpu_step => IrqInv'
<1> SUFFICES ASSUME IrqInv, cpu_step PROVE IrqInv'
  OBVIOUS
<1>1. TypeOK /\ halted \in BOOLEAN /\ irq_pulse \in 0 .. PulseMax
  BY DEF IrqInv, TypeOK
<1>2. ~ms_enabled /\ ~ms_active
  BY DEF cpu_step, handle_nmi, handle_irq, LegacyExecute, AtBoundary
<1>3. nmi_owed = IF nmi_pending THEN 1 ELSE 0
  BY <1>2 DEF IrqInv, NmiServedOnce, Entering
<1>4. CASE handle_nmi
  <2>1. Access(irq_pulse) /\ LegacyTail(TRUE, "entered", "none") /\ halted' = halted
    BY <1>4 DEF handle_nmi
  <2>2. nmi_pending' = FALSE /\ nmi_owed' = 0
    BY <1>3, <1>4 DEF handle_nmi
  <2>3. irq' \in SUBSET Sources /\ irq_pulse' \in 0 .. PulseMax
    BY <2>1, <1>1, AccessType
  <2>4. QED
    BY <2>1, <2>2, <2>3, <1>1, <1>2, LegacyInv, Zenon
<1>5. CASE handle_irq
  <2>1. /\ Access(Taken(irq_pulse)) /\ LegacyTail(TRUE, "entered", "entry")
        /\ halted' = halted /\ nmi_pending' = nmi_pending /\ ~nmi_pending
        /\ nmi_owed' = nmi_owed
    BY <1>5 DEF handle_irq
  <2>2. irq' \in SUBSET Sources /\ irq_pulse' \in 0 .. PulseMax
    BY <2>1, <1>1, TakenType, AccessType
  <2>3. nmi_owed' = 0 /\ nmi_pending' \in BOOLEAN
    BY <2>1, <1>1, <1>3 DEF TypeOK
  <2>4. QED
    BY <2>1, <2>2, <2>3, <1>1, <1>2, LegacyInv, Zenon
<1>6. CASE LegacyExecute
  <2>1. PICK o \in Ops : cpu_execute_opcode(o)
    BY <1>6 DEF LegacyExecute
  <2>2. /\ Access(irq_pulse) /\ nmi_pending' = nmi_pending /\ ~nmi_pending
        /\ nmi_owed' = nmi_owed /\ ~Interruptible
    BY <1>6 DEF LegacyExecute
  <2>3. irq' \in SUBSET Sources /\ irq_pulse' \in 0 .. PulseMax
    BY <2>2, <1>1, AccessType
  <2>4. nmi_owed' = 0 /\ nmi_pending' \in BOOLEAN /\ halted' \in BOOLEAN
    BY <2>1, <2>2, <1>1, <1>3 DEF TypeOK, cpu_execute_opcode
  <2>5. wait.irq = 0
    BY <2>2, <1>1 DEF IrqInv, IrqWaitInv, TypeOK
  <2>6. PICK i \in BOOLEAN, j \in {"none", "entered"}, log \in {"none", "entry", "rti"} :
          LegacyTail(i, j, log) /\ (j = "entered" => i)
    BY <2>1, <1>1, Zenon DEF cpu_execute_opcode, TypeOK
  <2>7. QED
    BY <2>2, <2>3, <2>4, <2>5, <2>6, <1>2, LegacyInv, Zenon
<1>7. QED
  BY <1>4, <1>5, <1>6 DEF cpu_step

-----------------------------------------------------------------------------
(* The rest of the machine *)

\* The lines may change between two cycles.
LEMMA DevicesInv == IrqInv /\ Devices => IrqInv'
<1> SUFFICES ASSUME IrqInv, Devices PROVE IrqInv'
  OBVIOUS
<1> USE DEF IrqInv
<1>1. /\ Access(irq_pulse) /\ Tally(FALSE) /\ irq_log' = "none"
      /\ ms_enabled' = ms_enabled /\ halted' = halted /\ flagI' = flagI
      /\ nmi_pending' = nmi_pending /\ ms_active' = ms_active /\ op' = op
      /\ ms_pc' = ms_pc /\ ms_len' = ms_len /\ ms_vector' = ms_vector
      /\ nmi_sampled' = nmi_sampled /\ irq_sampled' = irq_sampled
      /\ nmi_owed' = nmi_owed /\ just' = just
  BY DEF Devices, sequence, samples
<1>2. wait.irq \in Nat /\ wait.nmi \in Nat
  BY DEF TypeOK
<1>3. TypeOK'
  <2>1. irq' \in SUBSET Sources /\ irq_pulse' \in 0 .. PulseMax
    BY <1>1, AccessType DEF TypeOK
  <2>2. wait' \in [irq : Nat, nmi : Nat]
    BY <1>1, TallyType DEF TypeOK
  <2>3. QED
    BY <2>1, <2>2, <1>1 DEF TypeOK
<1>4. PlanInv' /\ SampleInv' /\ MaskInv'
  BY <1>1 DEF PlanInv, SampleInv, MaskInv, Entering, AtBoundary
<1>5. NmiServedOnce'
  BY <1>1 DEF NmiServedOnce, Entering
<1>6. IrqWaitInv'
  <2>1. wait'.irq = IF Interruptible' THEN wait.irq ELSE 0
    BY <1>1 DEF Tally, Outlived
  <2>2. QED
    BY <2>1, <1>1, <1>2 DEF IrqWaitInv
<1>7. NmiWaitInv'
  <2>1. wait'.nmi = IF nmi_pending' THEN wait.nmi ELSE 0
    BY <1>1 DEF Tally, Outlived
  <2>2. QED
    BY <2>1, <1>1, <1>2 DEF NmiWaitInv
<1>8. QED
  BY <1>3, <1>4, <1>5, <1>6, <1>7

\* The NMI button keeps the invariant.
LEMMA CpuNmiInv == IrqInv /\ cpu_nmi => IrqInv'
<1> SUFFICES ASSUME IrqInv, cpu_nmi PROVE IrqInv'
  OBVIOUS
<1> USE DEF IrqInv
<1>1. /\ nmi_pending' = TRUE /\ irq_log' = "none" /\ ~ms_active
      /\ ms_enabled' = ms_enabled /\ halted' = halted /\ flagI' = flagI
      /\ irq' = irq /\ irq_pulse' = irq_pulse
      /\ ms_active' = ms_active /\ op' = op
      /\ ms_pc' = ms_pc /\ ms_len' = ms_len /\ ms_vector' = ms_vector
      /\ nmi_sampled' = nmi_sampled /\ irq_sampled' = irq_sampled
      /\ wait' = wait /\ just' = just
      /\ nmi_owed' = IF nmi_pending THEN nmi_owed ELSE nmi_owed + 1
  BY DEF cpu_nmi, sequence, samples, AtBoundary
<1>2. TypeOK'
  <2>1. nmi_owed' \in Int
    BY <1>1 DEF TypeOK
  <2>2. QED
    BY <2>1, <1>1 DEF TypeOK
<1>3. PlanInv' /\ SampleInv' /\ MaskInv'
  BY <1>1 DEF PlanInv, SampleInv, MaskInv, Entering, AtBoundary
<1>4. NmiServedOnce'
  BY <1>1 DEF NmiServedOnce, Entering
<1>5. IrqWaitInv'
  BY <1>1 DEF IrqWaitInv, Interruptible, Asserted
<1>6. NmiWaitInv'
  BY <1>1 DEF NmiWaitInv
<1>7. QED
  BY <1>2, <1>3, <1>4, <1>5, <1>6

\* A reset re-establishes the invariant.
LEMMA CpuResetInv == IrqInv /\ cpu_reset => IrqInv'
<1> SUFFICES ASSUME IrqInv, cpu_reset PROVE IrqInv'
  OBVIOUS
<1> USE DEF IrqInv
<1>1. /\ irq' = {} /\ irq_pulse' = 0 /\ irq_pulse' \in 0 .. PulseMax
      /\ wait' = [irq |-> 0, nmi |-> 0] /\ nmi_owed' = 0
      /\ ms_enabled' = ms_enabled /\ op' = op /\ ms_pc' = ms_pc
      /\ ms_len' = ms_len /\ ms_vector' = ms_vector
      /\ ~ms_active' /\ ~nmi_pending' /\ ~irq_sampled' /\ flagI' /\ just' = "none"
  <2>1. irq_pulse' = 0 /\ 0 \in 0 .. PulseMax
    BY PulseAssumption DEF cpu_reset
  <2>2. QED
    BY <2>1 DEF cpu_reset, sequence
<1>2. TypeOK'
  <2>1. wait' \in [irq : Nat, nmi : Nat] /\ nmi_owed' \in Int
    BY <1>1
  <2>2. QED
    BY <2>1, <1>1, Zenon DEF cpu_reset, TypeOK
<1>3. PlanInv' /\ SampleInv' /\ MaskInv' /\ NmiServedOnce'
  BY <1>1 DEF PlanInv, SampleInv, MaskInv, NmiServedOnce, Entering, AtBoundary
<1>4. IrqWaitInv' /\ NmiWaitInv'
  BY <1>1 DEF IrqWaitInv, NmiWaitInv
<1>5. QED
  BY <1>2, <1>3, <1>4

\* A step of the rest of the program keeps the invariant.
LEMMA StutterInv == IrqInv /\ UNCHANGED vars => IrqInv'
<1> SUFFICES ASSUME IrqInv, UNCHANGED vars PROVE IrqInv'
  OBVIOUS
<1>1. TypeOK' /\ PlanInv' /\ NmiServedOnce' /\ SampleInv'
  BY DEF IrqInv, TypeOK, PlanInv, NmiServedOnce, SampleInv, Entering, vars,
         lines, sequence, samples, history
<1>2. MaskInv' /\ IrqWaitInv' /\ NmiWaitInv'
  BY DEF IrqInv, MaskInv, IrqWaitInv, NmiWaitInv, Entering, AtBoundary,
         Interruptible, Asserted, vars, lines, sequence, samples, history
<1>3. QED
  BY <1>1, <1>2 DEF IrqInv

-----------------------------------------------------------------------------
(* Theorems *)

\* IrqInv is an invariant of both engines.
THEOREM IrqInvariance == Spec => []IrqInv
<1>1. ASSUME IrqInv, [Next]_vars PROVE IrqInv'
  <2>1. CASE cpu_cycle
    BY <1>1, <2>1, TakeNmiInv, TakeIrqInv, FetchInv, BusCycleInv, FlagCycleInv,
       PushPInv, VecHiInv, JamInv DEF cpu_cycle
  <2>2. CASE cpu_step
    BY <1>1, <2>2, CpuStepInv
  <2>3. CASE Devices \/ cpu_nmi \/ cpu_reset
    BY <1>1, <2>3, DevicesInv, CpuNmiInv, CpuResetInv
  <2>4. CASE UNCHANGED vars
    BY <1>1, <2>4, StutterInv
  <2>5. QED
    BY <1>1, <2>1, <2>2, <2>3, <2>4 DEF Next
<1>2. QED
  BY <1>1, InitInv, PTL DEF Spec

\* The state of the engines keeps its types, whatever the saturation: irq_pulse
\* in particular never exceeds it.
THEOREM CpuTypeCorrect == Spec => []TypeOK
<1>1. IrqInv => TypeOK
  BY DEF IrqInv
<1>2. QED
  BY <1>1, IrqInvariance, PTL

\* No NMI edge is lost or served twice, hijacked sequences included.
THEOREM NmiOnce == Spec => []NmiServedOnce
<1>1. IrqInv => NmiServedOnce
  BY DEF IrqInv
<1>2. QED
  BY <1>1, IrqInvariance, PTL

\* An IRQ outlives two instruction ends at most, an NMI one, whatever the
\* lengths of the instructions.
THEOREM LatencyBounded == Spec => []InterruptLatency
<1>1. IrqInv => InterruptLatency
  BY DEF IrqInv, IrqWaitInv, NmiWaitInv, InterruptLatency
<1>2. QED
  BY <1>1, IrqInvariance, PTL

\* The first instruction of a handler is never preempted by an IRQ.
THEOREM HandlerFirst == Spec => HandlerRunsFirst
<1>1. ASSUME IrqInv, TakeIrq \/ handle_irq PROVE just # "entered"
  <2>1. CASE TakeIrq
    BY <1>1, <2>1 DEF IrqInv, MaskInv, TakeIrq
  <2>2. CASE handle_irq
    BY <1>1, <2>2 DEF IrqInv, MaskInv, handle_irq, Interruptible
  <2>3. QED
    BY <1>1, <2>1, <2>2
<1>2. IrqInv /\ [Next]_vars => [TakeIrq \/ handle_irq => just # "entered"]_vars
  BY <1>1
<1>3. QED
  BY <1>2, IrqInvariance, PTL DEF Spec, HandlerRunsFirst

\* I takes effect one instruction late, in both directions.
THEOREM DelayedFlag == Spec => FlagIsDelayed
<1>1. ASSUME IrqInv, TakeIrq
      PROVE just # "unmasked" /\ (flagI => just = "masked")
  BY <1>1 DEF IrqInv, MaskInv, TakeIrq
<1>2. IrqInv /\ [Next]_vars
        => [TakeIrq => just # "unmasked" /\ (flagI => just = "masked")]_vars
  BY <1>1
<1>3. QED
  BY <1>2, IrqInvariance, PTL DEF Spec, FlagIsDelayed

-----------------------------------------------------------------------------
(***************************************************************************)
(* The debugger session.                                                   *)
(***************************************************************************)

Points == [addr : Addr, cond : Nat]
Watches == [mode : Modes, last : Nat]
Snapshots == [pc : Addr, stack : Seq(Addr), cell : Nat, jam : BOOLEAN]
Machines == [pc : Addr, stack : Seq(Addr), cell : Nat, line : 1 .. Lines, jam : BOOLEAN]
Reasons == {"", "step", "temp", "break", "watch", "raster"}
Debuggers ==
  [active : BOOLEAN, step : BOOLEAN, temp : Addr \cup {None},
   bps : Seq(Points), wps : Seq(Watches), rw : SUBSET {"r", "w"}, exec : SUBSET Addr,
   traced : BOOLEAN, trig : BOOLEAN, raster : [1 .. Slots -> Nat], last : Nat, reason : Reasons,
   ring : [0 .. Depth - 1 -> Snapshots \cup {Blank}], head : 0 .. Depth - 1, count : 0 .. Depth]
Traces ==
  [on : BOOLEAN, armed : BOOLEAN, from : Nat, stop : {"none", "r", "w"},
   ring : Seq(Nat), head : Nat, count : Nat]
Sessions ==
  [mode : {"control", "gdb", "repl", "tui"},
   stage : {"run", "go", "stopped", "frame", "menu", "ended"}, running : BOOLEAN,
   pending : BOOLEAN, resumed : BOOLEAN, inbox : {"none", "pause", "eof"}, left : Nat, moves : Nat]
Wishes == {"Z0"} \X Addr \cup {"Z2"} \X (Modes \ {"change"})
Views ==
  [view : {"attached", "running", "stopped"}, paused : BOOLEAN, twice : BOOLEAN,
   stepped : BOOLEAN, ran : BOOLEAN, asked : SUBSET Wishes,
   access : {"none", "r", "w", "change"}, undo : Seq(Snapshots), log : Seq(Addr)]
States == [m : Machines, d : Debuggers, t : Traces, s : Sessions, g : Views]

\* The callback is installed exactly while something needs it.
TracedIn(d) == d.traced <=> (d.wps # <<>> \/ d.rw # {})

\* What gdb asked for is in the tables, and it has asked for one kind of
\* watchpoint at most.
Has(s, x) == \E i \in DOMAIN s : s[i] = x
Watched(s, k) == \E i \in DOMAIN s : s[i].mode = k
InTables(d, A) ==
  /\ \A a \in Addr : <<"Z0", a>> \in A => Has(d.bps, [addr |-> a, cond |-> None])
  /\ \A k \in Modes : <<"Z2", k>> \in A => Watched(d.wps, k)
  /\ \A j, k \in Modes : <<"Z2", j>> \in A /\ <<"Z2", k>> \in A => j = k
AskedIn(d, s, g) == (s.mode # "gdb" => g.asked = {}) /\ InTables(d, g.asked)

\* The undo ring holds the snapshots that an observer has, newest first.
Back(h, k) == (h + Depth - k) % Depth
RingIn(d, u) ==
  /\ Len(u) = d.count
  /\ \A k \in 1 .. d.count : d.ring[Back(d.head, k)] = u[d.count - k + 1]

\* The trace ring, of two entries, in its five situations.
LogIn(t, l) ==
  \/ t.ring = <<>> /\ ~t.on /\ ~t.armed /\ t.count = 0 /\ t.head = 0 /\ l = <<>>
  \/ /\ Len(t.ring) = 2
     /\ \/ t.count = 0 /\ t.head = 0 /\ l = <<>>
        \/ t.count = 1 /\ t.head = 1 /\ Len(l) = 1 /\ l[1] = t.ring[1]
        \/ t.count = 2 /\ t.head = 0 /\ Len(l) = 2 /\ l[1] = t.ring[1] /\ l[2] = t.ring[2]
        \/ t.count = 2 /\ t.head = 1 /\ Len(l) = 2 /\ l[1] = t.ring[2] /\ l[2] = t.ring[1]

\* What the tables and the rings promise whatever the stage.
Sound(z) == TracedIn(z.d) /\ AskedIn(z.d, z.s, z.g) /\ RingIn(z.d, z.g.undo) /\ LogIn(z.t, z.g.log)

\* Between two instructions.
Moving(s) == s.running /\ s.stage \in {"run", "frame", "menu"}
WantsPcIn(z) ==
  \/ debugger_check_pc(z.d, z.m) /\ z.s.mode # "gdb"
  \/ <<"Z0", z.m.pc>> \in z.g.asked
  \/ z.m.pc \in z.d.exec
Kind(g) == IF g.access = "change" THEN "w" ELSE g.access
HitBy(k, w) == (k = "w" /\ w \in {"write", "access"}) \/ (k = "r" /\ w \in {"read", "access"})
WantsAccessIn(z) ==
  \/ \E i \in DOMAIN z.d.wps : HitBy(Kind(z.g), z.d.wps[i].mode) /\ z.s.mode # "gdb"
  \/ \E w \in Modes : <<"Z2", w>> \in z.g.asked /\ HitBy(Kind(z.g), w)
  \/ Kind(z.g) \in z.d.rw

\* A step that the client asked for is still to come; an access that it
\* watches has fired; nothing it asked for is skipped.
StepIn(z) == z.g.stepped /\ (Moving(z.s) \/ z.s.stage = "go") => z.d.step
AccessIn(z) == Moving(z.s) /\ z.g.ran /\ WantsAccessIn(z) => z.d.trig
GoIn(z) == z.s.stage = "go" => ~(z.g.ran /\ (WantsPcIn(z) \/ WantsAccessIn(z) \/ z.g.stepped))

\* The client knows whether the machine runs.
ToldRunning(z) == z.g.view = "running" /\ (z.s.mode = "gdb" => z.s.resumed)
ViewIn(z) ==
  /\ z.s.running \/ z.s.stage \in {"frame", "ended"}
  /\ z.s.mode \in {"control", "gdb"} =>
       /\ ~z.g.twice
       /\ z.s.stage = "stopped" => z.g.view \in {"stopped", "attached"}
       /\ z.s.stage = "go" => ToldRunning(z)
       /\ Moving(z.s) =>
            \/ ToldRunning(z)
            \/ /\ z.s.mode = "gdb" /\ z.s.stage = "run" /\ z.g.view = "attached"
               /\ z.d.active /\ ~z.s.resumed

Good(z) == z \in States /\ Sound(z) /\ StepIn(z) /\ AccessIn(z) /\ GoIn(z) /\ ViewIn(z)
DebugInv == Good(Now)

-----------------------------------------------------------------------------
(* The tables *)

\* The first of some numbers is the least of them.
LEMMA Least ==
  ASSUME NEW S, S \subseteq Nat, S # {}
  PROVE First(S) \in S /\ \A k \in S : First(S) <= k
<1> DEFINE R == OpToRel(<, Nat)
<1>1. IsWellFoundedOn(R, Nat)
  BY NatLessThanWellFounded
<1>2. \A x, y \in Nat : x < y => <<x, y>> \in R
  BY DEF OpToRel
<1> HIDE DEF R
<1>3. PICK x \in S : \A y \in S : ~(<<y, x>> \in R)
  BY <1>1, WFMin
<1>4. \A y \in S : x <= y
  <2> TAKE y \in S
  <2>1. ~(y < x)
    BY <1>2, <1>3
  <2> QED BY <2>1
<1> QED BY <1>4 DEF First

\* An entry is added at the end, or takes the place of its like.
LEMMA SlotIs ==
  ASSUME NEW d \in Debuggers, NEW a
  PROVE \/ BpSlot(d, a) = Len(d.bps) + 1
        \/ /\ BpSlot(d, a) \in DOMAIN d.bps
           /\ d.bps[BpSlot(d, a)].addr = a /\ d.bps[BpSlot(d, a)].cond = None
<1> DEFINE S == {i \in DOMAIN d.bps : d.bps[i].addr = a /\ d.bps[i].cond = None}
<1>1. BpSlot(d, a) = IF S = {} THEN Len(d.bps) + 1 ELSE First(S)
  BY DEF BpSlot, Indices
<1>2. S \subseteq Nat
  BY DEF Debuggers
<1> HIDE DEF S
<1>3. S # {} => First(S) \in S
  BY <1>2, Least
<1> QED BY <1>1, <1>3 DEF S

LEMMA Appended ==
  ASSUME NEW T, NEW s \in Seq(T), NEW x \in T
  PROVE /\ Append(s, x) \in Seq(T) /\ Has(Append(s, x), x)
        /\ \A y : Has(s, y) => Has(Append(s, x), y)
<1>1. Append(s, x) \in Seq(T) /\ Len(Append(s, x)) = Len(s) + 1
  OBVIOUS
<1>2. \A i \in 1 .. Len(s) : Append(s, x)[i] = s[i]
  OBVIOUS
<1>3. Append(s, x)[Len(s) + 1] = x
  OBVIOUS
<1>4. DOMAIN s = 1 .. Len(s) /\ DOMAIN Append(s, x) = 1 .. Len(s) + 1 /\ Len(s) \in Nat
  BY <1>1
<1> QED BY <1>1, <1>2, <1>3, <1>4 DEF Has

\* Removing an entry keeps the others.
LEMMA WithoutIs ==
  ASSUME NEW T, NEW s \in Seq(T), NEW i \in DOMAIN s
  PROVE /\ Without(s, i) \in Seq(T)
        /\ \A x : Has(s, x) /\ x # s[i] => Has(Without(s, i), x)
<1>1. i \in 1 .. Len(s) /\ Len(s) \in Nat
  OBVIOUS
<1>2. SubSeq(s, 1, i - 1) \in Seq(T) /\ Len(SubSeq(s, 1, i - 1)) = i - 1
      /\ \A j \in 1 .. i - 1 : SubSeq(s, 1, i - 1)[j] = s[j]
  BY <1>1, SubSeqProperties
<1>3. SubSeq(s, i + 1, Len(s)) \in Seq(T) /\ Len(SubSeq(s, i + 1, Len(s))) = Len(s) - i
      /\ \A j \in 1 .. Len(s) - i : SubSeq(s, i + 1, Len(s))[j] = s[i + j]
  BY <1>1, SubSeqProperties
<1> DEFINE w == Without(s, i)
<1>4. w \in Seq(T) /\ Len(w) = Len(s) - 1
      /\ \A j \in 1 .. Len(s) - 1 : w[j] = IF j <= i - 1 THEN s[j] ELSE s[j + 1]
  <2> DEFINE a == SubSeq(s, 1, i - 1)
             b == SubSeq(s, i + 1, Len(s))
  <2>1. w = a \o b
    BY DEF Without
  <2> HIDE DEF a, b, w
  <2>2. a \in Seq(T) /\ b \in Seq(T) /\ Len(a) = i - 1 /\ Len(b) = Len(s) - i
    BY <1>2, <1>3 DEF a, b
  <2>3. w \in Seq(T) /\ Len(w) = Len(a) + Len(b)
        /\ \A j \in 1 .. Len(a) + Len(b) : w[j] = IF j <= Len(a) THEN a[j] ELSE b[j - Len(a)]
    BY <2>1, <2>2, ConcatProperties
  <2>5. \A j \in 1 .. i - 1 : a[j] = s[j]
    BY <1>2 DEF a
  <2>6. \A j \in 1 .. Len(s) - i : b[j] = s[i + j]
    BY <1>3 DEF b
  <2>4. ASSUME NEW j \in 1 .. Len(s) - 1 PROVE w[j] = IF j <= i - 1 THEN s[j] ELSE s[j + 1]
    <3>1. CASE j <= i - 1
      <4>0. j \in 1 .. Len(a) + Len(b) /\ j <= Len(a) /\ j \in 1 .. i - 1
        BY <1>1, <2>2, <3>1
      <4>1. w[j] = a[j]
        BY <2>3, <4>0
      <4> QED BY <2>5, <3>1, <4>0, <4>1
    <3>2. CASE ~(j <= i - 1)
      <4>0. j \in 1 .. Len(a) + Len(b) /\ ~(j <= Len(a)) /\ Len(a) = i - 1
        BY <1>1, <2>2, <3>2
      <4>1. w[j] = b[j - (i - 1)]
        BY <2>3, <4>0
      <4>2. j - (i - 1) \in 1 .. Len(s) - i /\ i + (j - (i - 1)) = j + 1
        BY <1>1, <3>2
      <4> QED BY <2>6, <3>2, <4>1, <4>2
    <3> QED BY <3>1, <3>2
  <2> QED BY <1>1, <2>2, <2>3, <2>4
<1> HIDE DEF w
<1>5. ASSUME NEW k \in DOMAIN s, k # i PROVE Has(w, s[k])
  <2>1. CASE k < i
    <3>1. k \in DOMAIN w /\ w[k] = s[k]
      BY <1>1, <1>4, <1>5, <2>1
    <3> QED BY <3>1 DEF Has
  <2>2. CASE k > i
    <3>1. k - 1 \in DOMAIN w /\ w[k - 1] = s[k]
      BY <1>1, <1>4, <1>5, <2>2
    <3> QED BY <3>1 DEF Has
  <2> QED BY <1>1, <1>5, <2>1, <2>2
<1> QED BY <1>4, <1>5 DEF Has, w

\* A breakpoint that is added displaces no other.
LEMMA AddPoint ==
  ASSUME NEW d \in Debuggers, NEW a \in Addr, NEW c \in Nat
  PROVE \E b \in Seq(Points) :
          /\ debugger_add_breakpoint(d, a, c) = [d EXCEPT !.bps = b]
          /\ c = None => /\ \A x : Has(d.bps, x) => Has(b, x)
                         /\ Len(d.bps) < MaxPoints => Has(b, [addr |-> a, cond |-> c])
<1>0. d.bps \in Seq(Points) /\ d = [d EXCEPT !.bps = d.bps]
  BY DEF Debuggers
<1> DEFINE i == BpSlot(d, a)
           x == [addr |-> a, cond |-> c]
<1>1. x \in Points
  BY DEF Points
<1>2. i = Len(d.bps) + 1 \/ (i \in DOMAIN d.bps /\ d.bps[i].addr = a /\ d.bps[i].cond = None)
  BY SlotIs
<1>3. debugger_add_breakpoint(d, a, c) =
        IF Len(d.bps) >= MaxPoints THEN d
        ELSE [d EXCEPT !.bps = IF i > Len(d.bps) THEN Append(d.bps, x) ELSE [d.bps EXCEPT ![i] = x]]
  BY DEF debugger_add_breakpoint
<1> HIDE DEF i, x
<1>4. CASE Len(d.bps) >= MaxPoints
  <2>1. debugger_add_breakpoint(d, a, c) = [d EXCEPT !.bps = d.bps]
    BY <1>0, <1>3, <1>4
  <2>2. ~(Len(d.bps) < MaxPoints)
    BY <1>0, <1>4, DebuggerAssumption
  <2> QED BY <1>0, <2>1, <2>2
<1>5. CASE ~(Len(d.bps) >= MaxPoints) /\ i = Len(d.bps) + 1
  <2>1. debugger_add_breakpoint(d, a, c) = [d EXCEPT !.bps = Append(d.bps, x)]
    <3>1. i > Len(d.bps) /\ ~(Len(d.bps) >= MaxPoints)
      BY <1>0, <1>5
    <3> QED BY <1>3, <3>1
  <2>2. Append(d.bps, x) \in Seq(Points) /\ Has(Append(d.bps, x), x)
        /\ \A y : Has(d.bps, y) => Has(Append(d.bps, x), y)
    BY <1>0, <1>1, Appended
  <2> QED BY <2>1, <2>2 DEF x
<1>6. CASE ~(Len(d.bps) >= MaxPoints) /\ i \in DOMAIN d.bps
  <2> DEFINE b == [d.bps EXCEPT ![i] = x]
  <2>1. debugger_add_breakpoint(d, a, c) = [d EXCEPT !.bps = b]
    <3>1. ~(i > Len(d.bps))
      BY <1>0, <1>6
    <3> QED BY <1>3, <1>6, <3>1
  <2>2. b \in Seq(Points) /\ DOMAIN b = DOMAIN d.bps /\ b[i] = x /\ \A j \in DOMAIN b : j # i => b[j] = d.bps[j]
    BY <1>0, <1>1, <1>6
  <2>3. Has(b, x)
    BY <1>6, <2>2 DEF Has
  <2>4. c = None => d.bps[i] = x
    <3>1. d.bps[i] \in Points /\ d.bps[i].addr = a /\ d.bps[i].cond = None
      BY <1>0, <1>2, <1>6
    <3> QED BY <3>1 DEF Points, x
  <2> HIDE DEF b
  <2>5. c = None => \A y : Has(d.bps, y) => Has(b, y)
    BY <2>2, <2>4 DEF Has
  <2> QED BY <2>1, <2>2, <2>3, <2>5 DEF x
<1> QED BY <1>2, <1>4, <1>5, <1>6

\* A watchpoint that is added: the table has its kind and all it had.
LEMMA AddWatch ==
  ASSUME NEW d \in Debuggers, NEW k \in Modes
  PROVE \E w \in Seq(Watches) :
          /\ debugger_add_watchpoint(d, k) = [d EXCEPT !.wps = w]
          /\ \A j : Watched(d.wps, j) => Watched(w, j)
          /\ Len(d.wps) < MaxPoints => Watched(w, k)
<1>0. d.wps \in Seq(Watches) /\ d = [d EXCEPT !.wps = d.wps]
  BY DEF Debuggers
<1> DEFINE x == [mode |-> k, last |-> None]
           same == {i \in DOMAIN d.wps : d.wps[i].mode = k}
<1>1. debugger_add_watchpoint(d, k) =
        IF Len(d.wps) >= MaxPoints \/ same # {} THEN d ELSE [d EXCEPT !.wps = Append(d.wps, x)]
  BY DEF debugger_add_watchpoint, Indices
<1>2. x \in Watches /\ x.mode = k
  BY DEF Watches, None
<1>3. same # {} <=> Watched(d.wps, k)
  BY DEF Watched
<1> HIDE DEF x, same
<1>4. CASE Len(d.wps) >= MaxPoints \/ same # {}
  <2>1. MaxPoints \in Nat
    BY DebuggerAssumption
  <2> QED BY <1>0, <1>1, <1>3, <1>4, <2>1
<1>5. CASE ~(Len(d.wps) >= MaxPoints \/ same # {})
  <2>1. Append(d.wps, x) \in Seq(Watches) /\ Has(Append(d.wps, x), x)
        /\ \A y : Has(d.wps, y) => Has(Append(d.wps, x), y)
    BY <1>0, <1>2, Appended
  <2>2. \A s, j : Watched(s, j) <=> \E y : Has(s, y) /\ y.mode = j
    BY DEF Watched, Has
  <2> QED BY <1>1, <1>2, <1>5, <2>1, <2>2
<1> QED BY <1>4, <1>5

\* gdb's removals: the first breakpoint at the address, the first watchpoint.
LEMMA RemovePoint ==
  ASSUME NEW s \in Seq(Points), NEW a
  PROVE /\ RemoveFirst(s, LAMBDA b : b.addr = a) \in Seq(Points)
        /\ \A x : Has(s, x) /\ x.addr # a => Has(RemoveFirst(s, LAMBDA b : b.addr = a), x)
<1> DEFINE S == {i \in DOMAIN s : s[i].addr = a}
<1>1. RemoveFirst(s, LAMBDA b : b.addr = a) = IF S = {} THEN s ELSE Without(s, First(S))
  BY DEF RemoveFirst, Indices
<1>2. S \subseteq Nat
  OBVIOUS
<1>3. S # {} => First(S) \in S
  BY <1>2, Least
<1>4. S # {} => First(S) \in DOMAIN s /\ s[First(S)].addr = a
  BY <1>3
<1> HIDE DEF S
<1>5. CASE S # {}
  <2>1. /\ Without(s, First(S)) \in Seq(Points)
        /\ \A x : Has(s, x) /\ x # s[First(S)] => Has(Without(s, First(S)), x)
    BY <1>4, <1>5, WithoutIs
  <2> QED BY <1>1, <1>4, <1>5, <2>1
<1>6. CASE S = {}
  BY <1>1, <1>6
<1> QED BY <1>5, <1>6

LEMMA RemoveWatch ==
  ASSUME NEW s \in Seq(Watches)
  PROVE RemoveFirst(s, LAMBDA w : TRUE) \in Seq(Watches)
<1> DEFINE S == {i \in DOMAIN s : TRUE}
<1>1. RemoveFirst(s, LAMBDA w : TRUE) = IF S = {} THEN s ELSE Without(s, First(S))
  BY DEF RemoveFirst, Indices
<1>2. S \subseteq Nat /\ S \subseteq DOMAIN s
  <2>1. S \subseteq DOMAIN s
    OBVIOUS
  <2>2. DOMAIN s \subseteq Nat
    OBVIOUS
  <2> QED BY <2>1, <2>2
<1>3. S # {} => First(S) \in DOMAIN s
  BY <1>2, Least
<1> HIDE DEF S
<1> QED BY <1>1, <1>3, WithoutIs

\* The memory callback keeps the kinds of the watchpoints, and fires on an
\* access that one of them or the access map is about.
Fires(d, k) == TracedIn(d) /\ (k \in d.rw \/ \E j \in Modes : Watched(d.wps, j) /\ HitBy(k, j))
Accesses == {"r", "w"}
LEMMA Callback ==
  ASSUME NEW d \in Debuggers, NEW k \in Accesses, NEW v \in Nat
  PROVE \E w \in Seq(Watches), t \in BOOLEAN :
          /\ watchpoint_trace_callback(d, k, v) = [d EXCEPT !.wps = w, !.trig = t]
          /\ (w = <<>>) <=> (d.wps = <<>>)
          /\ \A j : Watched(d.wps, j) <=> Watched(w, j)
          /\ Fires(d, k) => t
<1> DEFINE hits == {i \in DOMAIN d.wps : WpHit(d.wps[i], k, v)}
           stop == IF hits = {} THEN Len(d.wps) ELSE First(hits)
           seenBy == [i \in DOMAIN d.wps |->
                       IF k = "w" /\ d.wps[i].mode = "change" /\ i <= stop
                       THEN [d.wps[i] EXCEPT !.last = v] ELSE d.wps[i]]
<1>1. watchpoint_trace_callback(d, k, v) =
        IF ~d.traced THEN d
        ELSE IF k \in d.rw THEN [d EXCEPT !.trig = TRUE]
        ELSE [d EXCEPT !.wps = seenBy, !.trig = d.trig \/ hits # {}]
  BY DEF watchpoint_trace_callback, Indices
<1>2. d.wps \in Seq(Watches) /\ d.trig \in BOOLEAN /\ d.traced \in BOOLEAN
      /\ d = [d EXCEPT !.wps = d.wps, !.trig = d.trig]
  BY DEF Debuggers
<1>3. ASSUME NEW i \in DOMAIN d.wps
      PROVE seenBy[i] \in Watches /\ seenBy[i].mode = d.wps[i].mode
  <2>1. d.wps[i] \in Watches
    BY <1>2
  <2>2. [d.wps[i] EXCEPT !.last = v] \in Watches /\ [d.wps[i] EXCEPT !.last = v].mode = d.wps[i].mode
    BY <2>1 DEF Watches
  <2> HIDE DEF stop
  <2> QED BY <2>1, <2>2
<1>4. ASSUME NEW i \in DOMAIN d.wps, HitBy(k, d.wps[i].mode) PROVE i \in hits
  BY <1>4 DEF WpHit, HitBy, Accesses
<1>5. seenBy \in Seq(Watches) /\ DOMAIN seenBy = DOMAIN d.wps /\ Len(seenBy) = Len(d.wps)
  <2>1. d.wps \in Seq(Watches) /\ DOMAIN d.wps = 1 .. Len(d.wps) /\ Len(d.wps) \in Nat
    BY <1>2
  <2>2. DOMAIN seenBy = DOMAIN d.wps
    OBVIOUS
  <2>3. seenBy \in [1 .. Len(d.wps) -> Watches]
    <3>1. seenBy = [i \in DOMAIN d.wps |-> seenBy[i]]
      OBVIOUS
    <3> HIDE DEF seenBy
    <3> QED BY <1>3, <2>1, <3>1
  <2> HIDE DEF seenBy
  <2> QED BY <2>1, <2>2, <2>3
<1>6. \A j : Watched(d.wps, j) <=> Watched(seenBy, j)
  <2> HIDE DEF seenBy, hits
  <2> QED BY <1>3, <1>5 DEF Watched
<1>7. seenBy = <<>> <=> d.wps = <<>>
  <2>1. \A s \in Seq(Watches) : s = <<>> <=> Len(s) = 0
    BY EmptySeq
  <2> HIDE DEF seenBy, hits
  <2> QED BY <1>2, <1>5, <2>1
<1>8. (\E j \in Modes : Watched(d.wps, j) /\ HitBy(k, j)) => hits # {} /\ d.wps # <<>>
  <2> SUFFICES ASSUME NEW j \in Modes, Watched(d.wps, j), HitBy(k, j) PROVE hits # {} /\ d.wps # <<>>
    OBVIOUS
  <2>1. PICK i \in DOMAIN d.wps : d.wps[i].mode = j
    BY DEF Watched
  <2>2. i \in hits
    BY <1>4, <2>1
  <2> HIDE DEF hits
  <2>3. Len(d.wps) # 0
    BY <1>2, <2>1
  <2> QED BY <2>2, <2>3
<1> HIDE DEF seenBy, hits, stop
<1>9. CASE ~d.traced
  <2>1. TracedIn(d) => ~(k \in d.rw) /\ d.wps = <<>>
    BY <1>9 DEF TracedIn
  <2>2. ~Fires(d, k)
    BY <1>8, <2>1 DEF Fires
  <2> QED BY <1>1, <1>2, <1>9, <2>2
<1>10. CASE d.traced /\ k \in d.rw
  <2>1. watchpoint_trace_callback(d, k, v) = [d EXCEPT !.wps = d.wps, !.trig = TRUE]
    BY <1>1, <1>2, <1>10
  <2> QED BY <1>2, <2>1
<1>11. CASE d.traced /\ ~(k \in d.rw)
  <2>1. PICK t \in BOOLEAN : t = (d.trig \/ hits # {})
    OBVIOUS
  <2>2. watchpoint_trace_callback(d, k, v) = [d EXCEPT !.wps = seenBy, !.trig = t]
    BY <1>1, <1>11, <2>1
  <2>3. (k \in d.rw \/ \E j \in Modes : Watched(d.wps, j) /\ HitBy(k, j)) => t
    BY <1>8, <1>11, <2>1
  <2>4. Fires(d, k) => t
    BY <2>3 DEF Fires
  <2> QED BY <1>5, <1>6, <1>7, <2>2, <2>4
<1> QED BY <1>2, <1>9, <1>10, <1>11

\* A check that finds no reason: none was there; and it changes no table.
Unmoved(e, d) ==
  /\ e.bps = d.bps /\ e.wps = d.wps /\ e.rw = d.rw /\ e.exec = d.exec /\ e.traced = d.traced
  /\ e.ring = d.ring /\ e.head = d.head /\ e.count = d.count
LEMMA ShouldBreak ==
  ASSUME NEW d \in Debuggers, NEW m \in Machines
  PROVE /\ debugger_should_break(d, m) \in Debuggers
        /\ Unmoved(debugger_should_break(d, m), d)
        /\ debugger_should_break(d, m).reason = "" =>
             /\ ~d.step /\ ~debugger_check_pc(d, m) /\ m.pc \notin d.exec /\ ~d.trig
             /\ debugger_should_break(d, m).step = d.step
             /\ debugger_should_break(d, m).active = d.active
<1> DEFINE r == debugger_should_break(d, m)
           at == debugger_check_pc(d, m) \/ m.pc \in d.exec
           fires == RasterFires(d, m.line)
           all == FreeSlots(d) = 1 .. Slots
<1>1. r = CASE d.step -> [d EXCEPT !.reason = "step"]
            [] ~d.step /\ d.temp = m.pc -> [[d EXCEPT !.temp = None] EXCEPT !.reason = "temp"]
            [] ~d.step /\ d.temp # m.pc /\ at -> [d EXCEPT !.reason = "break"]
            [] OTHER -> IF d.trig THEN [[d EXCEPT !.trig = FALSE] EXCEPT !.reason = "watch"]
                        ELSE [(IF all THEN d ELSE [d EXCEPT !.last = m.line])
                                EXCEPT !.reason = IF fires THEN "raster" ELSE ""]
  BY DEF debugger_should_break, Because
<1>2. m.line \in Nat
  BY DebuggerAssumption DEF Machines
<1> SUFFICES /\ r \in Debuggers /\ Unmoved(r, d)
             /\ r.reason = "" => ~d.step /\ ~at /\ ~d.trig /\ r.step = d.step /\ r.active = d.active
  OBVIOUS
<1> HIDE DEF r, at, fires, all
<1>3. CASE d.step
  <2>1. r = [d EXCEPT !.reason = "step"]
    BY <1>1, <1>3
  <2> QED BY <2>1 DEF Debuggers, Unmoved, Reasons
<1>4. CASE ~d.step /\ d.temp = m.pc
  <2>1. r = [[d EXCEPT !.temp = None] EXCEPT !.reason = "temp"]
    BY <1>1, <1>4
  <2> QED BY <2>1 DEF Debuggers, Unmoved, Reasons
<1>5. CASE ~d.step /\ d.temp # m.pc /\ at
  <2>1. r = [d EXCEPT !.reason = "break"]
    BY <1>1, <1>5
  <2> QED BY <2>1 DEF Debuggers, Unmoved, Reasons
<1>6. CASE ~d.step /\ d.temp # m.pc /\ ~at /\ d.trig
  <2>1. r = [[d EXCEPT !.trig = FALSE] EXCEPT !.reason = "watch"]
    BY <1>1, <1>6
  <2> QED BY <2>1 DEF Debuggers, Unmoved, Reasons
<1>7. CASE ~d.step /\ d.temp # m.pc /\ ~at /\ ~d.trig
  <2>1. PICK x \in {"", "raster"} : x = IF fires THEN "raster" ELSE ""
    OBVIOUS
  <2>2. r = [(IF all THEN d ELSE [d EXCEPT !.last = m.line]) EXCEPT !.reason = x]
    BY <1>1, <1>7, <2>1
  <2>3. PICK l \in Nat : r = [d EXCEPT !.last = l, !.reason = x]
    <3>1. CASE all
      <4>1. r = [d EXCEPT !.last = d.last, !.reason = x] /\ d.last \in Nat
        BY <2>2, <3>1 DEF Debuggers
      <4> QED BY <4>1
    <3>2. CASE ~all
      <4>1. r = [d EXCEPT !.last = m.line, !.reason = x]
        BY <2>2, <3>2
      <4> QED BY <1>2, <4>1
    <3> QED BY <3>1, <3>2
  <2> QED BY <1>7, <2>3 DEF Debuggers, Unmoved, Reasons
<1> QED BY <1>3, <1>4, <1>5, <1>6, <1>7

-----------------------------------------------------------------------------
(* The rings *)

\* A store into a sequence of two, the tail of three, all but the last.
LEMMA StoreInPair ==
  ASSUME NEW s \in Seq(Nat), Len(s) = 2, NEW i \in {1, 2}, NEW a \in Nat,
         NEW r, r = [s EXCEPT ![i] = a]
  PROVE  r \in Seq(Nat) /\ Len(r) = 2 /\ \A j \in {1, 2} : r[j] = IF j = i THEN a ELSE s[j]
<1>1. s \in [1 .. 2 -> Nat]
  BY LenProperties
<1>2. r \in [1 .. 2 -> Nat] /\ \A j \in {1, 2} : r[j] = IF j = i THEN a ELSE s[j]
  BY <1>1
<1>3. PICK n \in Nat : n = 2
  OBVIOUS
<1>4. r \in [1 .. n -> Nat]
  BY <1>2, <1>3
<1>5. r \in Seq(Nat)
  BY <1>4
<1>6. Len(r) = 2
  BY <1>2, <1>5, LenProperties
<1> QED BY <1>2, <1>5, <1>6

LEMMA TailOfThree ==
  ASSUME NEW T, NEW w \in Seq(T), Len(w) = 3, NEW v, v = Tail(w)
  PROVE  Len(v) = 2 /\ v[1] = w[2] /\ v[2] = w[3]
<1>1. w # <<>>
  BY EmptySeq
<1>2. Len(Tail(w)) = Len(w) - 1 /\ \A i \in 1 .. Len(Tail(w)) : Tail(w)[i] = w[i + 1]
  BY <1>1, HeadTailProperties
<1>3. Len(Tail(w)) = 2
  BY <1>2
<1>4. \A i \in 1 .. Len(v) : v[i] = w[i + 1]
  BY <1>2
<1>5. Len(v) = 2
  BY <1>3
<1>6. 1 \in 1 .. Len(v) /\ 2 \in 1 .. Len(v)
  BY <1>5
<1>7. v[1] = w[1 + 1] /\ v[2] = w[2 + 1]
  BY <1>4, <1>6
<1> QED BY <1>5, <1>7

LEMMA FrontOf ==
  ASSUME NEW T, NEW u \in Seq(T), NEW n \in Nat \ {0}, n = Len(u), NEW v, v = SubSeq(u, 1, n - 1)
  PROVE  v \in Seq(T) /\ Len(v) = n - 1 /\ \A i \in 1 .. n - 1 : v[i] = u[i]
<1>1. \A i \in 1 .. n - 1 : u[i] \in T
  OBVIOUS
<1>2. /\ SubSeq(u, 1, n - 1) \in Seq(T)
      /\ Len(SubSeq(u, 1, n - 1)) = IF 1 <= n - 1 THEN n - 1 - 1 + 1 ELSE 0
      /\ \A i \in 1 .. n - 1 - 1 + 1 : SubSeq(u, 1, n - 1)[i] = u[1 + i - 1]
  BY <1>1, SubSeqProperties
<1>3. Len(v) = n - 1
  BY <1>2
<1>4. ASSUME NEW i \in 1 .. n - 1 PROVE v[i] = u[i]
  <2>1. i \in 1 .. n - 1 - 1 + 1 /\ 1 + i - 1 = i
    OBVIOUS
  <2> QED BY <1>2, <2>1
<1> QED BY <1>2, <1>3, <1>4
\* The addresses are numbers, and 0 is none of them.
LEMMA AddrIs == Addr = 1 .. Len(Code) /\ Len(Code) \in Nat \ {0} /\ None \notin Addr
<1> DEFINE T == [op : {"jmp", "jsr", "rts", "store", "load", "jam"}, arg : Nat, lines : Nat]
<1>1. Code \in Seq(T) /\ Code # <<>>
  BY DebuggerAssumption
<1> HIDE DEF T
<1> QED BY <1>1, EmptySeq DEF Addr, None

\* A remainder, at most one lap on.
LEMMA OneLap ==
  ASSUME NEW N \in Nat \ {0}, NEW x \in 0 .. 2 * N - 1
  PROVE x % N = IF x < N THEN x ELSE x - N
<1>1. PICK r : r = x % N
  OBVIOUS
<1>2. PICK p : p = x \div N
  OBVIOUS
<1>3. r \in 0 .. N - 1 /\ p \in Int /\ x = N * p + r
  BY <1>1, <1>2
<1>4. CASE p = 0
  BY <1>1, <1>3, <1>4
<1>5. CASE p = 1
  BY <1>1, <1>3, <1>5
<1>6. CASE p < 0
  <2>1. N * p <= -N
    BY <1>3, <1>6
  <2> QED BY <1>3, <2>1
<1>7. CASE p > 1
  <2>1. N * p >= 2 * N
    BY <1>3, <1>7
  <2> QED BY <1>3, <2>1
<1> QED BY <1>3, <1>4, <1>5, <1>6, <1>7

\* The slot k before the head, and the one after it.
LEMMA SlotBefore ==
  ASSUME NEW h \in 0 .. Depth - 1, NEW k \in 1 .. Depth
  PROVE Back(h, k) = IF k <= h THEN h - k ELSE h + Depth - k
<1>1. PICK x : x = h + Depth - k
  OBVIOUS
<1>2. x \in 0 .. 2 * Depth - 1 /\ (x < Depth <=> k > h) /\ x - Depth = h - k
  BY <1>1, DebuggerAssumption
<1>3. x % Depth = IF x < Depth THEN x ELSE x - Depth
  BY <1>2, DebuggerAssumption, OneLap
<1> QED BY <1>1, <1>2, <1>3, DebuggerAssumption DEF Back
LEMMA SlotNext ==
  ASSUME NEW h \in 0 .. Depth - 1, NEW g \in 0 .. Depth - 1, NEW k \in 1 .. Depth - 1,
         g = IF h = Depth - 1 THEN 0 ELSE h + 1
  PROVE Back(g, k + 1) = Back(h, k) /\ Back(h, k) # h /\ Back(h, k) \in 0 .. Depth - 1
<1>1. Back(h, k) = IF k <= h THEN h - k ELSE h + Depth - k
  BY SlotBefore, DebuggerAssumption
<1>2. k + 1 \in 1 .. Depth
  BY DebuggerAssumption
<1>3. Back(g, k + 1) = IF k + 1 <= g THEN g - (k + 1) ELSE g + Depth - (k + 1)
  BY <1>2, SlotBefore
<1> QED BY <1>1, <1>3, DebuggerAssumption
LEMMA SlotAfter ==
  ASSUME NEW h \in 0 .. Depth - 1
  PROVE (h + 1) % Depth = IF h = Depth - 1 THEN 0 ELSE h + 1
<1>1. h + 1 \in 0 .. 2 * Depth - 1 /\ Depth \in Nat \ {0} /\ h \in Nat
  BY DebuggerAssumption
<1>2. PICK x \in 0 .. 2 * Depth - 1 : x = h + 1
  BY <1>1
<1>3. x % Depth = IF x < Depth THEN x ELSE x - Depth
  BY <1>1, OneLap
<1> QED BY <1>1, <1>2, <1>3

\* A snapshot that is pushed is the newest, and the oldest one goes.
Snapped(d, x) ==
  [d EXCEPT !.ring[d.head] = x, !.head = (@ + 1) % Depth, !.count = IF @ < Depth THEN @ + 1 ELSE @]
Kept(u, x) == IF Len(Append(u, x)) > Depth THEN Tail(Append(u, x)) ELSE Append(u, x)
LEMMA Push ==
  ASSUME NEW d \in Debuggers, NEW u \in Seq(Snapshots), RingIn(d, u), NEW x \in Snapshots,
         NEW e, e = Snapped(d, x), NEW v, v = Kept(u, x)
  PROVE e \in Debuggers /\ v \in Seq(Snapshots) /\ RingIn(e, v)
<1> DEFINE n == Len(u)
           c == IF n < Depth THEN n + 1 ELSE n
<1>0. Depth \in Nat \ {0} /\ d.head \in 0 .. Depth - 1 /\ d.count = n /\ n \in 0 .. Depth
      /\ d.ring \in [0 .. Depth - 1 -> Snapshots \cup {Blank}]
  BY DebuggerAssumption DEF Debuggers, RingIn
<1>1. v \in Seq(Snapshots) /\ Len(v) = c /\ v[c] = x
      /\ \A j \in 1 .. c - 1 : v[j] = IF n < Depth THEN u[j] ELSE u[j + 1]
  <2> DEFINE w == Append(u, x)
  <2>1. w \in Seq(Snapshots) /\ Len(w) = n + 1 /\ w[n + 1] = x /\ \A j \in 1 .. n : w[j] = u[j]
    OBVIOUS
  <2>2. v = IF Len(w) > Depth THEN Tail(w) ELSE w
    BY DEF Kept
  <2> HIDE DEF w
  <2>3. CASE n < Depth
    BY <1>0, <2>1, <2>2, <2>3
  <2>4. CASE n = Depth
    <3>1. v = Tail(w)
      BY <1>0, <2>1, <2>2, <2>4
    <3>2. v \in Seq(Snapshots) /\ Len(v) = n /\ \A j \in 1 .. n : v[j] = w[j + 1]
      BY <1>0, <2>1, <3>1
    <3> QED BY <1>0, <2>1, <2>4, <3>2
  <2> QED BY <1>0, <2>3, <2>4
<1>2. PICK r : r = [d.ring EXCEPT ![d.head] = x]
  OBVIOUS
<1>3. PICK h \in 0 .. Depth - 1 : h = (d.head + 1) % Depth
  BY <1>0
<1>4. e = [d EXCEPT !.ring = r, !.head = h, !.count = c]
  BY <1>0, <1>2, <1>3 DEF Snapped
<1>5. r \in [0 .. Depth - 1 -> Snapshots \cup {Blank}] /\ r[d.head] = x
      /\ \A j \in 0 .. Depth - 1 : j # d.head => r[j] = d.ring[j]
  BY <1>0, <1>2
<1>6. c \in 0 .. Depth
  BY <1>0
<1>7. e \in Debuggers /\ e.ring = r /\ e.head = h /\ e.count = c
  BY <1>4, <1>5, <1>6 DEF Debuggers
<1>8. ASSUME NEW k \in 1 .. c PROVE r[Back(h, k)] = v[c - k + 1]
  <2>1. k \in 1 .. Depth
    BY <1>6, <1>0
  <2>2. CASE k = 1
    <3>1. Back(h, k) = d.head
      <4>1. h = IF d.head = Depth - 1 THEN 0 ELSE d.head + 1
        BY <1>0, <1>3, SlotAfter
      <4>2. Back(h, k) = IF k <= h THEN h - k ELSE h + Depth - k
        BY <2>1, SlotBefore
      <4> QED BY <1>0, <2>2, <4>1, <4>2
    <3> QED BY <1>0, <1>1, <1>5, <1>6, <2>2, <3>1
  <2>3. CASE k > 1
    <3>0. k - 1 \in 1 .. Depth - 1 /\ k - 1 \in 1 .. n /\ k - 1 + 1 = k
      BY <1>0, <2>1, <2>3
    <3>1. Back(h, k) = Back(d.head, k - 1)
      <4>1. h = IF d.head = Depth - 1 THEN 0 ELSE d.head + 1
        BY <1>0, <1>3, SlotAfter
      <4>2. PICK j \in 1 .. Depth - 1 : j = k - 1 /\ j + 1 = k
        BY <3>0
      <4>3. Back(h, j + 1) = Back(d.head, j)
        BY <1>0, <4>1, SlotNext
      <4> QED BY <4>2, <4>3
    <3> DEFINE s == Back(d.head, k - 1)
    <3>2. s \in 0 .. Depth - 1 /\ s # d.head
      <4>1. PICK j \in 1 .. Depth - 1 : j = k - 1
        BY <3>0
      <4>2. h = IF d.head = Depth - 1 THEN 0 ELSE d.head + 1
        BY <1>0, <1>3, SlotAfter
      <4>3. Back(d.head, j) # d.head /\ Back(d.head, j) \in 0 .. Depth - 1
        BY <1>0, <4>2, SlotNext
      <4> QED BY <4>1, <4>3
    <3>4. d.ring[s] = u[n - (k - 1) + 1]
      BY <1>0, <3>0 DEF RingIn
    <3>5. v[c - k + 1] = u[n - (k - 1) + 1]
      <4>1. c - k + 1 \in 1 .. c - 1
        BY <1>0, <2>3
      <4>2. v[c - k + 1] = IF n < Depth THEN u[c - k + 1] ELSE u[c - k + 1 + 1]
        BY <1>1, <4>1
      <4>3. c - k + 1 = IF n < Depth THEN n - (k - 1) + 1 ELSE n - (k - 1)
        BY <1>0, <2>1
      <4> HIDE DEF c
      <4> QED BY <1>0, <2>1, <4>2, <4>3
    <3> HIDE DEF s
    <3>6. r[s] = d.ring[s]
      BY <1>5, <3>2
    <3> QED BY <3>1, <3>4, <3>5, <3>6 DEF s
  <2> QED BY <1>0, <1>6, <2>2, <2>3
<1> HIDE DEF c
<1> QED BY <1>1, <1>7, <1>8 DEF RingIn

\* An undo takes the newest one.
Undone(d) == [d EXCEPT !.head = UndoSlot(d), !.count = @ - 1, !.last = None]
LEMMA Pop ==
  ASSUME NEW d \in Debuggers, NEW u \in Seq(Snapshots), RingIn(d, u), d.count > 0,
         NEW e, e = Undone(d), NEW v, v = SubSeq(u, 1, Len(u) - 1)
  PROVE /\ e \in Debuggers /\ v \in Seq(Snapshots) /\ RingIn(e, v)
        /\ d.ring[UndoSlot(d)] = u[Len(u)] /\ u[Len(u)] \in Snapshots
<1> DEFINE n == Len(u)
<1>0. Depth \in Nat \ {0} /\ d.head \in 0 .. Depth - 1 /\ d.count = n /\ n \in 1 .. Depth
  BY DebuggerAssumption DEF Debuggers, RingIn
<1>1. PICK h \in 0 .. Depth - 1 : h = UndoSlot(d)
  BY <1>0, SlotBefore DEF UndoSlot, Back
<1>2. e \in Debuggers /\ e.ring = d.ring /\ e.head = h /\ e.count = n - 1
  <2>1. e = [d EXCEPT !.head = h, !.count = n - 1, !.last = None]
    BY <1>0, <1>1 DEF Undone
  <2>2. n - 1 \in 0 .. Depth /\ None \in Nat
    BY <1>0 DEF None
  <2> QED BY <2>1, <2>2 DEF Debuggers
<1>3. v \in Seq(Snapshots) /\ Len(v) = n - 1 /\ \A j \in 1 .. n - 1 : v[j] = u[j]
  <2>1. PICK c \in Nat \ {0} : c = Len(u)
    BY <1>0
  <2>2. v \in Seq(Snapshots) /\ Len(v) = c - 1 /\ \A j \in 1 .. c - 1 : v[j] = u[j]
    BY <2>1, FrontOf
  <2> QED BY <2>1, <2>2
<1>4. ASSUME NEW k \in 1 .. n - 1 PROVE d.ring[Back(h, k)] = v[n - 1 - k + 1]
  <2>1. h = IF d.head = 0 THEN Depth - 1 ELSE d.head - 1
    <3>1. 1 \in 1 .. Depth /\ UndoSlot(d) = Back(d.head, 1)
      BY <1>0 DEF UndoSlot, Back
    <3>2. Back(d.head, 1) = IF 1 <= d.head THEN d.head - 1 ELSE d.head + Depth - 1
      BY <1>0, <3>1, SlotBefore
    <3> QED BY <1>0, <1>1, <3>1, <3>2
  <2>0. k \in 1 .. Depth - 1 /\ d.head = IF h = Depth - 1 THEN 0 ELSE h + 1
    BY <1>0, <2>1
  <2>4. Back(h, k) = Back(d.head, k + 1)
    BY <1>0, <2>0, SlotNext
  <2>5. k + 1 \in 1 .. n /\ n - 1 - k + 1 \in 1 .. n - 1 /\ n - (k + 1) + 1 = n - 1 - k + 1
    BY <1>0
  <2>6. d.ring[Back(d.head, k + 1)] = u[n - (k + 1) + 1]
    BY <1>0, <2>5 DEF RingIn
  <2> QED BY <1>3, <2>4, <2>5, <2>6
<1>5. d.ring[UndoSlot(d)] = u[n] /\ u[n] \in Snapshots
  <2>1. 1 \in 1 .. n /\ n - 1 + 1 = n
    BY <1>0
  <2>2. d.ring[Back(d.head, 1)] = u[n - 1 + 1]
    BY <1>0, <2>1 DEF RingIn
  <2> QED BY <1>0, <2>1, <2>2 DEF UndoSlot, Back
<1> QED BY <1>2, <1>3, <1>4, <1>5 DEF RingIn

\* The trace.
LEMMA TraceReset ==
  /\ trace_reset \in Traces /\ LogIn(trace_reset, <<>>)
  /\ \A f \in Nat : trace_arm(f, "r", 2) \in Traces /\ LogIn(trace_arm(f, "r", 2), <<>>)
<1>1. trace_reset \in Traces /\ LogIn(trace_reset, <<>>)
  BY DEF trace_reset, Traces, LogIn, None
<1>2. ASSUME NEW f \in Nat PROVE trace_arm(f, "r", 2) \in Traces /\ LogIn(trace_arm(f, "r", 2), <<>>)
  <2>1. PICK r : r = [i \in 1 .. 2 |-> None]
    OBVIOUS
  <2>2. r \in Seq(Nat) /\ Len(r) = 2
    BY <2>1 DEF None
  <2>3. PICK o \in BOOLEAN : o = (f = None)
    OBVIOUS
  <2>4. trace_arm(f, "r", 2)
          = [on |-> o, armed |-> TRUE, from |-> f, stop |-> "r", ring |-> r, head |-> 0, count |-> 0]
    BY <2>1, <2>3 DEF trace_arm
  <2>5. PICK t : t = trace_arm(f, "r", 2)
    OBVIOUS
  <2>8. t = [on |-> o, armed |-> TRUE, from |-> f, stop |-> "r", ring |-> r, head |-> 0, count |-> 0]
    BY <2>4, <2>5
  <2>6. t \in Traces
    BY <2>2, <2>8 DEF Traces
  <2>7. LogIn(t, <<>>)
    BY <2>2, <2>4, <2>5 DEF LogIn
  <2> QED BY <2>5, <2>6, <2>7
<1> QED BY <1>1, <1>2

LEMMA TraceNote ==
  ASSUME NEW t \in Traces, NEW l, LogIn(t, l), NEW k \in {"r", "w"}
  PROVE trace_note_mem_access(t, k) \in Traces /\ LogIn(trace_note_mem_access(t, k), l)
BY DEF trace_note_mem_access, trace_stop, Traces, LogIn

\* An instruction is logged at the head, and the oldest entry goes.
Logged(t, l, a) == IF TraceStarts(t, a) THEN Append(l, a) ELSE l
Capped(w) == IF Len(w) > 2 THEN Tail(w) ELSE w
LEMMA TraceLog ==
  ASSUME NEW t \in Traces, NEW l \in Seq(Addr), LogIn(t, l), NEW a \in Addr,
         NEW w, w = Logged(t, l, a), NEW v, v = Capped(w)
  PROVE /\ trace_log_instruction(t, a) \in Traces
        /\ LogIn(trace_log_instruction(t, a), v) /\ v \in Seq(Addr)
<1>9. /\ w = IF TraceStarts(t, a) THEN Append(l, a) ELSE l
      /\ v = IF Len(w) > 2 THEN Tail(w) ELSE w
  BY DEF Logged, Capped
<1> DEFINE u == trace_log_instruction(t, a)
<1>0. a \in Nat /\ \A b \in Addr : b \in Nat
  BY AddrIs
<1>1. CASE ~TraceStarts(t, a)
  <2>1. u = t /\ w = l
    BY <1>1, <1>9 DEF trace_log_instruction
  <2>2. ~(Len(l) > 2)
    <3>1. l = <<>> \/ Len(l) = 1 \/ Len(l) = 2
      BY DEF LogIn
    <3>2. Len(<<>>) = 0
      OBVIOUS
    <3>3. PICK n : n = Len(l)
      OBVIOUS
    <3>4. n = 0 \/ n = 1 \/ n = 2
      BY <3>1, <3>2, <3>3
    <3>5. ~(n > 2)
      BY <3>4
    <3> QED BY <3>3, <3>5
  <2>3. v = l
    BY <1>9, <2>1, <2>2
  <2> QED BY <2>1, <2>3
<1>2. CASE TraceStarts(t, a)
  <2>0. t.armed \/ t.on
    BY <1>2 DEF TraceStarts
  <2>1. Len(t.ring) = 2 /\ t.ring \in Seq(Nat)
    BY <2>0 DEF LogIn, Traces
  <2>2. u = [t EXCEPT !.on = TRUE, !.ring[t.head + 1] = a, !.head = (@ + 1) % 2,
                      !.count = IF @ < 2 THEN @ + 1 ELSE @]
    BY <1>2, <2>1 DEF trace_log_instruction
  <2>3. PICK r : r = [t.ring EXCEPT ![t.head + 1] = a]
    OBVIOUS
  <2>4. r \in Seq(Nat) /\ Len(r) = 2
        /\ \A i \in {1, 2} : r[i] = IF i = t.head + 1 THEN a ELSE t.ring[i]
    <3>1. t.head + 1 \in {1, 2}
      BY <2>1 DEF LogIn
    <3> QED BY <1>0, <2>1, <2>3, <3>1, StoreInPair
  <2>5. t.head \in {0, 1} /\ t.count \in {0, 1, 2}
    BY <2>1 DEF LogIn
  <2>6. PICK h \in {0, 1} : h = (t.head + 1) % 2 /\ h # t.head
    BY <2>5
  <2>7. PICK c \in {0, 1, 2} : c = IF t.count < 2 THEN t.count + 1 ELSE t.count
    BY <2>5
  <2>8. u = [t EXCEPT !.on = TRUE, !.ring = r, !.head = h, !.count = c]
    BY <2>2, <2>3, <2>6, <2>7
  <2>9. u \in Traces /\ u.ring = r /\ u.head = h /\ u.count = c
    <3>1. PICK y : y = [t EXCEPT !.on = TRUE, !.ring = r, !.head = h, !.count = c]
      OBVIOUS
    <3>2. r \in Seq(Nat) /\ h \in Nat /\ c \in Nat
      BY <2>4
    <3>3. y \in Traces /\ y.ring = r /\ y.head = h /\ y.count = c
      BY <3>1, <3>2 DEF Traces
    <3> QED BY <2>8, <3>1, <3>3
  <2>10. w = Append(l, a) /\ v = IF Len(w) > 2 THEN Tail(w) ELSE w
    BY <1>2, <1>9
  <2>11. v \in Seq(Addr)
    <3>1. w \in Seq(Addr)
      BY <2>10
    <3>2. CASE Len(w) > 2
      <4>1. w # <<>>
        BY <3>2, EmptySeq
      <4> QED BY <2>10, <3>1, <3>2, <4>1, HeadTailProperties
    <3> QED BY <2>10, <3>1, <3>2
  <2>12. Len(l) = t.count /\ Len(w) = t.count + 1 /\ w[t.count + 1] = a
         /\ \A i \in 1 .. t.count : w[i] = l[i]
    <3>1. Len(l) = t.count
      <4>1. Len(<<>>) = 0
        OBVIOUS
      <4> QED BY <2>1, <4>1 DEF LogIn
    <3>2. Len(w) = Len(l) + 1 /\ w[Len(l) + 1] = a /\ \A i \in 1 .. Len(l) : w[i] = l[i]
      BY <2>10
    <3> QED BY <3>1, <3>2
  <2>13. Len(v) = c /\ v[c] = a /\ (t.count = 1 => v[1] = l[1]) /\ (t.count = 2 => v[1] = l[2])
    <3>1. CASE t.count = 2
      <4>1. v = Tail(w) /\ Len(w) = 3
        BY <2>10, <2>12, <3>1
      <4>2. w \in Seq(Addr)
        BY <2>10
      <4>3. Len(v) = 2 /\ v[1] = w[2] /\ v[2] = w[3]
        BY <4>1, <4>2, TailOfThree
      <4>4. w[3] = a /\ w[2] = l[2]
        BY <2>10, <2>12, <3>1
      <4> QED BY <2>7, <3>1, <4>3, <4>4
    <3>2. CASE t.count \in {0, 1}
      BY <2>7, <2>10, <2>12, <3>2
    <3> QED BY <2>5, <3>1, <3>2
  <2>14. \/ c = 1 /\ h = 1 /\ Len(v) = 1 /\ v[1] = r[1]
         \/ c = 2 /\ h = 0 /\ Len(v) = 2 /\ v[1] = r[1] /\ v[2] = r[2]
         \/ c = 2 /\ h = 1 /\ Len(v) = 2 /\ v[1] = r[2] /\ v[2] = r[1]
    <3>1. CASE t.count = 0
      <4>1. t.head = 0
        BY <2>1, <3>1 DEF LogIn
      <4> QED BY <2>4, <2>6, <2>7, <2>13, <3>1, <4>1
    <3>2. CASE t.count = 1
      <4>1. t.head = 1 /\ l[1] = t.ring[1]
        BY <2>1, <3>2 DEF LogIn
      <4> QED BY <2>4, <2>6, <2>7, <2>13, <3>2, <4>1
    <3>3. CASE t.count = 2 /\ t.head = 0
      <4>1. l[1] = t.ring[1] /\ l[2] = t.ring[2]
        BY <2>1, <3>3 DEF LogIn
      <4> QED BY <2>4, <2>6, <2>7, <2>13, <3>3, <4>1
    <3>4. CASE t.count = 2 /\ t.head = 1
      <4>1. l[1] = t.ring[2] /\ l[2] = t.ring[1]
        BY <2>1, <3>4 DEF LogIn
      <4> QED BY <2>4, <2>6, <2>7, <2>13, <3>4, <4>1
    <3> QED BY <2>5, <3>1, <3>2, <3>3, <3>4
  <2> QED BY <2>4, <2>9, <2>11, <2>14 DEF LogIn
<1> QED BY <1>1, <1>2

-----------------------------------------------------------------------------
(* The commands of a stopped machine *)

LEMMA Became ==
  ASSUME NEW y, Good(y), Become(y)
  PROVE DebugInv'
<1>1. cpu' = y.m /\ dbg' = y.d /\ trace' = y.t /\ ses' = y.s /\ seen' = y.g
  BY DEF Become
<1>2. y = [m |-> y.m, d |-> y.d, t |-> y.t, s |-> y.s, g |-> y.g]
  BY DEF Good, States
<1>3. Now' = y
  BY <1>1, <1>2 DEF Now
<1>4. Good(Now')
  BY <1>3
<1> QED BY <1>4 DEF DebugInv

\* A debugger with other tables, which have what gdb asked for.
Keeps(e, d) ==
  /\ \A x : Has(d.bps, x) /\ x.cond = None => Has(e.bps, x)
  /\ \A k : Watched(d.wps, k) => Watched(e.wps, k)
Steady(e, d) ==
  /\ e.ring = d.ring /\ e.head = d.head /\ e.count = d.count
  /\ e.step = d.step /\ e.active = d.active
LEMMA EditSound ==
  ASSUME NEW z \in States, Sound(z), NEW e \in Debuggers, TracedIn(e), Steady(e, z.d),
         z.s.mode = "gdb" => Keeps(e, z.d),
         NEW y, y = [z EXCEPT !.d = e]
  PROVE y \in States /\ Sound(y) /\ y.m = z.m /\ y.d = e /\ y.t = z.t /\ y.s = z.s /\ y.g = z.g
<1>1. y \in States /\ y.m = z.m /\ y.d = e /\ y.t = z.t /\ y.s = z.s /\ y.g = z.g
  BY DEF States
<1>2. AskedIn(e, z.s, z.g)
  <2>0. AskedIn(z.d, z.s, z.g)
    BY DEF Sound
  <2>1. CASE z.s.mode # "gdb"
    BY <2>0, <2>1 DEF AskedIn, InTables
  <2>2. CASE z.s.mode = "gdb"
    <3>1. \A a \in Addr : [addr |-> a, cond |-> None].cond = None
      OBVIOUS
    <3> QED BY <2>0, <2>2, <3>1 DEF AskedIn, InTables, Keeps
  <2> QED BY <2>1, <2>2
<1>3. RingIn(e, z.g.undo)
  BY DEF Sound, RingIn, Steady
<1> QED BY <1>1, <1>2, <1>3 DEF Sound

\* The callback is installed after the change.
LEMMA InstallIs ==
  ASSUME NEW d \in Debuggers
  PROVE \E b \in BOOLEAN : /\ debugger_install_watchpoint_trace(d) = [d EXCEPT !.traced = b]
                           /\ TracedIn([d EXCEPT !.traced = b])
<1>1. PICK b \in BOOLEAN : b <=> (d.wps # <<>> \/ d.rw # {})
  OBVIOUS
<1>2. debugger_install_watchpoint_trace(d) = [d EXCEPT !.traced = (d.wps # <<>> \/ d.rw # {})]
  BY DEF debugger_install_watchpoint_trace
<1>3. b = (d.wps # <<>> \/ d.rw # {})
  BY <1>1
<1>4. PICK e : e = [d EXCEPT !.traced = b]
  OBVIOUS
<1>5. e.traced = b /\ e.wps = d.wps /\ e.rw = d.rw
  BY <1>4 DEF Debuggers
<1> QED BY <1>1, <1>2, <1>3, <1>4, <1>5 DEF TracedIn

\* A change of the watchpoints or of the access map.
LEMMA InstalledSound ==
  ASSUME NEW z \in States, Sound(z), NEW e \in Debuggers, Steady(e, z.d),
         z.s.mode = "gdb" => Keeps(e, z.d),
         NEW y, y = Installed(z, e)
  PROVE y \in States /\ Sound(y) /\ y.m = z.m /\ y.t = z.t /\ y.s = z.s /\ y.g = z.g
        /\ y.d.bps = e.bps /\ y.d.wps = e.wps /\ Steady(y.d, z.d)
<1>1. PICK b \in BOOLEAN : /\ debugger_install_watchpoint_trace(e) = [e EXCEPT !.traced = b]
                           /\ TracedIn([e EXCEPT !.traced = b])
  BY InstallIs
<1>2. PICK f : f = [e EXCEPT !.traced = b]
  OBVIOUS
<1>3. f \in Debuggers /\ f.bps = e.bps /\ f.wps = e.wps /\ Steady(f, e)
  BY <1>2 DEF Debuggers, Steady
<1>4. y = [z EXCEPT !.d = f]
  BY <1>1, <1>2 DEF Installed
<1>5. TracedIn(f) /\ Steady(f, z.d) /\ (z.s.mode = "gdb" => Keeps(f, z.d))
  BY <1>1, <1>2, <1>3 DEF Steady, Keeps
<1> QED BY <1>3, <1>4, <1>5, EditSound

\* What no command changes but one that resumes.
Calm(y, z) ==
  /\ y \in States /\ Sound(y)
  /\ y.d.step = z.d.step /\ y.d.active = z.d.active
  /\ y.s = z.s /\ y.g.view = z.g.view /\ y.g.twice = z.g.twice
  /\ y.g.ran = z.g.ran /\ y.g.stepped = z.g.stepped

LEMMA EditCalm ==
  ASSUME NEW z \in States, Sound(z), NEW e \in Debuggers, TracedIn(e), Steady(e, z.d),
         z.s.mode = "gdb" => Keeps(e, z.d)
  PROVE Calm([z EXCEPT !.d = e], z)
<1>1. PICK y : y = [z EXCEPT !.d = e]
  OBVIOUS
<1>2. y \in States /\ Sound(y) /\ y.m = z.m /\ y.d = e /\ y.t = z.t /\ y.s = z.s /\ y.g = z.g
  BY <1>1, EditSound
<1> QED BY <1>1, <1>2 DEF Calm, Steady

LEMMA InstalledCalm ==
  ASSUME NEW z \in States, Sound(z), NEW e \in Debuggers, Steady(e, z.d),
         z.s.mode = "gdb" => Keeps(e, z.d)
  PROVE Calm(Installed(z, e), z)
<1>1. PICK y : y = Installed(z, e)
  OBVIOUS
<1>2. y \in States /\ Sound(y) /\ y.m = z.m /\ y.t = z.t /\ y.s = z.s /\ y.g = z.g
      /\ Steady(y.d, z.d)
  BY <1>1, InstalledSound
<1> QED BY <1>1, <1>2 DEF Calm, Steady

LEMMA WriteSound ==
  ASSUME NEW z \in States, Sound(z), NEW v \in Nat
  PROVE Calm(memory_write(z, v), z)
<1>0. z.d \in Debuggers /\ z.t \in Traces /\ z.m \in Machines /\ LogIn(z.t, z.g.log) /\ TracedIn(z.d)
  BY DEF States, Sound
<1>1. PICK w \in Seq(Watches), t \in BOOLEAN :
        /\ watchpoint_trace_callback(z.d, "w", v) = [z.d EXCEPT !.wps = w, !.trig = t]
        /\ (w = <<>>) <=> (z.d.wps = <<>>)
        /\ \A j : Watched(z.d.wps, j) <=> Watched(w, j)
  BY <1>0, Callback DEF Accesses
<1>2. PICK u \in Traces : u = trace_note_mem_access(z.t, "w") /\ LogIn(u, z.g.log)
  BY <1>0, TraceNote
<1>3. PICK e : e = [z.d EXCEPT !.wps = w, !.trig = t]
  OBVIOUS
<1>4. e \in Debuggers /\ Steady(e, z.d) /\ e.bps = z.d.bps /\ e.wps = w /\ e.rw = z.d.rw /\ e.traced = z.d.traced
  BY <1>0, <1>3 DEF Debuggers, Steady
<1>5. TracedIn(e) /\ Keeps(e, z.d)
  BY <1>0, <1>1, <1>4 DEF TracedIn, Keeps
<1>6. PICK x : x = [z EXCEPT !.d = e]
  OBVIOUS
<1>7. x \in States /\ Sound(x) /\ x.m = z.m /\ x.d = e /\ x.t = z.t /\ x.s = z.s /\ x.g = z.g
  BY <1>4, <1>5, <1>6, EditSound
<1>8. PICK m : m = [z.m EXCEPT !.cell = v]
  OBVIOUS
<1>9. m \in Machines
  BY <1>0, <1>8 DEF Machines
<1>10. memory_write(z, v) = [x EXCEPT !.m = m, !.t = u]
  BY <1>1, <1>2, <1>3, <1>6, <1>8 DEF memory_write, States
<1>11. PICK y : y = [x EXCEPT !.m = m, !.t = u]
  OBVIOUS
<1>12. y \in States /\ y.d = e /\ y.t = u /\ y.s = z.s /\ y.g = z.g
  BY <1>7, <1>9, <1>11 DEF States
<1>13. Sound(y)
  BY <1>2, <1>7, <1>12 DEF Sound
<1> QED BY <1>4, <1>10, <1>11, <1>12, <1>13 DEF Calm, Steady

\* The arguments that a command may have.
Fits(c, x, d) ==
  \/ c \in {"break", "cond", "exec", "pc"} /\ x \in Addr
  \/ c = "unbreak" /\ x \in DOMAIN d.bps
  \/ c = "watch" /\ x \in Modes
  \/ c = "unwatch" /\ x \in DOMAIN d.wps
  \/ c = "region" /\ x = {"r", "w"}
  \/ c \in {"clear", "reset", "trace-off"}
  \/ c = "raster" /\ x \in Nat
  \/ c = "unraster"
  \/ c = "write" /\ x \in Nat
  \/ c = "trace" /\ x = <<2, "r">>

\* The commands that change the debugger's tables.
LEMMA TableEdit ==
  ASSUME NEW z \in States, Sound(z), NEW c, NEW x, Fits(c, x, z.d), z.s.mode # "gdb",
         c \in {"break", "cond", "unbreak", "watch", "unwatch", "region", "exec", "clear",
                "raster", "unraster"}
  PROVE Calm(control_edit(z, c, x), z)
<1>0. z.d \in Debuggers /\ TracedIn(z.d)
  BY DEF States, Sound
<1>1. CASE c \in {"break", "cond"}
  <2>1. PICK v \in Nat : v = IF c = "break" THEN None ELSE 2
    BY DEF None
  <2>2. x \in Addr
    BY <1>1 DEF Fits
  <2>3. PICK b \in Seq(Points) : debugger_add_breakpoint(z.d, x, v) = [z.d EXCEPT !.bps = b]
    BY <1>0, <2>2, AddPoint
  <2>4. control_edit(z, c, x) = [z EXCEPT !.d = debugger_add_breakpoint(z.d, x, v)]
    BY <1>1, <2>1 DEF control_edit
  <2>5. PICK e : e = [z.d EXCEPT !.bps = b]
    OBVIOUS
  <2>6. e \in Debuggers /\ Steady(e, z.d) /\ TracedIn(e)
    BY <1>0, <2>5 DEF Debuggers, Steady, TracedIn
  <2> QED BY <2>3, <2>4, <2>5, <2>6, EditCalm
<1>2. CASE c = "unbreak"
  <2>1. x \in DOMAIN z.d.bps
    BY <1>2 DEF Fits
  <2>2. PICK b \in Seq(Points) : b = Without(z.d.bps, x)
    <3>1. z.d.bps \in Seq(Points)
      BY <1>0 DEF Debuggers
    <3> QED BY <2>1, <3>1, WithoutIs
  <2>3. PICK e : e = [z.d EXCEPT !.bps = b]
    OBVIOUS
  <2>4. control_edit(z, c, x) = [z EXCEPT !.d = e]
    BY <1>2, <2>2, <2>3 DEF control_edit, debugger_remove_breakpoint
  <2>6. e \in Debuggers /\ Steady(e, z.d) /\ TracedIn(e)
    BY <1>0, <2>3 DEF Debuggers, Steady, TracedIn
  <2> QED BY <2>4, <2>6, EditCalm
<1>3. CASE c = "watch"
  <2>1. x \in Modes
    BY <1>3 DEF Fits
  <2>2. PICK w \in Seq(Watches) : debugger_add_watchpoint(z.d, x) = [z.d EXCEPT !.wps = w]
    BY <1>0, <2>1, AddWatch
  <2>3. PICK e : e = [z.d EXCEPT !.wps = w]
    OBVIOUS
  <2>4. control_edit(z, c, x) = Installed(z, e)
    BY <1>3, <2>2, <2>3 DEF control_edit
  <2>5. e \in Debuggers /\ Steady(e, z.d)
    BY <1>0, <2>3 DEF Debuggers, Steady
  <2> QED BY <2>4, <2>5, InstalledCalm
<1>4. CASE c = "unwatch"
  <2>1. x \in DOMAIN z.d.wps
    BY <1>4 DEF Fits
  <2>2. PICK w \in Seq(Watches) : w = Without(z.d.wps, x)
    <3>1. z.d.wps \in Seq(Watches)
      BY <1>0 DEF Debuggers
    <3> QED BY <2>1, <3>1, WithoutIs
  <2>3. PICK e : e = [z.d EXCEPT !.wps = w]
    OBVIOUS
  <2>4. control_edit(z, c, x) = Installed(z, e)
    BY <1>4, <2>2, <2>3 DEF control_edit, debugger_remove_watchpoint
  <2>5. e \in Debuggers /\ Steady(e, z.d)
    BY <1>0, <2>3 DEF Debuggers, Steady
  <2> QED BY <2>4, <2>5, InstalledCalm
<1>5. CASE c \in {"region", "exec", "clear"}
  <2>1. PICK r \in SUBSET {"r", "w"}, a \in SUBSET Addr :
          /\ c = "region" => r = z.d.rw \cup x /\ a = z.d.exec \cup {}
          /\ c = "exec" => r = z.d.rw \cup {} /\ a = z.d.exec \cup {x}
          /\ c = "clear" => r = {} /\ a = {}
    <3>1. z.d.rw \in SUBSET {"r", "w"} /\ z.d.exec \in SUBSET Addr
      BY <1>0 DEF Debuggers
    <3>2. CASE c = "region"
      BY <3>1, <3>2 DEF Fits
    <3>3. CASE c = "exec"
      BY <3>1, <3>3 DEF Fits
    <3>4. CASE c = "clear"
      BY <3>4
    <3> QED BY <1>5, <3>2, <3>3, <3>4
  <2>2. PICK e : e = [z.d EXCEPT !.rw = r, !.exec = a]
    OBVIOUS
  <2>3. control_edit(z, c, x) = Installed(z, e)
    <3>1. CASE c = "region"
      BY <2>1, <2>2, <3>1 DEF control_edit, debugger_amap_set
    <3>2. CASE c = "exec"
      BY <2>1, <2>2, <3>2 DEF control_edit, debugger_amap_set
    <3>3. CASE c = "clear"
      BY <2>1, <2>2, <3>3 DEF control_edit, debugger_amap_clear
    <3> QED BY <1>5, <3>1, <3>2, <3>3
  <2>4. e \in Debuggers /\ Steady(e, z.d)
    BY <1>0, <2>2 DEF Debuggers, Steady
  <2> QED BY <2>3, <2>4, InstalledCalm
<1>6. CASE c \in {"raster", "unraster"}
  <2>1. z.d.raster \in [1 .. Slots -> Nat]
    BY <1>0 DEF Debuggers
  <2>2. PICK r \in [1 .. Slots -> Nat] : control_edit(z, c, x) = [z EXCEPT !.d = [z.d EXCEPT !.raster = r]]
    <3>1. CASE c = "raster" /\ FreeSlots(z.d) = {}
      <4>1. control_edit(z, c, x) = [z EXCEPT !.d = z.d]
        BY <3>1 DEF control_edit, raster_add
      <4>2. z.d = [z.d EXCEPT !.raster = z.d.raster]
        BY <1>0 DEF Debuggers
      <4> QED BY <2>1, <4>1, <4>2
    <3>2. CASE c = "raster" /\ FreeSlots(z.d) # {}
      <4>1. PICK r : r = [z.d.raster EXCEPT ![First(FreeSlots(z.d))] = x]
        OBVIOUS
      <4>2. x \in Nat
        BY <3>2 DEF Fits
      <4>3. r \in [1 .. Slots -> Nat]
        BY <2>1, <4>1, <4>2
      <4>4. control_edit(z, c, x) = [z EXCEPT !.d = [z.d EXCEPT !.raster = r]]
        BY <3>2, <4>1 DEF control_edit, raster_add
      <4> QED BY <4>3, <4>4
    <3>3. CASE c = "unraster"
      <4>1. PICK r : r = [z.d.raster EXCEPT ![x] = None]
        OBVIOUS
      <4>2. r \in [1 .. Slots -> Nat]
        BY <2>1, <4>1 DEF None
      <4>3. control_edit(z, c, x) = [z EXCEPT !.d = [z.d EXCEPT !.raster = r]]
        BY <3>3, <4>1 DEF control_edit, raster_delete
      <4> QED BY <4>2, <4>3
    <3> QED BY <1>6, <3>1, <3>2, <3>3
  <2>3. PICK e : e = [z.d EXCEPT !.raster = r]
    OBVIOUS
  <2>4. e \in Debuggers /\ Steady(e, z.d) /\ TracedIn(e)
    BY <1>0, <2>3 DEF Debuggers, Steady, TracedIn
  <2> QED BY <2>2, <2>3, <2>4, EditCalm
<1> QED BY <1>1, <1>2, <1>3, <1>4, <1>5, <1>6

\* The others change the machine, its memory or the trace.
LEMMA OtherEdit ==
  ASSUME NEW z \in States, Sound(z), NEW c, NEW x, Fits(c, x, z.d),
         c \in {"write", "pc", "reset", "trace", "trace-off"}
  PROVE Calm(control_edit(z, c, x), z)
<1>1. CASE c = "write"
  <2>1. x \in Nat /\ control_edit(z, c, x) = memory_write(z, x)
    BY <1>1 DEF control_edit, Fits
  <2> QED BY <2>1, WriteSound
<1>2. CASE c \in {"pc", "reset"}
  <2>0. z.m \in Machines
    BY DEF States
  <2>1. PICK m \in Machines : control_edit(z, c, x) = [z EXCEPT !.m = m]
    <3>1. CASE c = "pc"
      <4>1. PICK m : m = [z.m EXCEPT !.pc = x]
        OBVIOUS
      <4>2. x \in Addr
        BY <3>1 DEF Fits
      <4>3. m \in Machines
        BY <2>0, <4>1, <4>2 DEF Machines
      <4>4. control_edit(z, c, x) = [z EXCEPT !.m = m]
        BY <3>1, <4>1 DEF control_edit, States
      <4> QED BY <4>3, <4>4
    <3>2. CASE c = "reset"
      <4>1. PICK m : m = [z.m EXCEPT !.pc = 1, !.stack = <<>>, !.jam = FALSE]
        OBVIOUS
      <4>2. 1 \in Addr /\ <<>> \in Seq(Addr)
        BY AddrIs
      <4>3. m \in Machines
        BY <2>0, <4>1, <4>2 DEF Machines
      <4>4. control_edit(z, c, x) = [z EXCEPT !.m = m]
        BY <3>2, <4>1 DEF control_edit, ResetCpu
      <4> QED BY <4>3, <4>4
    <3> QED BY <1>2, <3>1, <3>2
  <2>2. PICK y : y = [z EXCEPT !.m = m]
    OBVIOUS
  <2>3. y \in States /\ y.d = z.d /\ y.t = z.t /\ y.s = z.s /\ y.g = z.g
    BY <2>2 DEF States
  <2> QED BY <2>1, <2>2, <2>3 DEF Calm, Sound
<1>3. CASE c \in {"trace", "trace-off"}
  <2>0. z.g \in Views
    BY DEF States
  <2>1. PICK t \in Traces : LogIn(t, <<>>) /\ control_edit(z, c, x) = [z EXCEPT !.t = t, !.g.log = <<>>]
    <3>1. CASE c = "trace"
      <4>1. x[1] = 2 /\ x[2] = "r"
        BY <3>1 DEF Fits
      <4>2. control_edit(z, c, x) = [z EXCEPT !.t = trace_arm(2, "r", 2), !.g.log = <<>>]
        BY <3>1, <4>1 DEF control_edit
      <4> QED BY <4>2, TraceReset
    <3>2. CASE c = "trace-off"
      <4>1. control_edit(z, c, x) = [z EXCEPT !.t = trace_reset, !.g.log = <<>>]
        BY <3>2 DEF control_edit
      <4> QED BY <4>1, TraceReset
    <3> QED BY <1>3, <3>1, <3>2
  <2>2. PICK g : g = [z.g EXCEPT !.log = <<>>]
    OBVIOUS
  <2>3. g \in Views /\ g.view = z.g.view /\ g.twice = z.g.twice /\ g.asked = z.g.asked
        /\ g.undo = z.g.undo /\ g.log = <<>> /\ g.ran = z.g.ran /\ g.stepped = z.g.stepped
    <3>1. <<>> \in Seq(Snapshots) /\ <<>> \in Seq(Addr)
      OBVIOUS
    <3> QED BY <2>0, <2>2, <3>1 DEF Views
  <2>4. PICK y : y = [z EXCEPT !.t = t, !.g = g]
    OBVIOUS
  <2>5. y = control_edit(z, c, x)
    BY <2>1, <2>2, <2>4 DEF States
  <2>6. y \in States /\ y.d = z.d /\ y.t = t /\ y.s = z.s /\ y.g = g
    BY <2>3, <2>4 DEF States
  <2>7. Sound(y)
    BY <2>1, <2>3, <2>6 DEF Sound, AskedIn
  <2> QED BY <2>3, <2>5, <2>6, <2>7 DEF Calm
<1> QED BY <1>1, <1>2, <1>3

LEMMA ControlEdit ==
  ASSUME NEW z \in States, Sound(z), NEW c, NEW x, Fits(c, x, z.d), z.s.mode # "gdb"
  PROVE Calm(control_edit(z, c, x), z)
<1>1. \/ c \in {"break", "cond", "unbreak", "watch", "unwatch", "region", "exec", "clear",
                "raster", "unraster"}
      \/ c \in {"write", "pc", "reset", "trace", "trace-off"}
  BY DEF Fits
<1> QED BY <1>1, TableEdit, OtherEdit

\* The command line can undo, and removes the entry of a bad condition.
LEMMA ReplEdit ==
  ASSUME NEW z \in States, Sound(z), z.s.mode # "gdb", NEW c, NEW x,
         Fits(c, x, z.d) \/ c = "undo" \/ (c = "bad-condition" /\ x \in Addr)
  PROVE Calm(repl_edit(z, c, x), z)
<1>0. z.d \in Debuggers /\ TracedIn(z.d) /\ z.g \in Views /\ z.m \in Machines
  BY DEF States, Sound
<1>1. CASE c \notin {"undo", "bad-condition"}
  <2>1. repl_edit(z, c, x) = control_edit(z, c, x) /\ Fits(c, x, z.d)
    BY <1>1 DEF repl_edit
  <2> QED BY <2>1, ControlEdit
<1>2. CASE c = "bad-condition"
  <2>0. x \in Addr
    BY <1>2 DEF Fits
  <2>1. PICK b \in Seq(Points) : debugger_add_breakpoint(z.d, x, None) = [z.d EXCEPT !.bps = b]
    BY <1>0, <2>0, AddPoint DEF None
  <2>2. PICK d : d = [z.d EXCEPT !.bps = b]
    OBVIOUS
  <2>3. d \in Debuggers /\ d.bps = b
    BY <1>0, <2>2 DEF Debuggers
  <2>4. repl_edit(z, c, x) = IF d = z.d /\ BpSlot(d, x) > Len(d.bps) THEN z
                             ELSE [z EXCEPT !.d = debugger_remove_breakpoint(d, BpSlot(d, x))]
    BY <1>2, <2>1, <2>2 DEF repl_edit
  <2>5. CASE d = z.d /\ BpSlot(d, x) > Len(d.bps)
    BY <2>4, <2>5 DEF Calm
  <2>6. CASE ~(d = z.d /\ BpSlot(d, x) > Len(d.bps))
    <3>1. PICK w \in Seq(Points) : w = Without(b, BpSlot(d, x))
      <4>1. CASE BpSlot(d, x) \in DOMAIN b
        BY <4>1, WithoutIs
      <4>2. CASE BpSlot(d, x) = Len(b) + 1
        <5>1. SubSeq(b, 1, Len(b)) \in Seq(Points) /\ SubSeq(b, Len(b) + 1 + 1, Len(b)) = <<>>
          <6>1. Len(b) \in Nat /\ \A i \in 1 .. Len(b) : b[i] \in Points
            OBVIOUS
          <6> QED BY <6>1, SubSeqProperties, SubSeqEmpty
        <5>2. Len(b) + 1 - 1 = Len(b)
          OBVIOUS
        <5>3. Without(b, BpSlot(d, x)) = SubSeq(b, 1, Len(b)) \o <<>>
          <6>1. PICK i : i = Len(b) + 1
            OBVIOUS
          <6>2. Without(b, i) = SubSeq(b, 1, i - 1) \o SubSeq(b, i + 1, Len(b))
            BY DEF Without
          <6>3. i - 1 = Len(b) /\ SubSeq(b, i + 1, Len(b)) = <<>> /\ BpSlot(d, x) = i
            BY <4>2, <5>1, <5>2, <6>1
          <6> QED BY <6>2, <6>3
        <5> QED BY <5>1, <5>3, ConcatProperties
      <4> QED BY <2>3, <4>1, <4>2, SlotIs
    <3>2. PICK e : e = [z.d EXCEPT !.bps = w]
      OBVIOUS
    <3>3. repl_edit(z, c, x) = [z EXCEPT !.d = e]
      <4>1. debugger_remove_breakpoint(d, BpSlot(d, x)) = [d EXCEPT !.bps = w]
        BY <2>3, <3>1 DEF debugger_remove_breakpoint
      <4>2. [d EXCEPT !.bps = w] = e
        BY <1>0, <2>2, <3>2 DEF Debuggers
      <4> QED BY <2>4, <2>6, <4>1, <4>2
    <3>4. e \in Debuggers /\ Steady(e, z.d) /\ TracedIn(e)
      BY <1>0, <3>2 DEF Debuggers, Steady, TracedIn
    <3> QED BY <3>2, <3>3, <3>4, EditCalm
  <2> QED BY <2>5, <2>6
<1>3. CASE c = "undo"
  <2>0. RingIn(z.d, z.g.undo) /\ z.g.undo \in Seq(Snapshots)
    BY <1>0 DEF Sound, Views
  <2>1. repl_edit(z, c, x) = Undo(z)
    BY <1>3 DEF repl_edit
  <2>2. CASE z.d.count = 0
    <3>1. z.g.undo = <<>>
      BY <2>0, <2>2, EmptySeq DEF RingIn
    <3>2. Undo(z) = [z EXCEPT !.d = z.d, !.m = z.m, !.g.undo = z.g.undo]
      BY <2>2, <3>1 DEF Undo, dbg_undo_pop
    <3>3. Undo(z) = z
      <4>1. [z.g EXCEPT !.undo = z.g.undo] = z.g
        BY <1>0 DEF Views
      <4>2. PICK g : g = [z.g EXCEPT !.undo = z.g.undo]
        OBVIOUS
      <4>3. Undo(z) = [z EXCEPT !.d = z.d, !.m = z.m, !.g = g]
        BY <3>2, <4>2 DEF States
      <4> QED BY <4>1, <4>2, <4>3 DEF States
    <3> QED BY <2>1, <3>3 DEF Calm
  <2>3. CASE z.d.count # 0
    <3>0. z.d.count > 0 /\ z.g.undo # <<>>
      BY <1>0, <2>0, <2>3, EmptySeq DEF Debuggers, RingIn
    <3>1. PICK e : e = Undone(z.d)
      OBVIOUS
    <3>2. PICK u : u = SubSeq(z.g.undo, 1, Len(z.g.undo) - 1)
      OBVIOUS
    <3>3. PICK s : s = z.d.ring[UndoSlot(z.d)]
      OBVIOUS
    <3>4. e \in Debuggers /\ u \in Seq(Snapshots) /\ RingIn(e, u) /\ s \in Snapshots
      <4>1. /\ e \in Debuggers /\ u \in Seq(Snapshots) /\ RingIn(e, u)
            /\ z.d.ring[UndoSlot(z.d)] = z.g.undo[Len(z.g.undo)]
            /\ z.g.undo[Len(z.g.undo)] \in Snapshots
        BY <1>0, <2>0, <3>0, <3>1, <3>2, Pop
      <4> QED BY <3>3, <4>1
    <3>5. e.bps = z.d.bps /\ e.wps = z.d.wps /\ e.rw = z.d.rw /\ e.traced = z.d.traced
          /\ e.step = z.d.step /\ e.active = z.d.active
      BY <1>0, <3>1 DEF Debuggers, Undone
    <3>6. PICK m : m = [z.m EXCEPT !.pc = s.pc, !.stack = s.stack, !.cell = s.cell, !.jam = s.jam]
      OBVIOUS
    <3>7. m \in Machines
      BY <1>0, <3>4, <3>6 DEF Machines, Snapshots
    <3>8. PICK g : g = [z.g EXCEPT !.undo = u]
      OBVIOUS
    <3>9. g \in Views /\ g.view = z.g.view /\ g.twice = z.g.twice /\ g.asked = z.g.asked
          /\ g.undo = u /\ g.log = z.g.log /\ g.ran = z.g.ran /\ g.stepped = z.g.stepped
      BY <1>0, <3>4, <3>8 DEF Views
    <3>10. Undo(z) = [z EXCEPT !.d = e, !.m = m, !.g = g]
      <4>1. dbg_undo_pop(z.d, z.m) = [d |-> e, m |-> m]
        BY <2>3, <3>1, <3>3, <3>6 DEF dbg_undo_pop, UndoSlot, Undone
      <4>2. Undo(z) = [z EXCEPT !.d = e, !.m = m, !.g.undo = u]
        BY <3>0, <3>2, <4>1 DEF Undo
      <4> QED BY <3>8, <4>2 DEF States
    <3>11. PICK y : y = [z EXCEPT !.d = e, !.m = m, !.g = g]
      OBVIOUS
    <3>12. y \in States /\ y.d = e /\ y.t = z.t /\ y.s = z.s /\ y.g = g
      BY <3>4, <3>7, <3>9, <3>11 DEF States
    <3>13. TracedIn(e) /\ AskedIn(e, z.s, g) /\ RingIn(e, g.undo) /\ LogIn(z.t, g.log)
      BY <3>4, <3>5, <3>9 DEF Sound, TracedIn, AskedIn, InTables
    <3> QED BY <2>1, <3>5, <3>9, <3>10, <3>11, <3>12, <3>13 DEF Calm, Sound
  <2> QED BY <2>2, <2>3
<1> QED BY <1>1, <1>2, <1>3

\* What gdb asks for and what it takes back.
LEMMA AskSound ==
  ASSUME NEW z \in States, Sound(z), z.s.mode = "gdb",
         NEW f \in Debuggers, TracedIn(f), Steady(f, z.d),
         NEW A \in SUBSET Wishes, InTables(f, A),
         NEW y, y = [z EXCEPT !.d = f, !.g.asked = A]
  PROVE Calm(y, z)
<1>0. z.g \in Views
  BY DEF States
<1>1. PICK g : g = [z.g EXCEPT !.asked = A]
  OBVIOUS
<1>2. g \in Views /\ g.view = z.g.view /\ g.twice = z.g.twice /\ g.asked = A
      /\ g.undo = z.g.undo /\ g.log = z.g.log /\ g.ran = z.g.ran /\ g.stepped = z.g.stepped
  BY <1>0, <1>1 DEF Views
<1>3. y = [z EXCEPT !.d = f, !.g = g]
  BY <1>1 DEF States
<1>4. y \in States /\ y.d = f /\ y.t = z.t /\ y.s = z.s /\ y.g = g
  BY <1>2, <1>3 DEF States
<1>5. RingIn(f, g.undo)
  BY <1>2 DEF Sound, RingIn, Steady
<1> QED BY <1>2, <1>4, <1>5 DEF Calm, Sound, AskedIn, Steady

LEMMA GdbEdit ==
  ASSUME NEW z \in States, Sound(z), z.s.mode = "gdb", NEW c, NEW x,
         \/ c \in {"Z0", "z0"} /\ x \in Addr
         \/ c \in {"Z2", "z2"} /\ x \in Modes \ {"change"}
         \/ c \in {"write", "pc"} /\ Fits(c, x, z.d),
         c = "Z2" => ~\E a \in z.g.asked : a[1] = "Z2",
         c = "z2" => <<"Z2", x>> \in z.g.asked
  PROVE Calm(gdb_dispatch(z, c, x), z)
<1>0. z.d \in Debuggers /\ TracedIn(z.d) /\ InTables(z.d, z.g.asked) /\ z.g.asked \in SUBSET Wishes
      /\ z.d.bps \in Seq(Points) /\ z.d.wps \in Seq(Watches)
  BY DEF States, Sound, AskedIn, Debuggers, Views
<1> DEFINE A == z.g.asked
<1>1. CASE c \in {"write", "pc"}
  <2>1. gdb_dispatch(z, c, x) = control_edit(z, c, x)
    BY <1>1 DEF gdb_dispatch
  <2> QED BY <1>1, <2>1, OtherEdit
<1>2. CASE c = "Z0"
  <2>0. x \in Addr /\ <<"Z0", x>> \in Wishes
    BY <1>2 DEF Wishes
  <2>1. PICK b \in Seq(Points) :
          /\ debugger_add_breakpoint(z.d, x, None) = [z.d EXCEPT !.bps = b]
          /\ \A p : Has(z.d.bps, p) => Has(b, p)
          /\ Len(z.d.bps) < MaxPoints => Has(b, [addr |-> x, cond |-> None])
    BY <1>0, <2>0, AddPoint DEF None
  <2>2. PICK e : e = [z.d EXCEPT !.bps = b]
    OBVIOUS
  <2>3. e \in Debuggers /\ Steady(e, z.d) /\ TracedIn(e) /\ e.bps = b /\ e.wps = z.d.wps
    BY <1>0, <2>2 DEF Debuggers, Steady, TracedIn
  <2>4. PICK B : B = IF Len(z.d.bps) < MaxPoints THEN A \cup {<<"Z0", x>>} ELSE A
    OBVIOUS
  <2>5. B \in SUBSET Wishes
    BY <1>0, <2>0, <2>4
  <2>6. InTables(e, B)
    <3>1. ASSUME NEW a \in Addr, <<"Z0", a>> \in B PROVE Has(b, [addr |-> a, cond |-> None])
      <4>1. CASE <<"Z0", a>> \in A
        BY <1>0, <2>1, <4>1 DEF InTables
      <4>2. CASE <<"Z0", a>> \notin A
        <5>1. Len(z.d.bps) < MaxPoints /\ <<"Z0", a>> = <<"Z0", x>>
          BY <2>4, <3>1, <4>2
        <5> QED BY <2>1, <5>1
      <4> QED BY <4>1, <4>2
    <3>2. \A k : <<"Z2", k>> \in B => <<"Z2", k>> \in A
      BY <2>4
    <3> QED BY <1>0, <2>3, <3>1, <3>2 DEF InTables
  <2>7. gdb_dispatch(z, c, x) = [z EXCEPT !.d = e, !.g.asked = B]
    BY <1>2, <2>1, <2>2, <2>4 DEF gdb_dispatch
  <2> QED BY <2>3, <2>5, <2>6, <2>7, AskSound
<1>3. CASE c = "z0"
  <2>1. PICK b \in Seq(Points) :
          /\ b = RemoveFirst(z.d.bps, LAMBDA p : p.addr = x)
          /\ \A p : Has(z.d.bps, p) /\ p.addr # x => Has(b, p)
    BY <1>0, RemovePoint
  <2>2. PICK e : e = [z.d EXCEPT !.bps = b]
    OBVIOUS
  <2>3. e \in Debuggers /\ Steady(e, z.d) /\ TracedIn(e) /\ e.bps = b /\ e.wps = z.d.wps
    BY <1>0, <2>2 DEF Debuggers, Steady, TracedIn
  <2>4. PICK B : B = A \ {<<"Z0", x>>}
    OBVIOUS
  <2>5. B \in SUBSET Wishes
    BY <1>0, <2>4
  <2>6. InTables(e, B)
    <3>1. ASSUME NEW a \in Addr, <<"Z0", a>> \in B PROVE Has(b, [addr |-> a, cond |-> None])
      <4>1. <<"Z0", a>> \in A /\ a # x
        BY <2>4, <3>1
      <4>2. Has(z.d.bps, [addr |-> a, cond |-> None])
        BY <1>0, <4>1 DEF InTables
      <4>3. [addr |-> a, cond |-> None].addr = a
        OBVIOUS
      <4>4. PICK p : p = [addr |-> a, cond |-> None]
        OBVIOUS
      <4>5. p.addr # x /\ Has(z.d.bps, p)
        BY <4>1, <4>2, <4>3, <4>4
      <4>6. Has(b, p)
        BY <2>1, <4>5
      <4> QED BY <4>4, <4>6
    <3>2. \A k : <<"Z2", k>> \in B => <<"Z2", k>> \in A
      BY <2>4
    <3> QED BY <1>0, <2>3, <3>1, <3>2 DEF InTables
  <2>7. gdb_dispatch(z, c, x) = [z EXCEPT !.d = e, !.g.asked = B]
    BY <1>3, <2>1, <2>2, <2>4 DEF gdb_dispatch, States
  <2> QED BY <2>3, <2>5, <2>6, <2>7, AskSound
<1>4. CASE c = "Z2"
  <2>0. x \in Modes /\ <<"Z2", x>> \in Wishes
    BY <1>4 DEF Wishes
  <2>1. PICK w \in Seq(Watches) :
          /\ debugger_add_watchpoint(z.d, x) = [z.d EXCEPT !.wps = w]
          /\ \A k : Watched(z.d.wps, k) => Watched(w, k)
          /\ Len(z.d.wps) < MaxPoints => Watched(w, x)
    BY <1>0, <2>0, AddWatch
  <2>2. PICK e : e = [z.d EXCEPT !.wps = w]
    OBVIOUS
  <2>3. e \in Debuggers /\ Steady(e, z.d) /\ e.bps = z.d.bps /\ e.wps = w
    BY <1>0, <2>2 DEF Debuggers, Steady
  <2>4. PICK h \in BOOLEAN : /\ debugger_install_watchpoint_trace(e) = [e EXCEPT !.traced = h]
                             /\ TracedIn([e EXCEPT !.traced = h])
    BY <2>3, InstallIs
  <2>5. PICK f : f = [e EXCEPT !.traced = h]
    OBVIOUS
  <2>6. f \in Debuggers /\ Steady(f, z.d) /\ TracedIn(f) /\ f.bps = z.d.bps /\ f.wps = w
    BY <2>3, <2>4, <2>5 DEF Debuggers, Steady
  <2>7. PICK B : B = IF Len(z.d.wps) < MaxPoints THEN A \cup {<<"Z2", x>>} ELSE A
    OBVIOUS
  <2>8. B \in SUBSET Wishes
    BY <1>0, <2>0, <2>7
  <2>9. InTables(f, B)
    <3>1. \A a : <<"Z0", a>> \in B => <<"Z0", a>> \in A
      BY <2>7
    <3>2. \A k : <<"Z2", k>> \notin A
      <4>1. ASSUME NEW k, <<"Z2", k>> \in A PROVE FALSE
        <5>1. <<"Z2", k>>[1] = "Z2"
          OBVIOUS
        <5> QED BY <1>4, <4>1, <5>1
      <4> QED BY <4>1
    <3>3. \A k : <<"Z2", k>> \in B => k = x /\ Len(z.d.wps) < MaxPoints
      BY <2>7, <3>2
    <3> QED BY <1>0, <2>1, <2>6, <3>1, <3>3 DEF InTables
  <2>10. gdb_dispatch(z, c, x) = [z EXCEPT !.d = f, !.g.asked = B]
    <3>1. gdb_dispatch(z, c, x)
            = [Installed(z, e) EXCEPT !.g.asked = IF Len(z.d.wps) < MaxPoints THEN @ \cup {<<"Z2", x>>} ELSE @]
      BY <1>4, <2>1, <2>2 DEF gdb_dispatch
    <3>2. Installed(z, e) = [z EXCEPT !.d = f]
      BY <2>4, <2>5 DEF Installed
    <3> QED BY <2>7, <3>1, <3>2 DEF States
  <2> QED BY <2>6, <2>8, <2>9, <2>10, AskSound
<1>5. CASE c = "z2"
  <2>0. x \in Modes /\ <<"Z2", x>> \in A
    BY <1>5
  <2>1. PICK w \in Seq(Watches) : w = RemoveFirst(z.d.wps, LAMBDA p : TRUE)
    BY <1>0, RemoveWatch
  <2>2. PICK e : e = [z.d EXCEPT !.wps = w]
    OBVIOUS
  <2>3. e \in Debuggers /\ Steady(e, z.d) /\ e.bps = z.d.bps /\ e.wps = w
    BY <1>0, <2>2 DEF Debuggers, Steady
  <2>4. PICK h \in BOOLEAN : /\ debugger_install_watchpoint_trace(e) = [e EXCEPT !.traced = h]
                             /\ TracedIn([e EXCEPT !.traced = h])
    BY <2>3, InstallIs
  <2>5. PICK f : f = [e EXCEPT !.traced = h]
    OBVIOUS
  <2>6. f \in Debuggers /\ Steady(f, z.d) /\ TracedIn(f) /\ f.bps = z.d.bps
    BY <2>3, <2>4, <2>5 DEF Debuggers, Steady
  <2>7. PICK B : B = A \ {<<"Z2", x>>}
    OBVIOUS
  <2>8. B \in SUBSET Wishes
    BY <1>0, <2>7
  <2>9. InTables(f, B)
    <3>1. \A a : <<"Z0", a>> \in B => <<"Z0", a>> \in A
      BY <2>7
    <3>2. \A k \in Modes : <<"Z2", k>> \notin B
      BY <1>0, <2>0, <2>7 DEF InTables
    <3> QED BY <1>0, <2>6, <3>1, <3>2 DEF InTables
  <2>10. gdb_dispatch(z, c, x) = [z EXCEPT !.d = f, !.g.asked = B]
    <3>1. gdb_dispatch(z, c, x) = [Installed(z, e) EXCEPT !.g.asked = @ \ {<<"Z2", x>>}]
      BY <1>5, <2>1, <2>2 DEF gdb_dispatch
    <3>2. Installed(z, e) = [z EXCEPT !.d = f]
      BY <2>4, <2>5 DEF Installed
    <3> QED BY <2>7, <3>1, <3>2 DEF States
  <2> QED BY <2>6, <2>8, <2>9, <2>10, AskSound
<1> QED BY <1>1, <1>2, <1>3, <1>4, <1>5

-----------------------------------------------------------------------------
(* Stopping and resuming *)

\* Tables and rings are what they were; gdb may have been forgotten.
LEMMA Restaged ==
  ASSUME NEW z, Sound(z), NEW y, Unmoved(y.d, z.d), y.t = z.t,
         y.g.undo = z.g.undo, y.g.log = z.g.log,
         \/ y.s.mode = z.s.mode /\ y.g.asked = z.g.asked
         \/ y.g.asked = {}
  PROVE Sound(y)
<1>1. TracedIn(y.d) /\ RingIn(y.d, y.g.undo) /\ LogIn(y.t, y.g.log)
  BY DEF Sound, Unmoved, TracedIn, RingIn
<1>2. AskedIn(y.d, y.s, y.g)
  <2>1. CASE y.g.asked = {}
    BY <2>1 DEF AskedIn, InTables
  <2>2. CASE y.s.mode = z.s.mode /\ y.g.asked = z.g.asked
    BY <2>2 DEF Sound, AskedIn, InTables, Unmoved
  <2> QED BY <2>1, <2>2
<1> QED BY <1>1, <1>2 DEF Sound

\* A client is told.
LEMMA ToldIs ==
  ASSUME NEW z \in States, NEW v \in {"running", "stopped"}
  PROVE \E g \in Views :
          /\ Told(z, v) = [z EXCEPT !.g = g]
          /\ g.view = v /\ g.asked = z.g.asked /\ g.undo = z.g.undo /\ g.log = z.g.log
          /\ g.ran = z.g.ran /\ g.stepped = z.g.stepped /\ g.access = z.g.access
          /\ ~z.g.twice /\ (v = "running" \/ z.g.view # "stopped") => ~g.twice
<1>0. z.g \in Views
  BY DEF States
<1>1. PICK p \in BOOLEAN : p = (z.g.paused /\ v # "stopped")
  OBVIOUS
<1>2. PICK t \in BOOLEAN : t = (z.g.twice \/ (v = "stopped" /\ z.g.view = "stopped"))
  OBVIOUS
<1>3. Told(z, v) = [z EXCEPT !.g.view = v, !.g.paused = p, !.g.twice = t]
  BY <1>1, <1>2 DEF Told
<1>4. ~z.g.twice /\ (v = "running" \/ z.g.view # "stopped") => ~t
  BY <1>2
<1>5. PICK g : g = [z.g EXCEPT !.view = v, !.paused = p, !.twice = t]
  OBVIOUS
<1>6. g \in Views /\ g.view = v /\ g.asked = z.g.asked /\ g.undo = z.g.undo /\ g.log = z.g.log
      /\ g.ran = z.g.ran /\ g.stepped = z.g.stepped /\ g.access = z.g.access /\ g.twice = t
  BY <1>0, <1>5 DEF Views
<1>7. Told(z, v) = [z EXCEPT !.g = g]
  BY <1>3, <1>5 DEF States
<1> QED BY <1>4, <1>6, <1>7

\* A machine that stops before an instruction.
LEMMA StoppedGood ==
  ASSUME NEW y \in States, Sound(y), y.s.stage = "stopped", y.s.running,
         y.s.mode \in {"control", "gdb"} => ~y.g.twice /\ y.g.view \in {"stopped", "attached"}
  PROVE Good(y)
BY DEF Good, StepIn, AccessIn, GoIn, ViewIn, Moving

LEMMA StopGood ==
  ASSUME NEW z \in States, Sound(z), z.s.running,
         z.s.mode \in {"control", "gdb"} =>
           /\ ~z.g.twice
           /\ ToldRunning(z) \/ (z.s.mode = "gdb" /\ z.g.view = "attached" /\ ~z.s.resumed)
  PROVE Good(Stop(z))
<1>0. z.d \in Debuggers /\ z.s \in Sessions /\ z.g \in Views
  BY DEF States
<1>1. PICK g \in Views :
        /\ Told(z, "stopped") = [z EXCEPT !.g = g]
        /\ g.view = "stopped" /\ g.asked = z.g.asked /\ g.undo = z.g.undo /\ g.log = z.g.log
        /\ ~z.g.twice /\ z.g.view # "stopped" => ~g.twice
  BY ToldIs
<1>2. CASE z.s.mode = "gdb"
  <2>1. PICK h \in Views : /\ h = IF z.s.resumed THEN g ELSE z.g
                           /\ h.asked = z.g.asked /\ h.undo = z.g.undo /\ h.log = z.g.log
                           /\ ~h.twice /\ h.view \in {"stopped", "attached"}
    <3>1. CASE z.s.resumed
      BY <1>0, <1>1, <1>2, <3>1 DEF ToldRunning
    <3>2. CASE ~z.s.resumed
      BY <1>0, <1>1, <1>2, <3>2 DEF ToldRunning
    <3> QED BY <3>1, <3>2
  <2>2. PICK s : s = [z.s EXCEPT !.resumed = FALSE, !.stage = "stopped"]
    OBVIOUS
  <2>3. s \in Sessions /\ s.stage = "stopped" /\ s.mode = z.s.mode /\ s.running = z.s.running
    BY <1>0, <2>2 DEF Sessions
  <2>4. PICK y : y = [z EXCEPT !.g = h, !.s = s]
    OBVIOUS
  <2>5. y \in States /\ y.d = z.d /\ y.t = z.t /\ y.s = s /\ y.g = h
    BY <2>1, <2>3, <2>4 DEF States
  <2>6. Stop(z) = y
    <3>1. Stop(z) = gdb_stub_stopped(z)
      BY <1>2 DEF Stop
    <3>2. PICK w : w = [z EXCEPT !.g = h]
      OBVIOUS
    <3>3. w = IF z.s.resumed THEN Told(z, "stopped") ELSE z
      <4>1. CASE z.s.resumed
        BY <1>1, <2>1, <3>2, <4>1
      <4>2. CASE ~z.s.resumed
        BY <2>1, <3>2, <4>2 DEF States
      <4> QED BY <4>1, <4>2
    <3>4. Stop(z) = [w EXCEPT !.s.resumed = FALSE, !.s.stage = "stopped"]
      BY <3>1, <3>3 DEF gdb_stub_stopped
    <3>5. w.s = z.s
      BY <3>2 DEF States
    <3>6. Stop(z) = [w EXCEPT !.s = s]
      BY <2>2, <3>4, <3>5
    <3> QED BY <2>4, <3>2, <3>6 DEF States
  <2>7. Sound(y)
    BY <2>1, <2>3, <2>5, Restaged DEF Unmoved
  <2> QED BY <2>1, <2>3, <2>5, <2>6, <2>7, StoppedGood
<1>3. CASE z.s.mode # "gdb"
  <2>1. PICK s, d : /\ s = [z.s EXCEPT !.pending = IF z.s.mode = "control" THEN FALSE ELSE @, !.stage = "stopped"]
                    /\ d = [z.d EXCEPT !.step = FALSE, !.reason = IF z.s.mode = "control" THEN "" ELSE @,
                                       !.active = IF z.s.mode = "control" THEN @ ELSE TRUE]
    OBVIOUS
  <2>2. s \in Sessions /\ s.stage = "stopped" /\ s.mode = z.s.mode /\ s.running = z.s.running
    BY <1>0, <2>1 DEF Sessions
  <2>3. d \in Debuggers /\ Unmoved(d, z.d)
    BY <1>0, <2>1 DEF Debuggers, Unmoved, Reasons
  <2>4. PICK y : y = [z EXCEPT !.g = g, !.s = s, !.d = d]
    OBVIOUS
  <2>5. y \in States /\ y.d = d /\ y.t = z.t /\ y.s = s /\ y.g = g
    BY <2>2, <2>3, <2>4 DEF States
  <2>6. Stop(z) = y
    <3>1. CASE z.s.mode = "control"
      <4>1. Stop(z) = [Told(z, "stopped") EXCEPT !.s.pending = FALSE, !.s.stage = "stopped",
                                                 !.d.step = FALSE, !.d.reason = ""]
        BY <1>3, <3>1 DEF Stop, control_stopped
      <4>2. s = [z.s EXCEPT !.pending = FALSE, !.stage = "stopped"] /\ d = [z.d EXCEPT !.step = FALSE, !.reason = ""]
        BY <1>0, <2>1, <3>1 DEF Debuggers
      <4> QED BY <1>1, <2>4, <4>1, <4>2 DEF States
    <3>2. CASE z.s.mode # "control"
      <4>1. Stop(z) = [Told(z, "stopped") EXCEPT !.d.active = TRUE, !.d.step = FALSE, !.s.stage = "stopped"]
        BY <1>3, <3>2 DEF Stop, debugger_repl
      <4>2. s = [z.s EXCEPT !.stage = "stopped"] /\ d = [z.d EXCEPT !.active = TRUE, !.step = FALSE]
        BY <1>0, <2>1, <3>2 DEF Debuggers, Sessions
      <4> QED BY <1>1, <2>4, <4>1, <4>2 DEF States
    <3> QED BY <3>1, <3>2
  <2>7. Sound(y)
    BY <1>1, <2>2, <2>3, <2>5, Restaged
  <2> QED BY <1>1, <1>3, <2>2, <2>5, <2>6, <2>7, StoppedGood DEF ToldRunning
<1> QED BY <1>2, <1>3

\* A machine that goes on.
Stepping(k) == k = "step"
LEMMA ResumeIs ==
  ASSUME NEW z \in States, NEW d \in Debuggers, NEW k, NEW y, y = Resume(z, d, k)
  PROVE /\ y \in States /\ y.d = d /\ y.t = z.t
        /\ y.s.stage = "go" /\ y.s.mode = z.s.mode /\ (y.s.running <=> z.s.running)
        /\ (y.s.resumed <=> z.s.resumed)
        /\ y.g.view = "running" /\ y.g.asked = z.g.asked /\ y.g.undo = z.g.undo
        /\ y.g.log = z.g.log /\ ~y.g.ran /\ (y.g.stepped <=> Stepping(k))
        /\ (~z.g.twice => ~y.g.twice)
<1>0. z.s \in Sessions /\ z.g \in Views
  BY DEF States
<1>1. PICK st \in BOOLEAN : st <=> Stepping(k)
  OBVIOUS
<1>2. PICK h : h = [z.g EXCEPT !.stepped = st, !.ran = FALSE]
  OBVIOUS
<1>3. h \in Views /\ h.asked = z.g.asked /\ h.undo = z.g.undo /\ h.log = z.g.log /\ h.ran = FALSE
      /\ h.stepped = st /\ h.twice = z.g.twice
  BY <1>0, <1>2 DEF Views
<1>4. PICK s : s = [z.s EXCEPT !.stage = "go"]
  OBVIOUS
<1>5. s \in Sessions /\ s.stage = "go" /\ s.mode = z.s.mode /\ s.running = z.s.running
      /\ s.resumed = z.s.resumed
  BY <1>0, <1>4 DEF Sessions
<1>6. PICK x : x = [z EXCEPT !.d = d, !.s = s, !.g = h]
  OBVIOUS
<1>7. x \in States /\ x.g = h /\ x.d = d /\ x.t = z.t /\ x.s = s
  BY <1>3, <1>5, <1>6 DEF States
<1>8. Resume(z, d, k) = Told(x, "running")
  <2>1. st = (k = "step")
    BY <1>1 DEF Stepping
  <2> QED BY <1>2, <1>4, <1>6, <2>1 DEF Resume, States
<1>9. PICK g \in Views :
        /\ Told(x, "running") = [x EXCEPT !.g = g]
        /\ g.view = "running" /\ g.asked = h.asked /\ g.undo = h.undo /\ g.log = h.log
        /\ g.ran = h.ran /\ g.stepped = h.stepped
        /\ ~h.twice => ~g.twice
  BY <1>7, ToldIs
<1>10. y = [x EXCEPT !.g = g]
  BY <1>8, <1>9
<1>11. y \in States /\ y.g = g /\ y.d = d /\ y.t = z.t /\ y.s = s
  BY <1>7, <1>10 DEF States
<1>12. ~g.ran /\ g.stepped = st /\ (~z.g.twice => ~g.twice)
  BY <1>3, <1>9
<1> QED BY <1>1, <1>3, <1>5, <1>9, <1>11, <1>12

LEMMA GoingGood ==
  ASSUME NEW y \in States, Sound(y), y.s.stage = "go", y.s.running, ~y.g.ran,
         y.g.stepped => y.d.step,
         y.s.mode \in {"control", "gdb"} => ~y.g.twice /\ ToldRunning(y)
  PROVE Good(y)
BY DEF Good, StepIn, AccessIn, GoIn, ViewIn, Moving

LEMMA ResumeGood ==
  ASSUME NEW z \in States, Sound(z), z.s.running, NEW d \in Debuggers, Unmoved(d, z.d),
         NEW k, Stepping(k) => d.step, z.s.mode = "gdb" => z.s.resumed,
         z.s.mode \in {"control", "gdb"} => ~z.g.twice
  PROVE Good(Resume(z, d, k))
<1>0. PICK y : y = Resume(z, d, k)
  OBVIOUS
<1>1.   /\ y \in States /\ y.d = d /\ y.t = z.t
        /\ y.s.stage = "go" /\ y.s.mode = z.s.mode /\ (y.s.running <=> z.s.running)
        /\ (y.s.resumed <=> z.s.resumed)
        /\ y.g.view = "running" /\ y.g.asked = z.g.asked /\ y.g.undo = z.g.undo
        /\ y.g.log = z.g.log /\ ~y.g.ran /\ (y.g.stepped <=> Stepping(k))
        /\ ~z.g.twice => ~y.g.twice
  BY <1>0, ResumeIs
<1>2. Sound(y)
  BY <1>1, Restaged
<1>3. Good(y)
  BY <1>1, <1>2, GoingGood DEF ToldRunning
<1> QED BY <1>0, <1>3

\* gdb has left: the machine runs on, and nobody is owed a stop.
LEMMA DisconnectGood ==
  ASSUME NEW z \in States, Sound(z), z.s.running
  PROVE Good(gdb_disconnect(z))
<1>0. z.s \in Sessions /\ z.d \in Debuggers
  BY DEF States
<1>1. PICK d : d = Go(z.d)
  OBVIOUS
<1>2. d \in Debuggers /\ Unmoved(d, z.d)
  BY <1>0, <1>1 DEF Go, Debuggers, Unmoved
<1>3. PICK r : r = [z.s EXCEPT !.mode = "repl", !.inbox = "none"]
  OBVIOUS
<1>4. r \in Sessions /\ r.running = z.s.running /\ r.mode = "repl"
  BY <1>0, <1>3 DEF Sessions
<1>5. PICK x : x = [z EXCEPT !.s = r]
  OBVIOUS
<1>6. x \in States /\ x.s = r /\ x.g = z.g /\ x.t = z.t
  BY <1>4, <1>5 DEF States
<1>16. PICK w : w = Resume(x, d, "continue")
  OBVIOUS
<1>7.   /\ w \in States /\ w.d = d /\ w.t = x.t
        /\ w.s.stage = "go" /\ w.s.mode = x.s.mode /\ (w.s.running <=> x.s.running)
        /\ w.g.undo = x.g.undo
        /\ w.g.log = x.g.log /\ ~w.g.ran /\ (w.g.stepped <=> Stepping("continue"))
  BY <1>2, <1>6, <1>16, ResumeIs
<1>8. w.s.stage = "go" /\ w.s.mode = "repl" /\ w.s.running /\ w.g \in Views
  BY <1>4, <1>6, <1>7 DEF States
<1>9. PICK h : h = [w.g EXCEPT !.asked = {}]
  OBVIOUS
<1>10. h \in Views /\ h.asked = {} /\ h.undo = z.g.undo /\ h.log = z.g.log /\ ~h.ran /\ ~h.stepped
  BY <1>6, <1>7, <1>8, <1>9 DEF Views, Stepping
<1>11. gdb_disconnect(z) = [w EXCEPT !.g = h]
  <2>1. x = [z EXCEPT !.s.mode = "repl", !.s.inbox = "none"]
    BY <1>3, <1>5 DEF States
  <2>2. gdb_disconnect(z) = [w EXCEPT !.g.asked = {}]
    BY <1>1, <1>16, <2>1 DEF gdb_disconnect
  <2> QED BY <1>9, <2>2
<1>12. PICK y : y = [w EXCEPT !.g = h]
  OBVIOUS
<1>13. y \in States /\ y.d = d /\ y.t = z.t /\ y.s = w.s /\ y.g = h
  BY <1>6, <1>7, <1>10, <1>12 DEF States
<1>14. Sound(y)
  BY <1>2, <1>10, <1>13, Restaged
<1>15. Good(y)
  BY <1>8, <1>10, <1>13, <1>14, GoingGood
<1> QED BY <1>11, <1>12, <1>15

\* The end of the program, on its way out of the front end.
LEMMA LeavingGood ==
  ASSUME NEW y \in States, Sound(y), y.s.stage \in {"frame", "ended"}, ~y.s.running,
         y.s.mode \in {"control", "gdb"} => ~y.g.twice
  PROVE Good(y)
BY DEF Good, StepIn, AccessIn, GoIn, ViewIn, Moving

LEMMA QuitGood ==
  ASSUME NEW z \in States, Sound(z), z.s.mode \in {"control", "gdb"} => ~z.g.twice
  PROVE Good(Quit(z))
<1>0. z.s \in Sessions /\ z.d \in Debuggers
  BY DEF States
<1>1. PICK s : s = [z.s EXCEPT !.running = FALSE, !.stage = "frame"]
  OBVIOUS
<1>2. s \in Sessions /\ s.stage = "frame" /\ ~s.running /\ s.mode = z.s.mode
  BY <1>0, <1>1 DEF Sessions
<1>3. PICK d : d = [z.d EXCEPT !.active = FALSE]
  OBVIOUS
<1>4. d \in Debuggers /\ Unmoved(d, z.d)
  BY <1>0, <1>3 DEF Debuggers, Unmoved
<1>5. PICK y : y = [z EXCEPT !.s = s, !.d = d]
  OBVIOUS
<1>6. y \in States /\ y.d = d /\ y.t = z.t /\ y.s = s /\ y.g = z.g
  BY <1>2, <1>4, <1>5 DEF States
<1>7. Quit(z) = y
  BY <1>1, <1>3, <1>5 DEF Quit, States
<1>8. Sound(y)
  BY <1>2, <1>4, <1>6, Restaged
<1> QED BY <1>2, <1>6, <1>7, <1>8, LeavingGood

-----------------------------------------------------------------------------
(* The steps *)

LEMMA StartGood == DebugInit => DebugInv
<1> SUFFICES ASSUME DebugInit PROVE DebugInv
  OBVIOUS
<1>0. 1 \in Addr /\ Lines \in Nat \ {0} /\ Depth \in Nat \ {0} /\ Slots \in Nat
  BY AddrIs, DebuggerAssumption
<1>1. PICK mode \in {"control", "gdb", "repl", "tui"} :
        ses = [mode |-> mode, stage |-> "run", running |-> TRUE, pending |-> FALSE,
               resumed |-> FALSE, inbox |-> "none", left |-> MaxCommands, moves |-> MaxMoves]
  BY SessionAssumption DEF DebugInit
<1>2. ses \in Sessions
  BY <1>1, SessionAssumption DEF Sessions
<1>3. cpu \in Machines
  BY <1>0 DEF DebugInit, Machines
<1>4. dbg \in Debuggers /\ ~dbg.step /\ dbg.active /\ ~dbg.traced /\ dbg.wps = <<>> /\ dbg.rw = {} /\ dbg.count = 0
  <2>1. PICK f : f = [i \in 1 .. Slots |-> None]
    OBVIOUS
  <2>2. PICK r : r = [i \in 0 .. Depth - 1 |-> Blank]
    OBVIOUS
  <2>3. dbg = [active |-> TRUE, step |-> FALSE, temp |-> None, bps |-> <<>>, wps |-> <<>>,
               rw |-> {}, exec |-> {}, traced |-> FALSE, trig |-> FALSE,
               raster |-> f, last |-> None, reason |-> "", ring |-> r, head |-> 0, count |-> 0]
    BY <2>1, <2>2 DEF DebugInit, debugger_init
  <2>4. f \in [1 .. Slots -> Nat] /\ r \in [0 .. Depth - 1 -> Snapshots \cup {Blank}]
    BY <2>1, <2>2 DEF None
  <2>5. 0 \in 0 .. Depth - 1 /\ 0 \in 0 .. Depth /\ <<>> \in Seq(Points) /\ <<>> \in Seq(Watches)
    BY <1>0
  <2> QED BY <2>3, <2>4, <2>5 DEF Debuggers, None, Reasons
<1>5. trace \in Traces /\ LogIn(trace, <<>>)
  BY TraceReset DEF DebugInit
<1>6. seen = [view |-> IF mode = "gdb" THEN "attached" ELSE "running", paused |-> FALSE,
              twice |-> FALSE, stepped |-> FALSE, ran |-> FALSE, asked |-> {},
              access |-> "none", undo |-> <<>>, log |-> <<>>]
  BY <1>1 DEF DebugInit
<1>7. seen \in Views
  BY <1>6 DEF Views
<1>8. Now \in States
  BY <1>2, <1>3, <1>4, <1>5, <1>7 DEF Now, States
<1>9. Sound(Now)
  <2>1. TracedIn(dbg)
    BY <1>4 DEF TracedIn
  <2>2. AskedIn(dbg, ses, seen)
    BY <1>6 DEF AskedIn, InTables
  <2>3. RingIn(dbg, seen.undo)
    <3>1. Len(<<>>) = 0
      OBVIOUS
    <3> QED BY <1>4, <1>6, <3>1 DEF RingIn
  <2> QED BY <1>5, <1>6, <2>1, <2>2, <2>3 DEF Sound, Now
<1>10. StepIn(Now) /\ AccessIn(Now) /\ GoIn(Now) /\ ViewIn(Now)
  BY <1>1, <1>4, <1>6 DEF StepIn, AccessIn, GoIn, ViewIn, Now, Moving, ToldRunning
<1> QED BY <1>8, <1>9, <1>10 DEF DebugInv, Good

\* The check before an instruction misses nothing.
GoOn(z) == [z EXCEPT !.s.stage = "go"]
LEMMA CheckGood ==
  ASSUME NEW z, Good(z), z.s.stage = "run",
         NEW d, d \in Debuggers, Unmoved(d, z.d), (d.step <=> z.d.step), (d.trig <=> z.d.trig),
         z.d.active => d.active,
         NEW b, d.active => b = d, ~d.active => b = debugger_should_break(d, z.m),
         NEW w, w = [z EXCEPT !.d = b],
         NEW y, d.active \/ b.reason # "" => y = Stop(w),
         ~(d.active \/ b.reason # "") => y = GoOn(w)
  PROVE Good(y)
<1>0. z \in States /\ Sound(z) /\ z.s.running /\ Moving(z.s) /\ z.d \in Debuggers /\ z.m \in Machines
      /\ z.s \in Sessions /\ z.g \in Views
  BY DEF Good, ViewIn, Moving, States
<1>3. d \in Debuggers /\ Unmoved(d, z.d) /\ (d.step <=> z.d.step) /\ (d.trig <=> z.d.trig)
      /\ (z.d.active => d.active)
  OBVIOUS
<1>4. b \in Debuggers /\ Unmoved(b, z.d)
  <2>1. Unmoved(debugger_should_break(d, z.m), d) /\ debugger_should_break(d, z.m) \in Debuggers
    BY <1>0, <1>3, ShouldBreak
  <2>2. b \in Debuggers /\ Unmoved(b, d)
    BY <1>3, <2>1 DEF Unmoved
  <2> QED BY <1>3, <2>2 DEF Unmoved
<1>5. w \in States /\ w.d = b /\ w.m = z.m /\ w.t = z.t /\ w.s = z.s /\ w.g = z.g
  BY <1>0, <1>4 DEF States
<1>6. Sound(w)
  BY <1>0, <1>4, <1>5, Restaged
<1>7. z.s.mode \in {"control", "gdb"} =>
        /\ ~z.g.twice
        /\ \/ ToldRunning(z)
           \/ z.s.mode = "gdb" /\ z.g.view = "attached" /\ ~z.s.resumed /\ z.d.active
  BY <1>0 DEF Good, ViewIn
<1>8. CASE d.active \/ b.reason # ""
  <2>1. Good(Stop(w))
    BY <1>0, <1>5, <1>6, <1>7, StopGood DEF ToldRunning
  <2> QED BY <1>8, <2>1
<1>9. CASE ~(d.active \/ b.reason # "")
  <2>1. b = debugger_should_break(d, z.m) /\ b.reason = "" /\ ~d.active
    BY <1>9
  <2>2. ~d.step /\ ~debugger_check_pc(d, z.m) /\ z.m.pc \notin d.exec /\ ~d.trig
    <3>1. debugger_should_break(d, z.m).reason = ""
      BY <2>1
    <3>2. d \in Debuggers /\ z.m \in Machines
      BY <1>0, <1>3
    <3> QED BY <3>1, <3>2, ShouldBreak
  <2>3. PICK s : s = [z.s EXCEPT !.stage = "go"]
    OBVIOUS
  <2>4. s \in Sessions /\ s.stage = "go" /\ s.mode = z.s.mode /\ s.running /\ (s.resumed <=> z.s.resumed)
    BY <1>0, <2>3 DEF Sessions
  <2>5. PICK v : v = [w EXCEPT !.s = s]
    OBVIOUS
  <2>6. v \in States /\ v.d = b /\ v.m = z.m /\ v.t = z.t /\ v.s = s /\ v.g = z.g
    BY <1>5, <2>4, <2>5 DEF States
  <2>8. Sound(v)
    BY <1>0, <1>4, <2>4, <2>6, Restaged
  <2>9. ~z.g.stepped
    BY <1>0, <1>3, <2>2 DEF Good, StepIn
  <2>10. ~(z.g.ran /\ WantsAccessIn(v))
    <3>1. ~(z.g.ran /\ WantsAccessIn(z))
      BY <1>0, <1>3, <2>2 DEF Good, AccessIn
    <3>2. WantsAccessIn(v) => WantsAccessIn(z)
      <4>1. v.d.wps = z.d.wps /\ v.d.rw = z.d.rw /\ v.g = z.g /\ v.s.mode = z.s.mode
        BY <1>4, <2>4, <2>6 DEF Unmoved
      <4> QED BY <4>1 DEF WantsAccessIn
    <3> QED BY <3>1, <3>2
  <2>11. ~WantsPcIn(v)
    <3>1. v.d.bps = d.bps /\ v.d.exec = d.exec /\ z.d.bps = d.bps
      BY <1>3, <1>4, <2>6 DEF Unmoved
    <3>2. debugger_check_pc(v.d, v.m) <=> debugger_check_pc(d, z.m)
      BY <2>6, <3>1 DEF debugger_check_pc
    <3>3. <<"Z0", z.m.pc>> \notin z.g.asked
      <4>1. SUFFICES ASSUME <<"Z0", z.m.pc>> \in z.g.asked PROVE FALSE
        OBVIOUS
      <4>2. z.m.pc \in Addr
        BY <1>0 DEF Machines
      <4>3. Has(z.d.bps, [addr |-> z.m.pc, cond |-> None])
        BY <1>0, <4>1, <4>2 DEF Sound, AskedIn, InTables
      <4>4. debugger_check_pc(d, z.m)
        <5>1. PICK i \in DOMAIN d.bps : d.bps[i] = [addr |-> z.m.pc, cond |-> None]
          BY <3>1, <4>3 DEF Has
        <5>3. PICK p : p = [addr |-> z.m.pc, cond |-> None]
          OBVIOUS
        <5>4. p.addr = z.m.pc /\ p.cond = None
          BY <5>3
        <5>2. d.bps[i].addr = z.m.pc /\ d.bps[i].cond = None
          BY <5>1, <5>3, <5>4
        <5> QED BY <5>2 DEF debugger_check_pc, eval_cond
      <4> QED BY <2>2, <4>4
    <3> QED BY <2>2, <2>6, <3>1, <3>2, <3>3 DEF WantsPcIn
  <2>12. StepIn(v) /\ AccessIn(v) /\ GoIn(v)
    BY <2>4, <2>6, <2>9, <2>10, <2>11 DEF StepIn, AccessIn, GoIn, Moving
  <2>13. ViewIn(v)
    <3>1. ~z.d.active
      BY <1>3, <2>1
    <3> QED BY <1>7, <2>4, <2>6, <3>1 DEF ViewIn, Moving, ToldRunning
  <2>14. Good(v)
    BY <2>6, <2>8, <2>12, <2>13 DEF Good
  <2>15. y = v
    BY <1>5, <1>9, <2>3, <2>5 DEF States, GoOn
  <2> QED BY <2>14, <2>15
<1> QED BY <1>8, <1>9

LEMMA CheckStep ==
  ASSUME DebugInv, Check
  PROVE DebugInv'
<1>0. PICK z : z = Now
  OBVIOUS
<1>1. z.m = cpu /\ z.d = dbg /\ z.s = ses /\ Good(z)
  BY <1>0 DEF DebugInv, Now
<1>2. PICK a \in BOOLEAN : a = (z.d.active \/ (Legacy # None /\ z.m.pc = Legacy))
  OBVIOUS
<1>3. PICK d : d = [z.d EXCEPT !.active = a]
  OBVIOUS
<1>4. PICK b : b = IF d.active THEN d ELSE debugger_should_break(d, z.m)
  OBVIOUS
<1>5. PICK w : w = [z EXCEPT !.d = b]
  OBVIOUS
<1>6. PICK y : y = IF d.active \/ b.reason # "" THEN Stop(w) ELSE GoOn(w)
  OBVIOUS
<1>7. Become(y) /\ z.s.stage = "run"
  BY <1>0, <1>1, <1>2, <1>3, <1>4, <1>5, <1>6 DEF Check, GoOn
<1>8. d \in Debuggers /\ Unmoved(d, z.d) /\ (d.step <=> z.d.step) /\ (d.trig <=> z.d.trig)
      /\ (z.d.active => d.active)
  <2>1. z.d \in Debuggers
    BY <1>1 DEF Good, States
  <2> QED BY <1>2, <1>3, <2>1 DEF Debuggers, Unmoved
<1>10. /\ d.active => b = d
       /\ ~d.active => b = debugger_should_break(d, z.m)
       /\ d.active \/ b.reason # "" => y = Stop(w)
       /\ ~(d.active \/ b.reason # "") => y = GoOn(w)
  BY <1>4, <1>6
<1>9. Good(y)
  BY <1>1, <1>5, <1>7, <1>8, <1>10, CheckGood
<1> QED BY <1>7, <1>9, Became

\* An instruction: memory changes by a store only.
LEMMA ExecuteIs ==
  ASSUME NEW m \in Machines
  PROVE /\ Execute(m) \in Machines /\ Execute(m).line = m.line
        /\ Execute(m).cell # m.cell => Code[m.pc].op = "store"
        /\ Code[m.pc].op \in {"jmp", "jsr", "rts", "store", "load", "jam"} /\ Code[m.pc].lines \in Nat
<1> DEFINE i == Code[m.pc]
<1>1. m.pc \in Addr /\ m.stack \in Seq(Addr) /\ 1 \in Addr
  BY AddrIs DEF Machines
<1>2. i \in [op : {"jmp", "jsr", "rts", "store", "load", "jam"}, arg : Nat, lines : Nat]
  <2>1. m.pc \in 1 .. Len(Code)
    BY <1>1, AddrIs
  <2>2. Code \in Seq([op : {"jmp", "jsr", "rts", "store", "load", "jam"}, arg : Nat, lines : Nat])
    BY DebuggerAssumption
  <2> HIDE DEF Addr
  <2> QED BY <2>1, <2>2, ElementOfSeq
<1>3. /\ i.op \in {"jmp", "jsr"} => i.arg \in Addr
      /\ i.op \notin {"jmp", "rts", "jam"} => m.pc + 1 \in Addr
  <2>1. \A a \in Addr :
          /\ Code[a].op \in {"jmp", "jsr"} => Code[a].arg \in Addr
          /\ Code[a].op \notin {"jmp", "rts", "jam"} => a + 1 \in Addr
    BY DebuggerAssumption
  <2>2. PICK a : a = m.pc
    OBVIOUS
  <2>3. a \in Addr /\ i = Code[a]
    BY <1>1, <2>2
  <2>4. /\ Code[a].op \in {"jmp", "jsr"} => Code[a].arg \in Addr
        /\ Code[a].op \notin {"jmp", "rts", "jam"} => a + 1 \in Addr
    BY <2>1, <2>3
  <2> HIDE DEF i
  <2> QED BY <2>2, <2>3, <2>4
<1> HIDE DEF i
<1>4. Execute(m) =
        CASE i.op = "jmp"   -> [m EXCEPT !.pc = i.arg]
          [] i.op = "jsr"   -> [m EXCEPT !.pc = i.arg, !.stack = <<m.pc + 1>> \o m.stack]
          [] i.op = "rts"   -> IF m.stack = <<>> THEN [m EXCEPT !.pc = 1]
                               ELSE [m EXCEPT !.pc = Head(m.stack), !.stack = Tail(m.stack)]
          [] i.op = "store" -> [m EXCEPT !.pc = m.pc + 1, !.cell = i.arg]
          [] i.op = "jam"   -> [m EXCEPT !.jam = TRUE]
          [] OTHER          -> [m EXCEPT !.pc = m.pc + 1]
  BY DEF Execute, i, Machines
<1>5. PICK x : x = Execute(m)
  OBVIOUS
<1>6. x \in Machines /\ x.line = m.line /\ (x.cell # m.cell => i.op = "store")
  <2>1. CASE i.op = "jmp"
    <3>1. x = [m EXCEPT !.pc = i.arg]
      BY <1>4, <1>5, <2>1
    <3> QED BY <1>3, <2>1, <3>1 DEF Machines
  <2>2. CASE i.op = "jsr"
    <3>1. PICK s \in Seq(Addr) : s = <<m.pc + 1>> \o m.stack
      <4>1. m.pc + 1 \in Addr
        BY <1>3, <2>2
      <4>2. <<m.pc + 1>> \in Seq(Addr)
        BY <4>1
      <4> QED BY <1>1, <4>2, ConcatProperties
    <3>2. x = [m EXCEPT !.pc = i.arg, !.stack = s]
      BY <1>4, <1>5, <2>2, <3>1
    <3> QED BY <1>3, <2>2, <3>2 DEF Machines
  <2>3. CASE i.op = "rts" /\ m.stack = <<>>
    <3>1. x = [m EXCEPT !.pc = 1]
      BY <1>4, <1>5, <2>3
    <3> QED BY <1>1, <3>1 DEF Machines
  <2>4. CASE i.op = "rts" /\ m.stack # <<>>
    <3>1. PICK a \in Addr, s \in Seq(Addr) : a = Head(m.stack) /\ s = Tail(m.stack)
      BY <1>1, <2>4, HeadTailProperties
    <3>2. x = [m EXCEPT !.pc = a, !.stack = s]
      BY <1>4, <1>5, <2>4, <3>1
    <3> QED BY <3>2 DEF Machines
  <2>5. CASE i.op = "store"
    <3>1. x = [m EXCEPT !.pc = m.pc + 1, !.cell = i.arg]
      BY <1>4, <1>5, <2>5
    <3>2. m.pc + 1 \in Addr /\ i.arg \in Nat
      BY <1>2, <1>3, <2>5
    <3> QED BY <2>5, <3>1, <3>2 DEF Machines
  <2>6. CASE i.op = "jam"
    <3>1. x = [m EXCEPT !.jam = TRUE]
      BY <1>4, <1>5, <2>6
    <3> QED BY <3>1 DEF Machines
  <2>7. CASE i.op = "load"
    <3>1. x = [m EXCEPT !.pc = m.pc + 1]
      BY <1>4, <1>5, <2>7
    <3>2. m.pc + 1 \in Addr
      BY <1>3, <2>7
    <3> QED BY <3>1, <3>2 DEF Machines
  <2> QED BY <1>2, <2>1, <2>2, <2>3, <2>4, <2>5, <2>6, <2>7
<1> QED BY <1>2, <1>5, <1>6 DEF i

\* Its access to the cell, as the debugger and the trace are told of it.
Seen(d, k, v) == IF k = "none" THEN d ELSE watchpoint_trace_callback(d, k, v)
Noted(t, k) == IF k = "none" THEN t ELSE trace_note_mem_access(t, k)
AccessKinds == Accesses \cup {"none"}
LEMMA SeenIs ==
  ASSUME NEW d \in Debuggers, TracedIn(d), NEW k \in AccessKinds, NEW v \in Nat,
         NEW e, e = Seen(d, k, v)
  PROVE /\ e \in Debuggers /\ TracedIn(e) /\ Steady(e, d)
        /\ e.bps = d.bps /\ e.rw = d.rw
        /\ \A j : Watched(d.wps, j) <=> Watched(e.wps, j)
        /\ Fires(d, k) => e.trig
<1>1. CASE k = "none"
  <2>1. e = d
    BY <1>1 DEF Seen
  <2>2. "none" \notin d.rw
    BY DEF Debuggers
  <2> QED BY <1>1, <2>1, <2>2 DEF Steady, HitBy, Fires
<1>2. CASE k # "none"
  <2>1. PICK w \in Seq(Watches), t \in BOOLEAN :
          /\ watchpoint_trace_callback(d, k, v) = [d EXCEPT !.wps = w, !.trig = t]
          /\ (w = <<>>) <=> (d.wps = <<>>)
          /\ \A j : Watched(d.wps, j) <=> Watched(w, j)
          /\ Fires(d, k) => t
    <3>1. k \in Accesses
      BY <1>2 DEF AccessKinds
    <3> QED BY <3>1, Callback
  <2>2. e = [d EXCEPT !.wps = w, !.trig = t]
    BY <1>2, <2>1 DEF Seen
  <2>3. e \in Debuggers /\ e.wps = w /\ (e.trig <=> t) /\ e.bps = d.bps /\ e.rw = d.rw /\ (e.traced <=> d.traced)
        /\ Steady(e, d)
    BY <2>2 DEF Debuggers, Steady
  <2>4. TracedIn(e)
    BY <2>1, <2>3 DEF TracedIn
  <2> QED BY <2>1, <2>3, <2>4
<1> QED BY <1>1, <1>2

\* The instruction runs: what it does to a watched cell is not lost.
Beam(m) == ((m.line - 1 + Code[m.pc].lines) % Lines) + 1
After(z) ==
  LET kind == AccessKind(Code[z.m.pc])
      m == Execute(z.m)
      w == Logged(z.t, z.g.log, z.m.pc)
  IN  [m |-> [m EXCEPT !.line = Beam(z.m)], d |-> Seen(z.d, kind, m.cell),
       t |-> Noted(trace_log_instruction(z.t, z.m.pc), kind),
       s |-> [z.s EXCEPT !.stage = IF m.jam \/ Beam(z.m) < z.m.line THEN "frame" ELSE "run"],
       g |-> [z.g EXCEPT !.ran = TRUE, !.access = IF m.cell # z.m.cell THEN "change" ELSE kind,
                         !.log = Capped(w)]]
LEMMA ExecGood ==
  ASSUME NEW z, Good(z), z.s.stage = "go"
  PROVE Good(After(z))
<1>30. PICK kind, m, c : kind = AccessKind(Code[z.m.pc]) /\ m = Execute(z.m) /\ c = m.cell
  OBVIOUS
<1>31. PICK l, t, w, v :
          /\ l = Beam(z.m) /\ t = trace_log_instruction(z.t, z.m.pc)
          /\ w = Logged(z.t, z.g.log, z.m.pc) /\ v = Capped(w)
  OBVIOUS
<1>32. PICK n : n = [m EXCEPT !.line = l]
  OBVIOUS
<1>33. PICK s : s = [z.s EXCEPT !.stage = IF m.jam \/ l < z.m.line THEN "frame" ELSE "run"]
  OBVIOUS
<1>34. PICK g : g = [z.g EXCEPT !.ran = TRUE, !.access = IF m.cell # z.m.cell THEN "change" ELSE kind,
                               !.log = v]
  OBVIOUS
<1>35. PICK y : y = [m |-> n, d |-> Seen(z.d, kind, c), t |-> Noted(t, kind), s |-> s, g |-> g]
  OBVIOUS
<1>36. After(z) = y
  BY <1>30, <1>31, <1>32, <1>33, <1>34, <1>35 DEF After
<1>0. z \in States /\ Sound(z) /\ z.s.running /\ z.d \in Debuggers /\ z.m \in Machines
      /\ z.s \in Sessions /\ z.g \in Views /\ z.t \in Traces /\ z.m.pc \in Addr /\ TracedIn(z.d)
      /\ z.g.log \in Seq(Addr) /\ LogIn(z.t, z.g.log)
  BY DEF Good, ViewIn, States, Machines, Views, Sound
<1>1. /\ m \in Machines /\ m.line = z.m.line /\ (m.cell # z.m.cell => Code[z.m.pc].op = "store")
      /\ Code[z.m.pc].op \in {"jmp", "jsr", "rts", "store", "load", "jam"} /\ Code[z.m.pc].lines \in Nat
  BY <1>0, <1>30, ExecuteIs
<1>2. kind \in {"none", "r", "w"} /\ (Code[z.m.pc].op = "store" => kind = "w")
  BY <1>1, <1>30 DEF AccessKind
<1>3. l \in 1 .. Lines
  <2>1. z.m.line \in 1 .. Lines /\ Lines \in Nat \ {0}
    BY <1>0, DebuggerAssumption DEF Machines
  <2>6. PICK a \in 1 .. Lines, b \in Nat : a = z.m.line /\ b = Code[z.m.pc].lines
    BY <1>1, <2>1
  <2>2. PICK r : r = (a - 1 + b) % Lines
    OBVIOUS
  <2>3. a - 1 + b \in Nat
    BY <2>1, <2>6
  <2>4. r \in 0 .. Lines - 1
    BY <2>1, <2>2, <2>3
  <2>5. l = r + 1
    BY <1>31, <2>2, <2>6 DEF Beam
  <2> QED BY <2>1, <2>4, <2>5
<1>4. n \in Machines
  BY <1>1, <1>3, <1>32 DEF Machines
<1>5. PICK e : e = Seen(z.d, kind, c)
  OBVIOUS
<1>6. c \in Nat
  BY <1>1, <1>30 DEF Machines
<1>7. /\ e \in Debuggers /\ TracedIn(e) /\ Steady(e, z.d)
      /\ e.bps = z.d.bps /\ e.rw = z.d.rw
      /\ \A j : Watched(z.d.wps, j) <=> Watched(e.wps, j)
      /\ Fires(z.d, kind) => e.trig
  <2>1. z.d \in Debuggers /\ TracedIn(z.d)
    BY <1>0
  <2>2. kind \in AccessKinds
    BY <1>2 DEF Accesses, AccessKinds
  <2>3. PICK d : d = z.d
    OBVIOUS
  <2>4. d \in Debuggers /\ TracedIn(d) /\ e = Seen(d, kind, c)
    BY <1>5, <2>1, <2>3
  <2>5. e \in Debuggers /\ TracedIn(e) /\ Steady(e, d)
    BY <1>6, <2>2, <2>4, SeenIs
  <2>6. e.bps = d.bps /\ e.rw = d.rw
    BY <1>6, <2>2, <2>4, SeenIs
  <2>7. \A j : Watched(d.wps, j) <=> Watched(e.wps, j)
    BY <1>6, <2>2, <2>4, SeenIs
  <2>8. Fires(d, kind) => e.trig
    BY <1>6, <2>2, <2>4, SeenIs
  <2> QED BY <2>3, <2>5, <2>6, <2>7, <2>8
<1>8. t \in Traces /\ LogIn(t, v) /\ v \in Seq(Addr)
  BY <1>0, <1>31, TraceLog
<1>9. PICK u \in Traces : u = Noted(t, kind) /\ LogIn(u, v)
  BY <1>2, <1>8, TraceNote DEF Noted
<1>10. s \in Sessions /\ s.stage \in {"run", "frame"} /\ s.mode = z.s.mode /\ s.running
       /\ (s.resumed <=> z.s.resumed)
  BY <1>0, <1>33 DEF Sessions
<1>11. PICK a \in {"none", "r", "w", "change"} : a = IF m.cell # z.m.cell THEN "change" ELSE kind
  BY <1>2
<1>12. g = [z.g EXCEPT !.ran = TRUE, !.access = a, !.log = v]
  BY <1>11, <1>34
<1>13. g \in Views /\ g.ran /\ g.access = a /\ g.log = v /\ g.asked = z.g.asked /\ g.undo = z.g.undo
       /\ (g.stepped <=> z.g.stepped) /\ g.view = z.g.view /\ (g.twice <=> z.g.twice)
  BY <1>0, <1>8, <1>12 DEF Views
<1>14. Kind(g) = kind
  BY <1>1, <1>2, <1>11, <1>13 DEF Kind
<1>15. y \in States /\ y.m = n /\ y.d = e /\ y.t = u /\ y.s = s /\ y.g = g
  BY <1>4, <1>5, <1>7, <1>9, <1>10, <1>13, <1>35 DEF States
<1>16. Sound(y)
  <2>1. RingIn(e, g.undo)
    BY <1>0, <1>7, <1>13 DEF Sound, RingIn, Steady
  <2>2. AskedIn(e, s, g)
    <3>1. AskedIn(z.d, z.s, z.g)
      BY <1>0 DEF Sound
    <3> QED BY <1>7, <1>10, <1>13, <3>1 DEF AskedIn, InTables
  <2> QED BY <1>7, <1>9, <1>13, <1>15, <2>1, <2>2 DEF Sound
<1>17. StepIn(y)
  <2>1. e.step <=> z.d.step
    BY <1>7 DEF Steady
  <2> QED BY <1>13, <1>15, <2>1 DEF Good, StepIn
<1>18. AccessIn(y)
  <2>1. SUFFICES ASSUME WantsAccessIn(y) PROVE y.d.trig
    BY DEF AccessIn
  <2>2. CASE kind \in e.rw
    BY <1>0, <1>7, <1>15, <2>2 DEF Fires
  <2>3. CASE \E i \in DOMAIN e.wps : HitBy(kind, e.wps[i].mode)
    <3>1. PICK i \in DOMAIN e.wps : HitBy(kind, e.wps[i].mode)
      BY <2>3
    <3>2. e.wps[i].mode \in Modes /\ Watched(e.wps, e.wps[i].mode)
      <4>1. e.wps \in Seq(Watches)
        BY <1>7 DEF Debuggers
      <4>2. e.wps[i] \in Watches
        BY <4>1
      <4> QED BY <4>2 DEF Watches, Watched
    <3> QED BY <1>0, <1>7, <1>15, <3>1, <3>2 DEF Fires
  <2>4. CASE \E j \in Modes : <<"Z2", j>> \in g.asked /\ HitBy(kind, j)
    <3>1. PICK j \in Modes : <<"Z2", j>> \in g.asked /\ HitBy(kind, j)
      BY <2>4
    <3>2. Watched(e.wps, j)
      BY <1>15, <1>16, <3>1 DEF Sound, AskedIn, InTables
    <3> QED BY <1>0, <1>7, <1>15, <3>1, <3>2 DEF Fires
  <2>5. Kind(y.g) = kind /\ y.d = e /\ y.g = g
    BY <1>14, <1>15
  <2>6. \/ kind \in e.rw
        \/ \E i \in DOMAIN e.wps : HitBy(kind, e.wps[i].mode)
        \/ \E j \in Modes : <<"Z2", j>> \in g.asked /\ HitBy(kind, j)
    BY <2>1, <2>5 DEF WantsAccessIn
  <2> QED BY <2>2, <2>3, <2>4, <2>6
<1>19. GoIn(y)
  BY <1>10, <1>15 DEF GoIn
<1>20. ViewIn(y)
  BY <1>10, <1>13, <1>15 DEF Good, ViewIn, ToldRunning
<1> QED BY <1>15, <1>16, <1>17, <1>18, <1>19, <1>20, <1>36 DEF Good

LEMMA ExecStep ==
  ASSUME DebugInv, Exec
  PROVE DebugInv'
<1>1. PICK z : z = Now
  OBVIOUS
<1>2. z.m = cpu /\ z.d = dbg /\ z.t = trace /\ z.s = ses /\ z.g = seen /\ Good(z)
  BY <1>1 DEF DebugInv, Now
<1>3. Become(After(z)) /\ z.s.stage = "go"
  BY <1>2 DEF Exec, After, Seen, Noted, Logged, Capped, Beam
<1> QED BY <1>2, <1>3, ExecGood, Became

\* A message of the client arrives, or is dropped.
LEMMA InboxGood ==
  ASSUME NEW z, Good(z), NEW i \in {"none", "pause", "eof"},
         NEW s, s = [z.s EXCEPT !.inbox = i],
         NEW y, y = [z EXCEPT !.s = s]
  PROVE Good(y)
<1>0. z \in States /\ z.s \in Sessions /\ Sound(z)
  BY DEF Good, States
<1>1. s \in Sessions /\ s.stage = z.s.stage /\ s.mode = z.s.mode /\ (s.running <=> z.s.running)
      /\ (s.resumed <=> z.s.resumed)
  BY <1>0 DEF Sessions
<1>2. y \in States /\ y.m = z.m /\ y.d = z.d /\ y.t = z.t /\ y.s = s /\ y.g = z.g
  BY <1>0, <1>1 DEF States
<1>3. Sound(y)
  <2>1. Unmoved(y.d, z.d)
    BY <1>2 DEF Unmoved
  <2> QED BY <1>0, <1>1, <1>2, <2>1, Restaged
<1>4. Moving(s) <=> Moving(z.s)
  BY <1>1 DEF Moving
<1>5. StepIn(y) /\ AccessIn(y)
  <2>1. WantsAccessIn(y) <=> WantsAccessIn(z)
    BY <1>1, <1>2 DEF WantsAccessIn
  <2> QED BY <1>1, <1>2, <1>4, <2>1 DEF Good, StepIn, AccessIn
<1>6. GoIn(y)
  <2>1. WantsAccessIn(y) <=> WantsAccessIn(z)
    BY <1>1, <1>2 DEF WantsAccessIn
  <2>2. WantsPcIn(y) <=> WantsPcIn(z)
    BY <1>1, <1>2 DEF WantsPcIn
  <2> QED BY <1>1, <1>2, <2>1, <2>2 DEF Good, GoIn
<1>7. ViewIn(y)
  <2>1. ToldRunning(y) <=> ToldRunning(z)
    BY <1>1, <1>2 DEF ToldRunning
  <2>2. ViewIn(z)
    BY DEF Good
  <2> QED BY <1>1, <1>2, <1>4, <2>1, <2>2 DEF ViewIn
<1> QED BY <1>2, <1>3, <1>5, <1>6, <1>7 DEF Good

LEMMA InterruptStep ==
  ASSUME DebugInv, NEW msg \in {"pause", "eof"}, Interrupt(msg)
  PROVE DebugInv'
<1>1. PICK z : z = Now
  OBVIOUS
<1>2. PICK s : s = [z.s EXCEPT !.inbox = msg]
  OBVIOUS
<1>3. PICK y : y = [z EXCEPT !.s = s]
  OBVIOUS
<1>4. Good(z)
  BY <1>1 DEF DebugInv
<1>5. Good(y)
  BY <1>2, <1>3, <1>4, InboxGood
<1>6. Now' = y
  BY <1>1, <1>2, <1>3 DEF Interrupt, Now
<1>7. Good(Now')
  BY <1>5, <1>6
<1> QED BY <1>7 DEF DebugInv

\* What came in the meantime is read first.
LEMMA LeftoverStep ==
  ASSUME DebugInv, Leftover
  PROVE DebugInv'
<1>1. PICK z : z = Now
  OBVIOUS
<1>2. Good(z) /\ z.s = ses
  BY <1>1 DEF DebugInv, Now
<1>3. z \in States /\ Sound(z) /\ z.s.stage = "stopped" /\ z.s.running /\ z.s \in Sessions
      /\ (z.s.mode \in {"control", "gdb"} => ~z.g.twice)
  BY <1>2 DEF Good, ViewIn, Leftover, States
<1>4. Good(gdb_disconnect(z))
  BY <1>3, DisconnectGood
<1>5. Good(Quit(z))
  BY <1>3, QuitGood
<1>6. PICK s : s = [z.s EXCEPT !.inbox = "none"]
  OBVIOUS
<1>7. PICK y : y = [z EXCEPT !.s = s]
  OBVIOUS
<1>8. Good(y)
  BY <1>2, <1>6, <1>7, InboxGood
<1>9. y = [z EXCEPT !.s.inbox = "none"]
  BY <1>3, <1>6, <1>7 DEF States
<1>10. \/ Become(gdb_disconnect(z)) \/ Become(Quit(z)) \/ Become(y)
  BY <1>1, <1>9 DEF Leftover
<1> QED BY <1>4, <1>5, <1>8, <1>10, Became

\* A command leaves the machine stopped, and the tables sound.
LEMMA CalmGood ==
  ASSUME NEW z, Good(z), z.s.stage = "stopped", NEW n \in Nat,
         NEW s, s = [z.s EXCEPT !.left = n],
         NEW w, w = [z EXCEPT !.s = s], NEW y, Calm(y, w)
  PROVE Good(y)
<1>0. z \in States /\ z.s \in Sessions
  BY DEF Good, States
<1>1. s \in Sessions /\ s.stage = "stopped" /\ s.mode = z.s.mode /\ (s.running <=> z.s.running)
  BY <1>0 DEF Sessions
<1>2. w.s = s /\ w.g = z.g
  BY <1>0 DEF States
<1>3. y \in States /\ Sound(y) /\ y.s = s /\ y.g.view = z.g.view /\ y.g.twice = z.g.twice
  BY <1>2 DEF Calm
<1> QED BY <1>1, <1>3, StoppedGood DEF Good, ViewIn

LEMMA CommandStep ==
  ASSUME DebugInv, NEW c \in Edits(ses.mode, dbg), Command(c)
  PROVE DebugInv'
<1>1. PICK z : z = Now
  OBVIOUS
<1>2. Good(z) /\ z.s = ses /\ z.d = dbg /\ z.g = seen /\ z \in States /\ Sound(z) /\ z.s \in Sessions
      /\ z.s.stage = "stopped"
  BY <1>1 DEF DebugInv, Now, Good, States, Command
<1>3. PICK n \in Nat : n = ses.left - 1
  BY <1>2 DEF Sessions, Command
<1>4. PICK s : s = [z.s EXCEPT !.left = n]
  OBVIOUS
<1>5. PICK w : w = [z EXCEPT !.s = s]
  OBVIOUS
<1>6. s \in Sessions /\ s.stage = "stopped" /\ s.mode = ses.mode
  BY <1>2, <1>4 DEF Sessions
<1>7. w \in States /\ w.s = s /\ w.d = dbg /\ w.g = seen /\ w.t = z.t
  BY <1>2, <1>5, <1>6 DEF States
<1>8. Sound(w)
  <2>1. Unmoved(w.d, z.d)
    BY <1>2, <1>7 DEF Unmoved
  <2> QED BY <1>2, <1>6, <1>7, <2>1, Restaged
<1>9. w = [z EXCEPT !.s.left = @ - 1]
  BY <1>2, <1>3, <1>4, <1>5 DEF States, Sessions
<1>10. Become(CASE ses.mode = "gdb"     -> gdb_dispatch(w, c[1], c[2])
                [] ses.mode = "control" -> control_edit(w, c[1], c[2])
                [] OTHER                -> repl_edit(w, c[1], c[2]))
  BY <1>1, <1>9 DEF Command
<1>11. BreakAt \subseteq Addr /\ Len(Code) \in Addr /\ Lines \in Nat
  BY AddrIs, SessionAssumption, DebuggerAssumption
<1>12. CASE ses.mode = "gdb"
  <2>1. \/ c[1] \in {"Z0", "z0"} /\ c[2] \in Addr
        \/ c[1] \in {"Z2", "z2"} /\ c[2] \in Modes \ {"change"}
        \/ c[1] \in {"write", "pc"} /\ Fits(c[1], c[2], dbg)
    BY <1>11, <1>12 DEF Edits, Fits
  <2>2. c[1] = "Z2" => ~\E a \in seen.asked : a[1] = "Z2"
    BY DEF Command, Careful
  <2>3. c[1] = "z2" => <<"Z2", c[2]>> \in seen.asked
    BY DEF Command, Careful
  <2>4. PICK k, x : k = c[1] /\ x = c[2]
    OBVIOUS
  <2>5. Calm(gdb_dispatch(w, k, x), w)
    BY <1>6, <1>7, <1>8, <1>12, <2>1, <2>2, <2>3, <2>4, GdbEdit
  <2>6. Become(gdb_dispatch(w, k, x))
    BY <1>10, <1>12, <2>4
  <2>7. Good(gdb_dispatch(w, k, x))
    BY <1>2, <1>4, <1>5, <2>5, CalmGood
  <2> QED BY <2>6, <2>7, Became
<1>13. CASE ses.mode # "gdb"
  <2>4. PICK k, x : k = c[1] /\ x = c[2]
    OBVIOUS
  <2>1. Fits(k, x, dbg) \/ (ses.mode # "control" /\ (k = "undo" \/ (k = "bad-condition" /\ x \in Addr)))
    <3>1. 1 \in Addr /\ 1 \in Nat
      BY AddrIs
    <3>2. \/ c \in {"break", "cond", "exec"} \X BreakAt \/ c \in {"pc"} \X {Len(Code)}
          \/ c \in {"unbreak"} \X DOMAIN dbg.bps \/ c \in {"watch"} \X Modes
          \/ c \in {"unwatch"} \X DOMAIN dbg.wps \/ c \in {"region"} \X {{"r", "w"}}
          \/ c \in {"clear", "reset", "trace-off"} \X {0} \/ c \in {"raster"} \X {Lines}
          \/ c \in {"unraster"} \X {i \in 1 .. Slots : dbg.raster[i] # None}
          \/ c \in {"write"} \X {1} \/ c \in {"trace"} \X {<<2, "r">>}
          \/ ses.mode # "control" /\ c \in {"undo", "bad-condition"} \X {1}
      BY <1>13 DEF Edits
    <3>3. CASE c \in {"break", "cond", "exec"} \X BreakAt \/ c \in {"pc"} \X {Len(Code)}
      BY <1>11, <2>4, <3>3 DEF Fits
    <3>4. CASE c \in {"unbreak"} \X DOMAIN dbg.bps
      BY <2>4, <3>4 DEF Fits
    <3>5. CASE c \in {"watch"} \X Modes
      BY <2>4, <3>5 DEF Fits
    <3>6. CASE c \in {"unwatch"} \X DOMAIN dbg.wps
      BY <2>4, <3>6 DEF Fits
    <3>7. CASE c \in {"region"} \X {{"r", "w"}}
      BY <2>4, <3>7 DEF Fits
    <3>8. CASE c \in {"clear", "reset", "trace-off"} \X {0}
      BY <2>4, <3>8 DEF Fits
    <3>9. CASE c \in {"raster"} \X {Lines} \/ c \in {"write"} \X {1}
      BY <1>11, <2>4, <3>1, <3>9 DEF Fits
    <3>10. CASE c \in {"unraster"} \X {i \in 1 .. Slots : dbg.raster[i] # None}
      BY <2>4, <3>10 DEF Fits
    <3>11. CASE c \in {"trace"} \X {<<2, "r">>}
      BY <2>4, <3>11 DEF Fits
    <3>12. CASE ses.mode # "control" /\ c \in {"undo", "bad-condition"} \X {1}
      BY <2>4, <3>1, <3>12
    <3> QED BY <3>2, <3>3, <3>4, <3>5, <3>6, <3>7, <3>8, <3>9, <3>10, <3>11, <3>12
  <2>2. CASE ses.mode = "control"
    <3>1. Calm(control_edit(w, k, x), w)
      BY <1>6, <1>7, <1>8, <1>13, <2>1, <2>2, ControlEdit
    <3>2. Become(control_edit(w, k, x))
      BY <1>10, <2>2, <2>4
    <3>3. Good(control_edit(w, k, x))
      BY <1>2, <1>4, <1>5, <3>1, CalmGood
    <3> QED BY <3>2, <3>3, Became
  <2>3. CASE ses.mode # "control"
    <3>1. Calm(repl_edit(w, k, x), w)
      BY <1>6, <1>7, <1>8, <1>13, <2>1, ReplEdit
    <3>2. Become(repl_edit(w, k, x))
      BY <1>10, <1>13, <2>3, <2>4
    <3>3. Good(repl_edit(w, k, x))
      BY <1>2, <1>4, <1>5, <3>1, CalmGood
    <3> QED BY <3>2, <3>3, Became
  <2> QED BY <2>2, <2>3
<1> QED BY <1>12, <1>13

\* The debugger of a machine that is resumed.
LEMMA ResumersAre ==
  ASSUME NEW d \in Debuggers, NEW m \in Machines
  PROVE /\ Go(d) \in Debuggers /\ Unmoved(Go(d), d)
        /\ Step(d) \in Debuggers /\ Unmoved(Step(d), d) /\ Step(d).step
        /\ StepOver(d, m) \in Debuggers /\ Unmoved(StepOver(d, m), d)
        /\ Code[m.pc].op # "jsr" => StepOver(d, m).step
        /\ StepOut(d, m) \in Debuggers /\ Unmoved(StepOut(d, m), d)
<1>1. PICK g : g = Go(d)
  OBVIOUS
<1>2. g \in Debuggers /\ Unmoved(g, d)
  BY <1>1 DEF Go, Debuggers, Unmoved
<1>3. PICK s : s = Step(d)
  OBVIOUS
<1>4. s \in Debuggers /\ Unmoved(s, d) /\ s.step
  BY <1>3 DEF Step, Debuggers, Unmoved
<1>5. m.pc \in Addr /\ m.stack \in Seq(Addr) /\ 1 \in Addr
  BY AddrIs DEF Machines
<1>6. ASSUME NEW a \in Addr, NEW f, f = [g EXCEPT !.temp = a]
      PROVE f \in Debuggers /\ Unmoved(f, d)
  BY <1>2, <1>6 DEF Debuggers, Unmoved
<1>7. StepOver(d, m) \in Debuggers /\ Unmoved(StepOver(d, m), d)
      /\ (Code[m.pc].op # "jsr" => StepOver(d, m).step)
  <2>1. CASE Code[m.pc].op = "jsr"
    <3>1. Code[m.pc].op \notin {"jmp", "rts", "jam"}
      BY <2>1
    <3>2. PICK a \in Addr : a = m.pc + 1
      BY <1>5, <3>1, DebuggerAssumption
    <3>3. PICK f : f = [g EXCEPT !.temp = a]
      OBVIOUS
    <3>4. StepOver(d, m) = f
      BY <1>1, <2>1, <3>2, <3>3 DEF StepOver
    <3> QED BY <1>6, <2>1, <3>3, <3>4
  <2>2. CASE Code[m.pc].op # "jsr"
    BY <1>3, <1>4, <2>2 DEF StepOver
  <2> QED BY <2>1, <2>2
<1>8. StepOut(d, m) \in Debuggers /\ Unmoved(StepOut(d, m), d)
  <2>1. PICK a \in Addr : a = IF m.stack = <<>> THEN 1 ELSE m.stack[1]
    <3>1. m.stack # <<>> => m.stack[1] \in Addr
      <4> PICK q \in Seq(Addr) : q = m.stack
        BY <1>5
      <4>1. q # <<>> => q[1] \in Addr
        BY EmptySeq, HeadTailProperties
      <4> QED BY <4>1
    <3> QED BY <1>5, <3>1
  <2>2. PICK f : f = [g EXCEPT !.temp = a]
    OBVIOUS
  <2>3. StepOut(d, m) = f
    BY <1>1, <2>1, <2>2 DEF StepOut
  <2> QED BY <1>6, <2>2, <2>3
<1> QED BY <1>1, <1>2, <1>3, <1>4, <1>7, <1>8

LEMMA ControlResumeGood ==
  ASSUME NEW z \in States, Sound(z), z.s.running, z.s.mode # "gdb",
         z.s.mode = "control" => ~z.g.twice,
         NEW c \in {"step", "next", "step-out", "continue", "quit"}
  PROVE Good(control_resume(z, c))
<1>0. z.d \in Debuggers /\ z.m \in Machines /\ (z.s.mode \in {"control", "gdb"} => ~z.g.twice)
  BY DEF States
<1>1. ASSUME NEW d \in Debuggers, Unmoved(d, z.d), NEW k, Stepping(k) => d.step
      PROVE Good(Resume(z, d, k))
  BY <1>0, <1>1, ResumeGood
<1>2. CASE c = "step"
  <2>1. control_resume(z, c) = Resume(z, Step(z.d), "step")
    BY <1>2 DEF control_resume
  <2> QED BY <1>0, <1>1, <2>1, ResumersAre
<1>3. CASE c = "next"
  <2>1. PICK k : k = IF Code[z.m.pc].op = "jsr" THEN "next" ELSE "step"
    OBVIOUS
  <2>2. control_resume(z, c) = Resume(z, StepOver(z.d, z.m), k)
    BY <1>3, <2>1 DEF control_resume
  <2>3. Stepping(k) => StepOver(z.d, z.m).step
    BY <1>0, <2>1, ResumersAre DEF Stepping
  <2> QED BY <1>0, <1>1, <2>2, <2>3, ResumersAre
<1>4. CASE c = "step-out"
  <2>1. control_resume(z, c) = Resume(z, StepOut(z.d, z.m), "out") /\ ~Stepping("out")
    BY <1>4 DEF control_resume, Stepping
  <2> QED BY <1>0, <1>1, <2>1, ResumersAre
<1>5. CASE c = "continue"
  <2>1. control_resume(z, c) = Resume(z, Go(z.d), "continue") /\ ~Stepping("continue")
    BY <1>5 DEF control_resume, Stepping
  <2> QED BY <1>0, <1>1, <2>1, ResumersAre
<1>6. CASE c = "quit"
  <2>1. control_resume(z, c) = Quit(z)
    BY <1>6 DEF control_resume
  <2> QED BY <1>0, <2>1, QuitGood
<1> QED BY <1>2, <1>3, <1>4, <1>5, <1>6

\* The command line saves what it may have to restore.
LEMMA PushedSound ==
  ASSUME NEW z \in States, Sound(z), NEW y, y = Pushed(z)
  PROVE y \in States /\ Sound(y) /\ y.s = z.s /\ y.m = z.m /\ y.g.twice = z.g.twice
<1>0. z.d \in Debuggers /\ z.m \in Machines /\ z.g \in Views /\ z.g.undo \in Seq(Snapshots)
      /\ RingIn(z.d, z.g.undo) /\ z.s \in Sessions
  BY DEF States, Views, Sound
<1>1. PICK x : x = [pc |-> z.m.pc, stack |-> z.m.stack, cell |-> z.m.cell, jam |-> z.m.jam]
  OBVIOUS
<1>2. x \in Snapshots
  BY <1>0, <1>1 DEF Machines, Snapshots
<1>3. PICK e, v : e = Snapped(z.d, x) /\ v = Kept(z.g.undo, x)
  OBVIOUS
<1>4. e \in Debuggers /\ v \in Seq(Snapshots) /\ RingIn(e, v)
  BY <1>0, <1>2, <1>3, Push
<1>5. e.bps = z.d.bps /\ e.wps = z.d.wps /\ e.rw = z.d.rw /\ e.traced = z.d.traced
  BY <1>0, <1>3 DEF Snapped, Debuggers
<1>6. PICK g : g = [z.g EXCEPT !.undo = v]
  OBVIOUS
<1>7. g \in Views /\ g.undo = v /\ g.asked = z.g.asked /\ g.log = z.g.log /\ g.twice = z.g.twice
  BY <1>0, <1>4, <1>6 DEF Views
<1>8. y = [z EXCEPT !.d = e, !.g = g]
  <2>1. e = dbg_undo_push(z.d, z.m)
    BY <1>1, <1>3 DEF Snapped, dbg_undo_push
  <2>2. v = LET u == Append(z.g.undo, x) IN IF Len(u) > Depth THEN Tail(u) ELSE u
    BY <1>3 DEF Kept
  <2>3. y = [z EXCEPT !.d = e, !.g.undo = v]
    BY <1>1, <2>1, <2>2 DEF Pushed, States, Views
  <2> QED BY <1>6, <2>3 DEF States
<1>9. y \in States /\ y.d = e /\ y.m = z.m /\ y.t = z.t /\ y.s = z.s /\ y.g = g
  BY <1>4, <1>7, <1>8 DEF States
<1>10. Sound(y)
  BY <1>4, <1>5, <1>7, <1>9 DEF Sound, TracedIn, AskedIn, InTables
<1> QED BY <1>7, <1>9, <1>10

LEMMA GdbResumeGood ==
  ASSUME NEW z \in States, Sound(z), z.s.running, z.s.mode = "gdb", ~z.g.twice,
         NEW c \in {"step", "continue", "detach", "kill"}
  PROVE Good(gdb_resume(z, c))
<1>0. z.d \in Debuggers /\ z.m \in Machines /\ z.s \in Sessions
  BY DEF States
<1>1. CASE c \in {"step", "continue"}
  <2>1. PICK s : s = [z.s EXCEPT !.resumed = TRUE]
    OBVIOUS
  <2>2. s \in Sessions /\ s.resumed /\ s.mode = "gdb" /\ (s.running <=> z.s.running)
    BY <1>0, <2>1 DEF Sessions
  <2>3. PICK x : x = [z EXCEPT !.s = s]
    OBVIOUS
  <2>4. x \in States /\ x.s = s /\ x.d = z.d /\ x.t = z.t /\ x.g = z.g
    BY <2>2, <2>3 DEF States
  <2>5. Sound(x)
    <3>1. Unmoved(x.d, z.d)
      BY <2>4 DEF Unmoved
    <3> QED BY <2>2, <2>4, <3>1, Restaged
  <2>6. PICK d : d = IF c = "step" THEN Step(z.d) ELSE Go(z.d)
    OBVIOUS
  <2>7. d \in Debuggers /\ Unmoved(d, z.d) /\ (c = "step" => d.step)
    BY <1>0, <2>6, ResumersAre
  <2>8. gdb_resume(z, c) = Resume(x, d, c)
    BY <1>1, <2>1, <2>3, <2>6 DEF gdb_resume, States
  <2>9. Stepping(c) => d.step
    BY <2>7 DEF Stepping
  <2> QED BY <2>2, <2>4, <2>5, <2>7, <2>8, <2>9, ResumeGood
<1>2. CASE c = "detach"
  BY <1>2, DisconnectGood DEF gdb_resume
<1>3. CASE c = "kill"
  <2>1. PICK v : v = gdb_disconnect(z)
    OBVIOUS
  <2>2. Good(v)
    BY <2>1, DisconnectGood
  <2>3. v \in States /\ Sound(v) /\ v.s \in Sessions /\ (v.s.mode \in {"control", "gdb"} => ~v.g.twice)
    BY <2>2 DEF Good, ViewIn, States
  <2>4. PICK s : s = [v.s EXCEPT !.running = FALSE, !.stage = "frame"]
    OBVIOUS
  <2>5. s \in Sessions /\ s.stage = "frame" /\ ~s.running /\ s.mode = v.s.mode
    BY <2>3, <2>4 DEF Sessions
  <2>6. PICK y : y = [v EXCEPT !.s = s]
    OBVIOUS
  <2>7. y \in States /\ y.s = s /\ y.d = v.d /\ y.t = v.t /\ y.g = v.g
    BY <2>3, <2>5, <2>6 DEF States
  <2>8. gdb_resume(z, c) = y
    BY <1>3, <2>1, <2>3, <2>4, <2>6 DEF gdb_resume, States
  <2>9. Sound(y)
    <3>1. Unmoved(y.d, v.d)
      BY <2>7 DEF Unmoved
    <3> QED BY <2>3, <2>5, <2>7, <3>1, Restaged
  <2>10. Good(y)
    BY <2>3, <2>5, <2>7, <2>9, LeavingGood
  <2> QED BY <2>8, <2>10
<1> QED BY <1>1, <1>2, <1>3

LEMMA ContinueStep ==
  ASSUME DebugInv, NEW c \in Resumes(ses.mode), Continue(c)
  PROVE DebugInv'
<1>1. PICK z : z = Now
  OBVIOUS
<1>2. Good(z) /\ z.s = ses /\ z \in States /\ Sound(z) /\ z.s \in Sessions /\ z.s.stage = "stopped"
      /\ z.s.running /\ (ses.mode \in {"control", "gdb"} => ~z.g.twice)
  BY <1>1 DEF DebugInv, Now, Good, ViewIn, States, Continue
<1>3. PICK n \in Nat : n = IF c = "continue" THEN ses.moves ELSE ses.moves - 1
  BY <1>2 DEF Sessions, Continue
<1>4. PICK s : s = [z.s EXCEPT !.moves = n]
  OBVIOUS
<1>5. PICK w : w = [z EXCEPT !.s = s]
  OBVIOUS
<1>6. s \in Sessions /\ s.running /\ s.mode = ses.mode
  BY <1>2, <1>4 DEF Sessions
<1>7. w \in States /\ w.s = s /\ w.d = z.d /\ w.g = z.g /\ w.t = z.t
  BY <1>2, <1>5, <1>6 DEF States
<1>8. Sound(w)
  <2>1. Unmoved(w.d, z.d)
    BY <1>7 DEF Unmoved
  <2> QED BY <1>2, <1>6, <1>7, <2>1, Restaged
<1>9. w = IF c = "continue" THEN z ELSE [z EXCEPT !.s.moves = @ - 1]
  <2>1. CASE c = "continue"
    <3>1. s = z.s
      BY <1>2, <1>3, <1>4, <2>1 DEF Sessions
    <3> QED BY <1>2, <1>5, <2>1, <3>1 DEF States
  <2>2. CASE c # "continue"
    BY <1>2, <1>3, <1>4, <1>5, <2>2 DEF States, Sessions
  <2> QED BY <2>1, <2>2
<1>10. Become(CASE ses.mode = "gdb"     -> gdb_resume(w, c)
                [] ses.mode = "control" -> control_resume(w, c)
                [] OTHER                -> repl_resume(w, c))
  BY <1>1, <1>9 DEF Continue
<1>11. CASE ses.mode = "gdb"
  <2>1. c \in {"step", "continue", "detach", "kill"}
    BY <1>11 DEF Resumes
  <2>2. Good(gdb_resume(w, c))
    BY <1>2, <1>6, <1>7, <1>8, <1>11, <2>1, GdbResumeGood
  <2> QED BY <1>10, <1>11, <2>2, Became
<1>12. CASE ses.mode # "gdb"
  <2>1. c \in {"step", "next", "step-out", "continue", "quit"}
    BY <1>12 DEF Resumes
  <2>2. Good(control_resume(w, c))
    BY <1>2, <1>6, <1>7, <1>8, <1>12, <2>1, ControlResumeGood
  <2>3. PICK y : y = Pushed(w)
    OBVIOUS
  <2>4. y \in States /\ Sound(y) /\ y.s = s /\ y.g.twice = w.g.twice
    BY <1>7, <1>8, <2>3, PushedSound
  <2>5. Good(control_resume(y, c))
    BY <1>2, <1>6, <1>7, <1>12, <2>1, <2>4, ControlResumeGood
  <2>6. Become(control_resume(w, c)) \/ Become(control_resume(y, c))
    BY <1>10, <1>12, <2>3 DEF repl_resume
  <2> QED BY <2>2, <2>5, <2>6, Became
<1> QED BY <1>11, <1>12

-----------------------------------------------------------------------------
(* The end of a frame *)

\* What matters of a state outside the front end; some of it may be less.
Same(y, z) ==
  /\ y.s.mode = z.s.mode /\ (y.s.resumed <=> z.s.resumed) /\ (y.s.running => z.s.running)
  /\ (y.d.step <=> z.d.step) /\ (y.d.trig <=> z.d.trig) /\ y.d.wps = z.d.wps /\ y.d.rw = z.d.rw
  /\ y.g.view = z.g.view /\ (y.g.twice <=> z.g.twice) /\ (y.g.stepped <=> z.g.stepped)
  /\ y.g.asked = z.g.asked /\ y.g.access = z.g.access /\ (y.g.ran => z.g.ran)
LEMMA SameGood ==
  ASSUME NEW z, Good(z), z.s.stage \in {"frame", "menu"},
         NEW y \in States, Sound(y), Same(y, z), y.s.stage \in {"frame", "menu", "run", "ended"},
         y.s.running \/ y.s.stage \in {"frame", "ended"}
  PROVE Good(y)
<1>1. Moving(y.s) => Moving(z.s)
  BY DEF Same, Moving
<1>2. WantsAccessIn(y) <=> WantsAccessIn(z)
  BY DEF Same, WantsAccessIn, Kind
<1>3. StepIn(y) /\ AccessIn(y) /\ GoIn(y)
  BY <1>1, <1>2 DEF Good, StepIn, AccessIn, GoIn, Same
<1>4. ToldRunning(z) => ToldRunning(y)
  BY DEF ToldRunning, Same
<1>5. Moving(z.s) /\ z.s.mode \in {"control", "gdb"} => ToldRunning(z)
  BY DEF Good, ViewIn
<1>6. z.s.mode \in {"control", "gdb"} => ~z.g.twice
  BY DEF Good, ViewIn
<1>7. ViewIn(y)
  BY <1>1, <1>4, <1>5, <1>6 DEF ViewIn, Same
<1> QED BY <1>3, <1>7 DEF Good

\* A new debugger, session and view, in the same state of affairs.
Aside(g, h) ==
  /\ g.view = h.view /\ (g.twice <=> h.twice) /\ (g.stepped <=> h.stepped)
  /\ g.asked = h.asked /\ g.access = h.access /\ (g.ran => h.ran)
  /\ g.undo = h.undo /\ g.log = h.log
Onward(s, t) ==
  /\ s.mode = t.mode /\ (s.resumed <=> t.resumed) /\ (s.running => t.running)
  /\ s.stage \in {"frame", "menu", "run", "ended"} /\ (s.running \/ s.stage \in {"frame", "ended"})
Idle(e, d) == Unmoved(e, d) /\ (e.step <=> d.step) /\ (e.trig <=> d.trig)
Parts(z, m, d, s, g) == [m |-> m, d |-> d, t |-> z.t, s |-> s, g |-> g]
Between(z) == z.s.stage \in {"frame", "menu"}
LEMMA PartsGood ==
  ASSUME NEW z, Good(z), Between(z),
         NEW m \in Machines, NEW d \in Debuggers, Idle(d, z.d),
         NEW s \in Sessions, Onward(s, z.s), NEW g \in Views, Aside(g, z.g),
         NEW y, y = Parts(z, m, d, s, g)
  PROVE Good(y) /\ y.m = m /\ y.d = d /\ y.s = s /\ y.g = g /\ y.t = z.t
<1>1. z \in States /\ Sound(z)
  BY DEF Good
<1>3. y \in States /\ y.m = m /\ y.d = d /\ y.s = s /\ y.g = g /\ y.t = z.t
  BY <1>1 DEF Parts, States
<1>4. Sound(y)
  BY <1>1, <1>3, Restaged DEF Idle, Onward, Aside
<1>5. Same(y, z)
  BY <1>3 DEF Same, Unmoved, Idle, Onward, Aside
<1>7. Good(y)
  BY <1>3, <1>4, <1>5, SameGood DEF Onward, Between
<1> QED BY <1>3, <1>7

\* The polls for a pause.
Polled(z) ==
  IF z.s.mode = "control" THEN control_poll_pause(z)
  ELSE IF z.s.mode = "gdb" THEN gdb_stub_poll_interrupt(z) ELSE z
LEMMA PolledGood ==
  ASSUME NEW z, Good(z), z.s.stage = "frame"
  PROVE /\ Good(Polled(z)) /\ Polled(z).s.stage = "frame" /\ Polled(z).s.mode = z.s.mode
        /\ Polled(z).d.bps = z.d.bps /\ Polled(z).s.left = z.s.left
<1>0. z \in States /\ z.m \in Machines /\ z.d \in Debuggers /\ z.s \in Sessions /\ z.g \in Views
  BY DEF Good, States
<1>1. ASSUME NEW s \in Sessions, Onward(s, z.s), s.stage = "frame", s.left = z.s.left,
             NEW d \in Debuggers, Idle(d, z.d), d.bps = z.d.bps,
             NEW g \in Views, Aside(g, z.g),
             NEW y, y = Parts(z, z.m, d, s, g)
      PROVE Good(y) /\ y.s.stage = "frame" /\ y.s.mode = z.s.mode /\ y.d.bps = z.d.bps
            /\ y.s.left = z.s.left
  <2>1. Between(z)
    BY DEF Between
  <2>3. Good(y) /\ y.d = d /\ y.s = s
    BY <1>0, <1>1, <2>1, PartsGood
  <2> QED BY <1>1, <2>3 DEF Onward
<1>2. z.s \in Sessions /\ Onward(z.s, z.s) /\ z.d \in Debuggers /\ Idle(z.d, z.d) /\ z.g \in Views
      /\ Aside(z.g, z.g)
  BY <1>0 DEF Onward, Idle, Unmoved, Aside
<1>3. PICK e : e = [z.d EXCEPT !.active = TRUE]
  OBVIOUS
<1>4. e \in Debuggers /\ Idle(e, z.d) /\ e.bps = z.d.bps
  BY <1>0, <1>3 DEF Debuggers, Idle, Unmoved
<1>5. PICK y : y = Polled(z)
  OBVIOUS
<1>6. CASE z.s.mode \in {"control", "gdb"} /\ z.s.inbox = "pause"
  <2>1. PICK n \in BOOLEAN : n = IF z.s.mode = "control" THEN TRUE ELSE z.s.pending
    BY <1>0 DEF Sessions
  <2>2. PICK s : s = [z.s EXCEPT !.pending = n, !.inbox = "none"]
    OBVIOUS
  <2>3. s \in Sessions /\ Onward(s, z.s) /\ s.stage = "frame" /\ s.left = z.s.left
    BY <1>0, <2>2 DEF Sessions, Onward
  <2>4. PICK g : g = [z.g EXCEPT !.paused = TRUE]
    OBVIOUS
  <2>5. g \in Views /\ Aside(g, z.g)
    BY <1>0, <2>4 DEF Views, Aside
  <2>6. y = Parts(z, z.m, e, s, g)
    <3>1. CASE z.s.mode = "control"
      <4>1. s = [z.s EXCEPT !.pending = TRUE, !.inbox = "none"]
        BY <2>1, <2>2, <3>1
      <4> QED BY <1>0, <1>3, <1>5, <1>6, <2>4, <3>1, <4>1 DEF Polled, control_poll_pause, States, Parts
    <3>2. CASE z.s.mode = "gdb"
      <4>1. s = [z.s EXCEPT !.inbox = "none"]
        BY <1>0, <2>1, <2>2, <3>2 DEF Sessions
      <4> QED BY <1>0, <1>3, <1>5, <1>6, <2>4, <3>2, <4>1 DEF Polled, gdb_stub_poll_interrupt, States, Parts
    <3> QED BY <1>6, <3>1, <3>2
  <2> QED BY <1>1, <1>4, <1>5, <2>3, <2>5, <2>6
<1>7. CASE z.s.mode = "control" /\ z.s.inbox = "eof"
  <2>2. PICK s : s = [z.s EXCEPT !.running = FALSE]
    OBVIOUS
  <2>3. s \in Sessions /\ Onward(s, z.s) /\ s.stage = "frame" /\ s.left = z.s.left
    BY <1>0, <2>2 DEF Sessions, Onward
  <2>6. y = Parts(z, z.m, e, s, z.g)
    BY <1>0, <1>3, <1>5, <1>7, <2>2 DEF Polled, control_poll_pause, States, Parts
  <2> QED BY <1>1, <1>2, <1>4, <1>5, <2>3, <2>6
<1>8. CASE z.s.mode = "gdb" /\ z.s.inbox = "eof"
  <2>6. y = Parts(z, z.m, e, z.s, z.g)
    BY <1>0, <1>3, <1>5, <1>8 DEF Polled, gdb_stub_poll_interrupt, States, Parts
  <2>7. Onward(z.s, z.s) /\ z.s.left = z.s.left
    BY <1>2
  <2> QED BY <1>1, <1>2, <1>4, <1>5, <2>6, <2>7
<1>9. CASE z.s.mode \in {"control", "gdb"} /\ z.s.inbox = "none"
  <2>2. PICK s : s = [z.s EXCEPT !.inbox = "none"]
    OBVIOUS
  <2>3. s \in Sessions /\ Onward(s, z.s) /\ s.stage = "frame" /\ s.left = z.s.left
    BY <1>0, <2>2 DEF Sessions, Onward
  <2>6. y = Parts(z, z.m, z.d, s, z.g)
    BY <1>0, <1>5, <1>9, <2>2 DEF Polled, control_poll_pause, gdb_stub_poll_interrupt, States, Parts
  <2> QED BY <1>1, <1>2, <1>5, <2>3, <2>6
<1>10. CASE z.s.mode \notin {"control", "gdb"}
  <2>1. y = z
    BY <1>5, <1>10 DEF Polled
  <2> QED BY <1>5, <2>1
<1>11. z.s.inbox \in {"none", "pause", "eof"}
  BY <1>0 DEF Sessions
<1> QED BY <1>6, <1>7, <1>8, <1>9, <1>10, <1>11

\* A breakpoint that is added or removed.
Repointed(z, b) == [z EXCEPT !.d = [z.d EXCEPT !.bps = b]]
LEMMA Added ==
  ASSUME NEW d \in Debuggers, NEW x \in Addr, NEW v \in Nat
  PROVE \E b \in Seq(Points) : debugger_add_breakpoint(d, x, v) = [d EXCEPT !.bps = b]
BY AddPoint
LEMMA PointEdit ==
  ASSUME NEW w \in States, NEW k, NEW x,
         (k = "break" /\ x \in Addr) \/ (k = "unbreak" /\ x \in DOMAIN w.d.bps)
  PROVE \E b \in Seq(Points) : control_edit(w, k, x) = Repointed(w, b)
<1>0. w.d \in Debuggers /\ w.d.bps \in Seq(Points)
  BY DEF States, Debuggers
<1>1. CASE k = "break"
  <2>1. x \in Addr /\ None \in Nat
    BY <1>1 DEF None
  <2>2. PICK d : d = w.d
    OBVIOUS
  <2>3. d \in Debuggers
    BY <1>0, <2>2
  <2>7. PICK v \in Nat : v = None
    BY <2>1
  <2>4. PICK b \in Seq(Points) : debugger_add_breakpoint(d, x, v) = [d EXCEPT !.bps = b]
    BY <2>1, <2>3, Added
  <2>5. control_edit(w, k, x) = [w EXCEPT !.d = debugger_add_breakpoint(w.d, x, None)]
    BY <1>1 DEF control_edit
  <2>6. control_edit(w, k, x) = Repointed(w, b)
    BY <2>2, <2>4, <2>5, <2>7 DEF Repointed
  <2> QED BY <2>6
<1>2. CASE k = "unbreak"
  <2>1. Without(w.d.bps, x) \in Seq(Points)
    BY <1>0, <1>2, WithoutIs
  <2>2. control_edit(w, k, x) = Repointed(w, Without(w.d.bps, x))
    BY <1>2 DEF control_edit, debugger_remove_breakpoint, Repointed
  <2> QED BY <2>1, <2>2
<1> QED BY <1>1, <1>2

\* The HTTP clients that do not resume a machine.
LEMMA DrainGood ==
  ASSUME NEW z, Good(z), z.s.stage = "frame", NEW c,
         \/ c = <<"none", 0>>
         \/ /\ z.s.left > 0 /\ z.s.mode # "gdb"
            /\ c \in {"break"} \X BreakAt \cup {"unbreak"} \X DOMAIN z.d.bps
  PROVE Good(control_queue_drain(z, c)) /\ control_queue_drain(z, c).s.stage = "frame"
<1>0. z \in States /\ z.d \in Debuggers /\ z.s \in Sessions /\ Sound(z) /\ z.m \in Machines
  BY DEF Good, States
<1>1. CASE c = <<"none", 0>>
  <2>1. control_queue_drain(z, c) = z
    BY <1>1 DEF control_queue_drain
  <2> QED BY <2>1
<1>2. CASE /\ z.s.left > 0 /\ z.s.mode # "gdb"
           /\ c \in {"break"} \X BreakAt \cup {"unbreak"} \X DOMAIN z.d.bps
  <2>1. PICK k, x : k = c[1] /\ x = c[2]
    OBVIOUS
  <2>2. (k = "break" /\ x \in Addr) \/ (k = "unbreak" /\ x \in DOMAIN z.d.bps)
    BY <1>2, <2>1, SessionAssumption
  <2>3. PICK n \in Nat : n = z.s.left - 1
    BY <1>0, <1>2 DEF Sessions
  <2>4. PICK s : s = [z.s EXCEPT !.left = n]
    OBVIOUS
  <2>5. s \in Sessions /\ s.stage = "frame" /\ s.mode = z.s.mode /\ (s.resumed <=> z.s.resumed)
        /\ (s.running <=> z.s.running)
    BY <1>0, <2>4 DEF Sessions
  <2>6. PICK w : w = [z EXCEPT !.s = s]
    OBVIOUS
  <2>7. w \in States /\ w.s = s /\ w.d = z.d /\ w.g = z.g /\ w.t = z.t /\ w.m = z.m
    BY <1>0, <2>5, <2>6 DEF States
  <2>8. Sound(w)
    <3>1. Unmoved(w.d, z.d)
      BY <2>7 DEF Unmoved
    <3> QED BY <1>0, <2>5, <2>7, <3>1, Restaged
  <2>9. control_queue_drain(z, c) = control_edit(w, k, x)
    <3>1. w = [z EXCEPT !.s.left = @ - 1]
      BY <1>0, <2>3, <2>4, <2>6 DEF States, Sessions
    <3>2. c[1] \notin {"none", "step", "continue"}
      BY <2>1, <2>2
    <3> QED BY <2>1, <3>1, <3>2 DEF control_queue_drain
  <2>10. PICK b \in Seq(Points) : control_edit(w, k, x) = Repointed(w, b)
    BY <2>2, <2>7, PointEdit
  <2>11. PICK d : d = [z.d EXCEPT !.bps = b]
    OBVIOUS
  <2>12. d \in Debuggers /\ Steady(d, z.d) /\ (d.step <=> z.d.step) /\ (d.trig <=> z.d.trig)
         /\ d.wps = z.d.wps /\ d.rw = z.d.rw /\ (d.traced <=> z.d.traced)
    BY <1>0, <2>11 DEF Debuggers, Steady
  <2>13. TracedIn(d)
    BY <1>0, <2>12 DEF TracedIn, Sound
  <2>14. PICK y : y = [w EXCEPT !.d = d]
    OBVIOUS
  <2>15. y \in States /\ Sound(y) /\ y.d = d /\ y.s = s /\ y.g = z.g
    BY <1>2, <2>5, <2>7, <2>8, <2>12, <2>13, <2>14, EditSound
  <2>16. Same(y, z)
    BY <2>5, <2>12, <2>15 DEF Same
  <2>17. Good(y)
    BY <2>5, <2>15, <2>16, SameGood
  <2>18. y = control_queue_drain(z, c)
    BY <2>7, <2>9, <2>10, <2>11, <2>14 DEF Repointed
  <2> QED BY <2>5, <2>15, <2>17, <2>18
<1> QED BY <1>1, <1>2

\* The keys of the window.
LEMMA KeyGood ==
  ASSUME NEW z, Good(z), z.s.stage = "frame", NEW k
  PROVE Good(Key(z, k)) /\ Key(z, k).s.stage = "frame"
<1>0. z \in States /\ z.m \in Machines /\ z.d \in Debuggers /\ z.s \in Sessions /\ z.g \in Views
      /\ Between(z)
  BY DEF Good, States, Between
<1>1. z.s \in Sessions /\ Onward(z.s, z.s) /\ z.d \in Debuggers /\ Idle(z.d, z.d) /\ z.g \in Views
      /\ Aside(z.g, z.g)
  BY <1>0 DEF Onward, Idle, Unmoved, Aside
<1>2. PICK y : y = Key(z, k)
  OBVIOUS
<1>3. CASE k = "F9"
  <2>1. PICK d : d = [z.d EXCEPT !.active = TRUE]
    OBVIOUS
  <2>2. d \in Debuggers /\ Idle(d, z.d)
    BY <1>0, <2>1 DEF Debuggers, Idle, Unmoved
  <2>3. y = Parts(z, z.m, d, z.s, z.g)
    BY <1>0, <1>2, <1>3, <2>1 DEF Key, Parts, States
  <2>4. Good(y) /\ y.s = z.s
    BY <1>0, <1>1, <2>2, <2>3, PartsGood
  <2> QED BY <1>2, <2>4
<1>4. CASE k = "F5"
  <2>1. PICK m : m = ResetCpu(z.m)
    OBVIOUS
  <2>2. m \in Machines
    <3>1. 1 \in Addr /\ <<>> \in Seq(Addr)
      BY AddrIs
    <3> QED BY <1>0, <2>1, <3>1 DEF ResetCpu, Machines
  <2>3. y = Parts(z, m, z.d, z.s, z.g)
    BY <1>0, <1>2, <1>4, <2>1 DEF Key, Parts, States
  <2>4. Good(y) /\ y.s = z.s
    BY <1>0, <1>1, <2>2, <2>3, PartsGood
  <2> QED BY <1>2, <2>4
<1>5. CASE k = "F10"
  <2>1. PICK s : s = [z.s EXCEPT !.running = FALSE]
    OBVIOUS
  <2>2. s \in Sessions /\ Onward(s, z.s) /\ s.stage = "frame"
    BY <1>0, <2>1 DEF Sessions, Onward
  <2>3. y = Parts(z, z.m, z.d, s, z.g)
    BY <1>0, <1>2, <1>5, <2>1 DEF Key, Parts, States
  <2>4. Good(y) /\ y.s = s
    BY <1>0, <1>1, <2>2, <2>3, PartsGood
  <2> QED BY <1>2, <2>2, <2>4
<1>6. CASE k \notin {"F5", "F9", "F10"}
  <2>1. y = z
    BY <1>2, <1>6 DEF Key
  <2> QED BY <1>2, <2>1
<1> QED BY <1>3, <1>4, <1>5, <1>6

LEMMA FrameEndStep ==
  ASSUME DebugInv, ~HttpResumes, NEW c \in HttpCommands, NEW k, FrameEnd(c, k)
  PROVE DebugInv'
<1>1. PICK z : z = Now
  OBVIOUS
<1>2. Good(z) /\ z.s = ses /\ z.d = dbg /\ z.s.stage = "frame"
  BY <1>1 DEF DebugInv, Now, FrameEnd
<1>3. PICK p : p = Polled(z)
  OBVIOUS
<1>4. Good(p) /\ p.s.stage = "frame" /\ p.s.mode = ses.mode /\ p.d.bps = dbg.bps /\ p.s.left = ses.left
  BY <1>2, <1>3, PolledGood
<1>5. \/ c = <<"none", 0>>
      \/ /\ p.s.left > 0 /\ p.s.mode # "gdb"
         /\ c \in {"break"} \X BreakAt \cup {"unbreak"} \X DOMAIN p.d.bps
  <2>1. ses.left \in Nat
    BY <1>2 DEF Good, States, Sessions
  <2> QED BY <1>4, <2>1 DEF HttpCommands
<1>6. PICK q : q = control_queue_drain(p, c)
  OBVIOUS
<1>7. Good(q) /\ q.s.stage = "frame"
  BY <1>4, <1>5, <1>6, DrainGood
<1>8. PICK e : e = Key(q, k)
  OBVIOUS
<1>9. Good(e) /\ e.s.stage = "frame"
  BY <1>7, <1>8, KeyGood
<1>10. e \in States /\ e.m \in Machines /\ e.d \in Debuggers /\ e.s \in Sessions /\ e.g \in Views
  BY <1>9 DEF Good, States
<1>11. PICK over \in BOOLEAN : over = (~e.s.running \/ e.m.jam)
  OBVIOUS
<1>12. PICK s : s = [e.s EXCEPT !.stage = IF over THEN "ended" ELSE IF k = "F1" THEN "menu" ELSE "run"]
  OBVIOUS
<1>13. s \in Sessions /\ Onward(s, e.s)
  BY <1>10, <1>11, <1>12 DEF Sessions, Onward
<1>14. PICK a \in BOOLEAN, r \in BOOLEAN : a = (e.g.paused /\ ~over) /\ r = (e.g.ran /\ c[1] = "none")
  OBVIOUS
<1>15. PICK g : g = [e.g EXCEPT !.paused = a, !.ran = r]
  OBVIOUS
<1>16. g \in Views /\ Aside(g, e.g)
  BY <1>10, <1>14, <1>15 DEF Views, Aside
<1>17. PICK y : y = [e EXCEPT !.s = s, !.g = g]
  OBVIOUS
<1>21. y = Parts(e, e.m, e.d, s, g)
  BY <1>10, <1>17 DEF Parts, States
<1>18. Good(y)
  <2>1. Between(e) /\ Idle(e.d, e.d)
    BY <1>9 DEF Between, Idle, Unmoved
  <2> QED BY <1>9, <1>10, <1>13, <1>16, <1>21, <2>1, PartsGood
<1>19. y = [e EXCEPT !.s.stage = IF over THEN "ended" ELSE IF k = "F1" THEN "menu" ELSE "run",
                     !.g.paused = @ /\ ~over, !.g.ran = @ /\ c[1] = "none"]
  <2>1. g = [e.g EXCEPT !.paused = @ /\ ~over, !.ran = @ /\ c[1] = "none"]
    BY <1>14, <1>15
  <2>3. y = [e EXCEPT !.s.stage = IF over THEN "ended" ELSE IF k = "F1" THEN "menu" ELSE "run",
                      !.g = g]
    BY <1>10, <1>12, <1>17 DEF States
  <2> QED BY <1>10, <2>1, <2>3 DEF States
<1>20. Become(y)
  <2>1. p = IF ses.mode = "control" THEN control_poll_pause(Now)
            ELSE IF ses.mode = "gdb" THEN gdb_stub_poll_interrupt(Now) ELSE Now
    BY <1>1, <1>2, <1>3 DEF Polled
  <2> QED BY <1>6, <1>8, <1>11, <1>19, <2>1 DEF FrameEnd
<1> QED BY <1>18, <1>20, Became

LEMMA MenuStep ==
  ASSUME DebugInv, NEW k \in {"F1", "reset", "close"}, Menu(k)
  PROVE DebugInv'
<1>1. PICK z : z = Now
  OBVIOUS
<1>2. Good(z) /\ z.s.stage = "menu" /\ Between(z)
  BY <1>1 DEF DebugInv, Now, Menu, Between
<1>3. z \in States /\ z.m \in Machines /\ z.d \in Debuggers /\ z.s \in Sessions /\ z.g \in Views
      /\ Idle(z.d, z.d) /\ Aside(z.g, z.g) /\ z.s.running
  BY <1>2 DEF Good, States, Idle, Unmoved, Aside, ViewIn
<1>4. PICK s : s = [z.s EXCEPT !.stage = "run"]
  OBVIOUS
<1>5. s \in Sessions /\ Onward(s, z.s)
  BY <1>3, <1>4 DEF Sessions, Onward
<1>6. CASE k = "F1"
  <2>1. PICK y : y = Parts(z, z.m, z.d, s, z.g)
    OBVIOUS
  <2>2. Good(y)
    BY <1>2, <1>3, <1>5, <2>1, PartsGood
  <2>3. Become(y)
    <3>1. y = [z EXCEPT !.s.stage = "run"]
      BY <1>3, <1>4, <2>1 DEF Parts, States
    <3> QED BY <1>1, <1>6, <3>1 DEF Menu
  <2> QED BY <2>2, <2>3, Became
<1>7. CASE k = "reset"
  <2>0. PICK m : m = ResetCpu(z.m)
    OBVIOUS
  <2>4. m \in Machines
    <3>1. 1 \in Addr /\ <<>> \in Seq(Addr)
      BY AddrIs
    <3> QED BY <1>3, <2>0, <3>1 DEF ResetCpu, Machines
  <2>1. PICK y : y = [z EXCEPT !.s = s, !.m = m]
    OBVIOUS
  <2>7. y = Parts(z, m, z.d, s, z.g)
    BY <1>3, <2>1 DEF Parts, States
  <2>2. Good(y)
    BY <1>2, <1>3, <1>5, <2>4, <2>7, PartsGood
  <2>3. Become(y)
    <3>1. y = [z EXCEPT !.s.stage = "run", !.m = ResetCpu(@)]
      BY <1>3, <1>4, <2>0, <2>1 DEF States
    <3> QED BY <1>1, <1>7, <3>1 DEF Menu
  <2> QED BY <2>2, <2>3, Became
<1>8. CASE k = "close"
  <2>0. PICK t : t = [z.s EXCEPT !.running = FALSE, !.stage = "ended"]
    OBVIOUS
  <2>4. t \in Sessions /\ Onward(t, z.s)
    BY <1>3, <2>0 DEF Sessions, Onward
  <2>5. PICK g : g = [z.g EXCEPT !.paused = FALSE]
    OBVIOUS
  <2>6. g \in Views /\ Aside(g, z.g)
    BY <1>3, <2>5 DEF Views, Aside
  <2>1. PICK y : y = [z EXCEPT !.s = t, !.g = g]
    OBVIOUS
  <2>7. y = Parts(z, z.m, z.d, t, g)
    BY <1>3, <2>1 DEF Parts, States
  <2>2. Good(y)
    BY <1>2, <1>3, <2>4, <2>6, <2>7, PartsGood
  <2>3. Become(y)
    <3>1. y = [z EXCEPT !.s.running = FALSE, !.s.stage = "ended", !.g.paused = FALSE]
      <4>2. y = [z EXCEPT !.s = [z.s EXCEPT !.running = FALSE, !.stage = "ended"], !.g.paused = FALSE]
        BY <1>3, <2>0, <2>1, <2>5 DEF States
      <4> QED BY <1>3, <4>2 DEF States
    <3> QED BY <1>1, <1>8, <3>1 DEF Menu
  <2> QED BY <2>2, <2>3, Became
<1> QED BY <1>6, <1>7, <1>8

\* A save writes what was logged, oldest first.
LEMMA SavedIs ==
  ASSUME NEW t \in Traces, NEW l \in Seq(Addr), LogIn(t, l)
  PROVE trace_save_ring(t) = l
<1>1. PICK s : s = IF t.count = Len(t.ring) THEN t.head ELSE 0
  OBVIOUS
<1>2. PICK v : v = [i \in 1 .. t.count |-> t.ring[((s + i - 1) % Len(t.ring)) + 1]]
  OBVIOUS
<1>3. trace_save_ring(t) = v
  BY <1>1, <1>2 DEF trace_save_ring
<1>4. Len(l) = t.count /\ t.count \in {0, 1, 2} /\ DOMAIN v = 1 .. t.count
  <2>1. Len(<<>>) = 0
    OBVIOUS
  <2> QED BY <1>2, <2>1 DEF LogIn
<1>5. ASSUME NEW i \in 1 .. t.count PROVE v[i] = l[i]
  <2>1. v[i] = t.ring[((s + i - 1) % Len(t.ring)) + 1]
    BY <1>2
  <2>2. CASE t.count = 1
    <3>3. Len(t.ring) = 2 /\ l[1] = t.ring[1]
      BY <2>2 DEF LogIn
    <3>4. i = 1
      BY <2>2
    <3>5. s = 0
      <4>1. t.count # Len(t.ring)
        BY <2>2, <3>3
      <4> QED BY <1>1, <4>1
    <3>1. Len(t.ring) = 2 /\ l[1] = t.ring[1] /\ i = 1 /\ s = 0
      BY <3>3, <3>4, <3>5
    <3>2. (s + i - 1) % 2 = 0
      BY <3>1
    <3> QED BY <2>1, <3>1, <3>2
  <2>3. CASE t.count = 2 /\ t.head = 0
    <3>1. Len(t.ring) = 2 /\ l[1] = t.ring[1] /\ l[2] = t.ring[2] /\ i \in {1, 2} /\ s = 0
      BY <1>1, <1>5, <2>3 DEF LogIn
    <3>2. ((s + i - 1) % 2) + 1 = i
      BY <3>1
    <3> QED BY <2>1, <3>1, <3>2
  <2>4. CASE t.count = 2 /\ t.head = 1
    <3>1. Len(t.ring) = 2 /\ l[1] = t.ring[2] /\ l[2] = t.ring[1] /\ i \in {1, 2} /\ s = 1
      BY <1>1, <1>5, <2>4 DEF LogIn
    <3>2. ((s + i - 1) % 2) + 1 = 3 - i
      BY <3>1
    <3> QED BY <2>1, <3>1, <3>2
  <2>5. t.count = 2 => t.head \in {0, 1}
    <3>1. t.count = 2 => t.head = 0 \/ t.head = 1
      BY DEF LogIn
    <3> QED BY <3>1
  <2> QED BY <1>4, <1>5, <2>2, <2>3, <2>4, <2>5
<1>6. v = l
  <2>1. l = [i \in 1 .. Len(l) |-> l[i]]
    OBVIOUS
  <2>2. v = [i \in 1 .. t.count |-> v[i]]
    BY <1>2
  <2> HIDE <1>2
  <2> QED BY <1>4, <1>5, <2>1, <2>2
<1> QED BY <1>3, <1>6

-----------------------------------------------------------------------------
(* The theorems *)

\* What a session keeps: the callback is installed while something needs it,
\* what gdb was promised is in the tables, the rings hold what an observer
\* has, a step or a watched access between two instructions is remembered
\* until the check, and the client knows whether the machine runs
\* (debugger.c, gdb_stub.c, control.c, trace.c and the loop of main.c).
THEOREM DebugHolds ==
  ASSUME ~HttpResumes
  PROVE DebugSpec => []DebugInv
<1>1. DebugInit => DebugInv
  BY StartGood
<1>2. DebugInv /\ [DebugNext]_debugVars => DebugInv'
  <2> SUFFICES ASSUME DebugInv, [DebugNext]_debugVars PROVE DebugInv'
    OBVIOUS
  <2>1. CASE Check
    BY <2>1, CheckStep
  <2>2. CASE Exec
    BY <2>2, ExecStep
  <2>3. CASE Leftover
    BY <2>3, LeftoverStep
  <2>4. CASE \E m \in {"pause", "eof"} : Interrupt(m)
    BY <2>4, InterruptStep
  <2>5. CASE \E c \in Edits(ses.mode, dbg) : Command(c)
    BY <2>5, CommandStep
  <2>6. CASE \E c \in Resumes(ses.mode) : Continue(c)
    BY <2>6, ContinueStep
  <2>7. CASE \E c \in HttpCommands, k \in {"none", "F1", "F5", "F9", "F10"} : FrameEnd(c, k)
    BY <2>7, FrameEndStep
  <2>8. CASE \E k \in {"F1", "reset", "close"} : Menu(k)
    BY <2>8, MenuStep
  <2>9. CASE UNCHANGED debugVars
    <3>1. Now' = Now
      BY <2>9 DEF debugVars, Now
    <3>2. Good(Now')
      BY <3>1 DEF DebugInv
    <3> QED BY <3>2 DEF DebugInv
  <2> QED BY <2>1, <2>2, <2>3, <2>4, <2>5, <2>6, <2>7, <2>8, <2>9 DEF DebugNext
<1> QED BY <1>1, <1>2, PTL DEF DebugSpec

\* No instruction runs past a stop that the client asked for, and the client
\* is told of every stop, once (debugger_should_break and the stopped loops of
\* the front ends), if no HTTP client resumes the machine.
THEOREM StopsSound ==
  ASSUME ~HttpResumes
  PROVE DebugSpec => []StopsAreSound
<1>1. DebugInv => StopsAreSound
  <2> SUFFICES ASSUME DebugInv PROVE StopsAreSound
    OBVIOUS
  <2>1. PICK z : z = Now
    OBVIOUS
  <2>2. Good(z) /\ z.m = cpu /\ z.d = dbg /\ z.s = ses /\ z.g = seen
    BY <2>1 DEF DebugInv, Now
  <2>3. seen \in Views /\ dbg.wps \in Seq(Watches)
    BY <2>2 DEF Good, States, Debuggers
  <2>4. Accessed = Kind(seen) /\ Accessed \in {"none", "r", "w"}
    BY <2>3 DEF Accessed, Kind, Views
  <2>5. ASSUME NEW k \in Modes, Hit(k) PROVE HitBy(Kind(seen), k)
    <3>1. [mode |-> k].mode = k
      OBVIOUS
    <3> QED BY <2>4, <2>5, <3>1 DEF Hit, WpHit, HitBy, Modes
  <2>6. WantsPc => WantsPcIn(z)
    BY <2>2 DEF WantsPc, WantsPcIn
  <2>7. WantsAccess => WantsAccessIn(z)
    <3>1. CASE \E i \in DOMAIN dbg.wps : Hit(dbg.wps[i].mode) /\ ses.mode # "gdb"
      <4>1. PICK i \in DOMAIN dbg.wps : Hit(dbg.wps[i].mode) /\ ses.mode # "gdb"
        BY <3>1
      <4>2. dbg.wps[i] \in Watches
        BY <2>3
      <4>3. dbg.wps[i].mode \in Modes
        BY <4>2 DEF Watches
      <4> QED BY <2>2, <2>5, <4>1, <4>3 DEF WantsAccessIn
    <3>2. CASE \E a \in seen.asked : a[1] = "Z2" /\ Hit(a[2])
      <4>1. PICK a \in seen.asked : a[1] = "Z2" /\ Hit(a[2])
        BY <3>2
      <4>2. a \in Wishes
        BY <2>3 DEF Views
      <4>3. PICK k \in Modes : a = <<"Z2", k>>
        BY <4>1, <4>2 DEF Wishes
      <4>4. a[2] = k
        BY <4>3
      <4>5. HitBy(Kind(seen), k)
        BY <2>5, <4>1, <4>4
      <4> QED BY <2>2, <4>1, <4>3, <4>5 DEF WantsAccessIn
    <3>3. CASE Accessed \in dbg.rw
      BY <2>2, <2>4, <3>3 DEF WantsAccessIn
    <3> QED BY <3>1, <3>2, <3>3 DEF WantsAccess
  <2>8. NoMissedStop
    BY <2>2, <2>6, <2>7 DEF NoMissedStop, MustStop, Good, GoIn
  <2>9. StopsAreReported
    BY <2>2 DEF StopsAreReported, Good, ViewIn, ToldRunning
  <2> QED BY <2>8, <2>9 DEF StopsAreSound
<1> QED BY <1>1, DebugHolds, PTL

\* The two rings hold what an observer of the session has, however often they
\* wrapped (dbg_undo_push and dbg_undo_pop, trace_log_instruction and
\* trace_save_ring).
THEOREM RingsExact ==
  ASSUME ~HttpResumes
  PROVE DebugSpec => []RingsAreExact
<1>1. DebugInv => RingsAreExact
  <2> SUFFICES ASSUME DebugInv PROVE RingsAreExact
    OBVIOUS
  <2>1. PICK z : z = Now
    OBVIOUS
  <2>2. z \in States /\ Sound(z) /\ z.d = dbg /\ z.t = trace /\ z.g = seen
    BY <2>1 DEF DebugInv, Good, Now
  <2>3. RingIn(dbg, seen.undo) /\ LogIn(trace, seen.log) /\ dbg \in Debuggers /\ seen \in Views
        /\ trace \in Traces
    BY <2>2 DEF Sound, States
  <2>4. dbg.count = Len(seen.undo)
    BY <2>3 DEF RingIn
  <2>5. dbg.count > 0 => dbg.ring[UndoSlot(dbg)] = seen.undo[Len(seen.undo)]
    <3>1. SUFFICES ASSUME dbg.count > 0 PROVE dbg.ring[UndoSlot(dbg)] = seen.undo[Len(seen.undo)]
      OBVIOUS
    <3>2. dbg.count \in 1 .. Depth
      BY <2>3, <3>1, DebuggerAssumption DEF Debuggers
    <3>3. 1 \in 1 .. dbg.count /\ dbg.count - 1 + 1 = Len(seen.undo)
      BY <2>4, <3>2
    <3>4. UndoSlot(dbg) = Back(dbg.head, 1)
      BY DEF UndoSlot, Back
    <3>5. dbg.ring[Back(dbg.head, 1)] = seen.undo[dbg.count - 1 + 1]
      BY <2>3, <3>3 DEF RingIn
    <3> QED BY <3>3, <3>4, <3>5
  <2>6. trace_save_ring(trace) = seen.log
    BY <2>3, SavedIs DEF Views
  <2> QED BY <2>4, <2>5, <2>6 DEF RingsAreExact
<1> QED BY <1>1, DebugHolds, PTL
=============================================================================
