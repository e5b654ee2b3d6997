---------------------------- MODULE CpuInterrupts ----------------------------
(***************************************************************************)
(* How the 6502 takes interrupts: the micro-sequenced engine of            *)
(* cpu/microseq.c, one step per bus cycle, and the historical engine of    *)
(* cpu/cpu6502.c, one step per instruction.                                *)
(*                                                                         *)
(* Kept are the interrupt lines and their samples, the flag I, and of an   *)
(* instruction its number of cycles and the cycles that touch any of them. *)
(* What the program computes is left out: which instruction comes next,    *)
(* and which I a PLP or an RTI finds on the stack, is any.                 *)
(***************************************************************************)
EXTENDS Integers

CONSTANTS
  Sources,       \* the level-triggered sources, bits of cpu.irq
  PulseMax,      \* saturation of irq_pulse, 255 in the code
  PlainLengths   \* cycles after the first of an instruction without effect
                 \* on interrupts, 1 to 7 on the 6502

ASSUME PulseAssumption == PulseMax \in Nat \ {0}
ASSUME LengthsAssumption == PlainLengths \subseteq Nat \ {0}

VARIABLES
  ms_enabled,    \* the micro-sequenced engine is in use
  halted,        \* a JAM opcode froze the CPU
  flagI,         \* bit I of P
  nmi_pending,   \* an NMI edge not yet taken
  irq,           \* the sources that assert the line
  irq_pulse,     \* one-shot interrupts not yet taken
  ms_active,     \* an instruction or an interrupt sequence is in progress
  op,            \* what it is
  ms_pc,         \* its next micro-operation
  ms_len,        \* its number of micro-operations
  ms_vector,     \* the vector an interrupt sequence will read
  nmi_sampled,   \* the lines as the last sampled cycle saw them
  irq_sampled,
  irq_log,       \* the line of --trace-irq that the last step wrote
  nmi_owed,      \* history: NMI edges whose handler was not yet entered
  wait,          \* history: instruction ends that each request has outlived
  just           \* history: what the last instruction did on its last cycle

lines == <<nmi_pending, irq, irq_pulse>>
sequence == <<op, ms_pc, ms_len, ms_vector>>
samples == <<nmi_sampled, irq_sampled>>
history == <<irq_log, nmi_owed, wait, just>>
vars == <<ms_enabled, halted, flagI, lines, ms_active, sequence, samples, history>>

-----------------------------------------------------------------------------
(* Plans *)

\* BRK and the interrupt sequence share opcode 0 and the shape of their plan.
Entries == {"brk", "int"}
Ops == {"plain", "cli", "sei", "plp", "rti", "brk", "jam"}

\* ms_build_plan and ms_build_interrupt: micro-operations after the first
\* cycle.  A branch is plain: it ends early on its own last cycle.
Lengths(o) ==
  CASE o = "plain" -> PlainLengths
    [] o = "plp" -> {3}
    [] o = "rti" -> {5}
    [] o \in Entries -> {6}
    [] OTHER -> {1}

\* The micro-operation at index k of the plan of o.
MicroOp(o, k) ==
  CASE o \in Entries /\ k = 3 -> "push_p"
    [] o \in Entries /\ k = 5 -> "vec_hi"
    [] o \in {"plp", "rti"} /\ k = 2 -> "pull_p"
    [] o \in {"cli", "sei", "jam"} -> o
    [] OTHER -> "bus"

-----------------------------------------------------------------------------
(* Lines, samples, history *)

Asserted == irq # {} \/ irq_pulse > 0
Interruptible == Asserted /\ ~flagI

\* Variant: the counter of pulses does not saturate.
PulseUnbounded(n) == n + 1

Saturated(n) == IF n < PulseMax THEN n + 1 ELSE n

\* The devices answer the bus access of a cycle: they may drive their lines
\* and send a pulse, on top of the n that are left.
Access(n) ==
  /\ irq' \in SUBSET Sources
  /\ irq_pulse' \in {n, Saturated(n)}

Taken(n) == IF n > 0 THEN n - 1 ELSE 0

\* Variant: a pulse does not reach the sample.
SampleLevelOnly(last) ==
  IF last THEN UNCHANGED samples
  ELSE /\ nmi_sampled' = nmi_pending'
       /\ irq_sampled' = (irq' # {} /\ ~flagI')

\* Variant: the last cycle is sampled like every other.
SampleLastToo(last) ==
  /\ nmi_sampled' = nmi_pending'
  /\ irq_sampled' = Interruptible'

\* At the end of every cycle but the last one of an instruction.
ms_sample_interrupts(last) ==
  IF last THEN UNCHANGED samples
  ELSE /\ nmi_sampled' = nmi_pending'
       /\ irq_sampled' = Interruptible'

\* History: a request still open at the end of an instruction has outlived it.
Outlived(open, n, ended) == IF ~open THEN 0 ELSE IF ended THEN n + 1 ELSE n

Tally(ended) ==
  wait' = [irq |-> Outlived(Interruptible', wait.irq, ended),
           nmi |-> Outlived(nmi_pending', wait.nmi, ended)]

Init ==
  /\ ms_enabled \in BOOLEAN
  /\ halted = FALSE
  /\ flagI = TRUE
  /\ nmi_pending = FALSE
  /\ irq = {}
  /\ irq_pulse = 0
  /\ ms_active = FALSE
  /\ op = "plain"
  /\ ms_pc = 0
  /\ ms_len = 0
  /\ ms_vector = "none"
  /\ nmi_sampled = FALSE
  /\ irq_sampled = FALSE
  /\ irq_log = "none"
  /\ nmi_owed = 0
  /\ wait = [irq |-> 0, nmi |-> 0]
  /\ just = "none"

-----------------------------------------------------------------------------
(* First cycle: an interrupt decided on the samples, or an opcode *)

AtBoundary == ~halted /\ ~ms_active

Begin(o, n, vector) ==
  /\ ms_active' = TRUE
  /\ op' = o
  /\ ms_pc' = 0
  /\ ms_len' = n
  /\ ms_vector' = vector
  /\ irq_log' = "none"
  /\ UNCHANGED <<ms_enabled, halted, flagI, nmi_owed, just>>
  /\ ms_sample_interrupts(FALSE)
  /\ Tally(FALSE)

ms_build_interrupt(vector) == Begin("int", 6, vector)

TakeNmi ==
  /\ ms_enabled /\ AtBoundary
  /\ nmi_sampled /\ nmi_pending
  /\ nmi_pending' = FALSE
  /\ Access(irq_pulse)
  /\ ms_build_interrupt("nmi")

\* The flag I was looked at when the line was sampled, and is not again.
TakeIrq ==
  /\ ms_enabled /\ AtBoundary
  /\ ~(nmi_sampled /\ nmi_pending)
  /\ irq_sampled
  /\ UNCHANGED nmi_pending
  /\ Access(Taken(irq_pulse))
  /\ ms_build_interrupt("irq")

ms_build_plan(o, n) ==
  /\ UNCHANGED nmi_pending
  /\ Access(irq_pulse)
  /\ Begin(o, n, IF o = "brk" THEN "irq" ELSE ms_vector)

Fetch ==
  /\ ms_enabled /\ AtBoundary
  /\ ~(nmi_sampled /\ nmi_pending)
  /\ ~irq_sampled
  /\ \E o \in Ops : \E n \in Lengths(o) : ms_build_plan(o, n)

-----------------------------------------------------------------------------
(* The following cycles, one micro-operation each *)

At(m) == ms_enabled /\ ~halted /\ ms_active /\ MicroOp(op, ms_pc) = m

LastCycle == ms_pc + 1 >= ms_len

\* What the end of an instruction is remembered for.
Ended(i) ==
  CASE op \in Entries -> "entered"
    [] op \notin Entries /\ flagI /\ ~i -> "unmasked"
    [] op \notin Entries /\ ~flagI /\ i -> "masked"
    [] OTHER -> "none"

\* The common tail of cpu_cycle, with i the flag I after the micro-operation.
Advance(i) ==
  /\ Access(irq_pulse)
  /\ flagI' = i
  /\ ms_pc' = ms_pc + 1
  /\ ms_active' = ~LastCycle
  /\ ms_sample_interrupts(LastCycle)
  /\ Tally(LastCycle)
  /\ just' = IF LastCycle THEN Ended(i) ELSE just
  /\ UNCHANGED <<ms_enabled, halted, op, ms_len>>

\* Every cycle that touches no interrupt state; RTI's last one is logged.
BusCycle ==
  /\ At("bus")
  /\ irq_log' = IF op = "rti" /\ LastCycle THEN "rti" ELSE "none"
  /\ UNCHANGED <<nmi_pending, ms_vector, nmi_owed>>
  /\ Advance(flagI)

\* CLI and SEI (ms_implied), the P that PLP or RTI pulls.
FlagCycle ==
  /\ irq_log' = "none"
  /\ UNCHANGED <<nmi_pending, ms_vector, nmi_owed>>
  /\ \/ At("cli") /\ Advance(FALSE)
     \/ At("sei") /\ Advance(TRUE)
     \/ At("pull_p") /\ \E i \in BOOLEAN : Advance(i)

\* Variant: the hijacking NMI stays pending.
HijackKeepsNmi ==
  /\ ms_vector' = IF nmi_pending THEN "nmi" ELSE ms_vector
  /\ UNCHANGED nmi_pending

\* An NMI that comes before P is pushed takes the sequence over.
ms_nmi_hijack ==
  IF nmi_pending /\ ms_vector # "nmi"
  THEN ms_vector' = "nmi" /\ nmi_pending' = FALSE
  ELSE UNCHANGED <<ms_vector, nmi_pending>>

\* Variant: the sequence does not mask interrupts.
PushWithoutMasking ==
  /\ At("push_p")
  /\ ms_nmi_hijack
  /\ Advance(flagI)
  /\ irq_log' = "none"
  /\ UNCHANGED nmi_owed

PushP ==
  /\ At("push_p")
  /\ ms_nmi_hijack
  /\ Advance(TRUE)
  /\ irq_log' = "none"
  /\ UNCHANGED nmi_owed

\* The handler is entered.  The trace skips opcode 0, which stands for BRK
\* and for a hardware interrupt alike.
VecHi ==
  /\ At("vec_hi")
  /\ irq_log' = IF op \notin Entries THEN "entry" ELSE "none"
  /\ nmi_owed' = IF ms_vector = "nmi" THEN nmi_owed - 1 ELSE nmi_owed
  /\ UNCHANGED <<nmi_pending, ms_vector>>
  /\ Advance(flagI)

\* A JAM makes no bus access and freezes the CPU.
Jam ==
  /\ At("jam")
  /\ halted' = TRUE
  /\ ms_active' = FALSE
  /\ irq_log' = "none"
  /\ UNCHANGED <<ms_enabled, flagI, lines, sequence, samples, nmi_owed, wait, just>>

-----------------------------------------------------------------------------
(* cpu_step of the historical engine, an instruction at a time *)

LegacyTail(i, j, log) ==
  /\ flagI' = i
  /\ just' = j
  /\ irq_log' = log
  /\ Tally(TRUE)
  /\ UNCHANGED <<ms_enabled, ms_active, sequence, samples>>

handle_nmi ==
  /\ ~ms_enabled /\ AtBoundary
  /\ nmi_pending
  /\ nmi_pending' = FALSE
  /\ nmi_owed' = nmi_owed - 1
  /\ Access(irq_pulse)
  /\ LegacyTail(TRUE, "entered", "none")
  /\ UNCHANGED halted

handle_irq ==
  /\ ~ms_enabled /\ AtBoundary
  /\ ~nmi_pending
  /\ Interruptible
  /\ UNCHANGED <<halted, nmi_pending, nmi_owed>>
  /\ Access(Taken(irq_pulse))
  /\ LegacyTail(TRUE, "entered", "entry")

cpu_execute_opcode(o) ==
  /\ halted' = (o = "jam")
  /\ \/ o \in {"plain", "jam"} /\ LegacyTail(flagI, "none", "none")
     \/ o = "cli" /\ LegacyTail(FALSE, "none", "none")
     \/ o = "sei" /\ LegacyTail(TRUE, "none", "none")
     \/ o = "plp" /\ \E i \in BOOLEAN : LegacyTail(i, "none", "none")
     \/ o = "rti" /\ \E i \in BOOLEAN : LegacyTail(i, "none", "rti")
     \/ o = "brk" /\ LegacyTail(TRUE, "entered", "none")

LegacyExecute ==
  /\ ~ms_enabled /\ AtBoundary
  /\ ~nmi_pending
  /\ ~Interruptible
  /\ UNCHANGED <<nmi_pending, nmi_owed>>
  /\ Access(irq_pulse)
  /\ \E o \in Ops : cpu_execute_opcode(o)

-----------------------------------------------------------------------------
(* The rest of the machine *)

\* The raster and the cartridge drive their lines between two cycles.
Devices ==
  /\ ~halted
  /\ Access(irq_pulse)
  /\ irq_log' = "none"
  /\ UNCHANGED <<ms_enabled, halted, flagI, nmi_pending, ms_active, sequence,
                 samples, nmi_owed, just>>
  /\ Tally(FALSE)

\* The button and the nmi command act between two instructions.
cpu_nmi ==
  /\ AtBoundary
  /\ nmi_pending' = TRUE
  /\ nmi_owed' = IF nmi_pending THEN nmi_owed ELSE nmi_owed + 1
  /\ irq_log' = "none"
  /\ UNCHANGED <<ms_enabled, halted, flagI, irq, irq_pulse, ms_active, sequence,
                 samples, wait, just>>

\* Between two instructions, or in the bus access of one when it makes the
\* cartridge swap the ROM.
cpu_reset ==
  /\ ms_active => op = "plain"
  /\ halted' = FALSE
  /\ flagI' = TRUE
  /\ nmi_pending' = FALSE
  /\ irq' = {}
  /\ irq_pulse' = 0
  /\ ms_active' = FALSE
  /\ nmi_sampled' = FALSE
  /\ irq_sampled' = FALSE
  /\ irq_log' = "none"
  /\ nmi_owed' = 0
  /\ wait' = [irq |-> 0, nmi |-> 0]
  /\ just' = "none"
  /\ UNCHANGED <<ms_enabled, sequence>>

cpu_cycle ==
  \/ TakeNmi \/ TakeIrq \/ Fetch
  \/ BusCycle \/ FlagCycle \/ PushP \/ VecHi \/ Jam

cpu_step == handle_nmi \/ handle_irq \/ LegacyExecute

Next == cpu_cycle \/ cpu_step \/ Devices \/ cpu_nmi \/ cpu_reset

Spec == Init /\ [][Next]_vars

-----------------------------------------------------------------------------
(* Properties *)

TypeOK ==
  /\ ms_enabled \in BOOLEAN
  /\ halted \in BOOLEAN
  /\ flagI \in BOOLEAN
  /\ nmi_pending \in BOOLEAN
  /\ irq \in SUBSET Sources
  /\ irq_pulse \in 0 .. PulseMax
  /\ ms_active \in BOOLEAN
  /\ op \in Ops \cup {"int"}
  /\ ms_pc \in Nat
  /\ ms_len \in Nat
  /\ ms_vector \in {"none", "nmi", "irq"}
  /\ nmi_sampled \in BOOLEAN
  /\ irq_sampled \in BOOLEAN
  /\ irq_log \in {"none", "entry", "rti"}
  /\ nmi_owed \in Int
  /\ wait \in [irq : Nat, nmi : Nat]
  /\ just \in {"none", "entered", "unmasked", "masked"}

Entering == ms_active /\ op \in Entries

\* Every NMI edge enters the NMI handler exactly once, and the handler is
\* entered for nothing else: an edge is either still pending or has a sequence
\* under way that will read the NMI vector, be it its own sequence or the BRK
\* or IRQ sequence it took over (ms_nmi_hijack).
NmiServedOnce ==
  nmi_owed = (IF nmi_pending THEN 1 ELSE 0)
             + (IF Entering /\ ms_vector = "nmi" THEN 1 ELSE 0)

\* No request is passed over: an IRQ that stays asserted and unmasked outlives
\* the end of the instruction it arrived in and of one more, an NMI the end of
\* one instruction, and no other.
InterruptLatency == wait.irq <= 2 /\ wait.nmi <= 1

\* A handler always runs its first instruction before an IRQ can interrupt
\* it: no IRQ is taken directly after an interrupt sequence or a BRK, though
\* the line is still asserted (cpu6502.c, "The I flag prevents re-entry").
HandlerRunsFirst ==
  [][TakeIrq \/ handle_irq => just # "entered"]_vars

\* A change of I on the last cycle of CLI, SEI or PLP comes one instruction
\* late: no IRQ is taken directly after an instruction that cleared I so, and
\* one is taken with I set only directly after an instruction that set I so
\* (microseq.c, cpu_cycle, on the missing test of FLAG_INTERRUPT).
FlagIsDelayed ==
  [][TakeIrq => just # "unmasked" /\ (flagI => just = "masked")]_vars

\* --trace-irq logs every IRQ entry, on both engines.
TraceLogsIrqEntries ==
  [][handle_irq \/ (VecHi /\ op = "int" /\ ms_vector = "irq")
       => irq_log' = "entry"]_vars

=============================================================================
