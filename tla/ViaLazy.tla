------------------------------- MODULE ViaLazy -------------------------------
(***************************************************************************)
(* The VIA as the emulator runs it: via_tick only counts a cycle in which  *)
(* nothing can happen, and every access first applies what was skipped.    *)
(***************************************************************************)
EXTENDS ViaChip

VARIABLES
  via,      \* the chip as it is stored, short of the pending cycles
  quiet,    \* coming cycles that may be skipped
  pending,  \* skipped cycles still to apply
  prog,     \* the program that uses the chip
  t1log,    \* history: cycles since the last underflow or load of timer 1,
            \* and the value its reload cycle loaded
  srlog     \* history: the byte a shift-out sequence was given, the last
            \* levels it put on CB2, and whether it may still be followed

vars == <<via, quiet, pending, prog, t1log, srlog>>

\* A level of CB2 is a singleton; the empty set stands for no level yet.
ShiftLog == [byte : [1 .. SrBits -> BOOLEAN],
             line : [1 .. SrBits -> SUBSET BOOLEAN], whole : BOOLEAN]

\* No byte is followed.
Lost == [byte |-> via_reset.sr.bits, line |-> [i \in 1 .. SrBits |-> {}],
         whole |-> FALSE]

\* The chip that a stepwise emulation would show now.
Synced == via_sync(via, pending)

Init ==
  /\ via = via_reset
  /\ quiet = 0
  /\ pending = 0
  /\ prog \in Programs
  /\ t1log = [gap |-> 0, loaded |-> 0]
  /\ srlog = Lost

-----------------------------------------------------------------------------
(* History *)

\* Timer 1 underflows in the step from v to w.
Underflow(v, w) == v.t1.active /\ ~v.t1.reload /\ w.t1.reload

\* An even half-period of the shift clock passes in the cycle from v to w.
Falls(v, w) ==
  LET n == (w.sr.count - v.sr.count) % (2 * SrBits)
  IN v.sr.active /\ (n = 2 \/ (n = 1 /\ v.sr.count % 2 = 0))

\* The level of CB2 follows the ones before.
Put(log, w) ==
  [log EXCEPT !.line = [i \in 1 .. SrBits |-> IF i < SrBits THEN log.line[i + 1]
                                             ELSE {w.pins.cb2}]]

LogTick(v, w) ==
  /\ t1log' = [gap |-> IF ~v.t1.active \/ Underflow(v, w) THEN 0
                       ELSE t1log.gap + 1,
               loaded |-> IF v.t1.active /\ v.t1.reload THEN v.t1.latch
                          ELSE t1log.loaded]
  /\ srlog' = IF srlog.whole /\ Falls(v, w) THEN Put(srlog, w) ELSE srlog

\* The modes that shift out, or pause, on the half-periods of the chip's own
\* clocks; CB1 counts whole shifts, so that a byte does not survive a change
\* between the two.
HalfPeriodModes == {"off", "free", "out_t2", "out_phi2"}
Follows(v, w) == v.acr.mode = w.acr.mode \/ {v.acr.mode, w.acr.mode} \subseteq HalfPeriodModes

\* A shift-out sequence starts with nothing left over from before.
Fresh(w) ==
  /\ w.sr.count = 0 /\ w.acr.mode \in OutModes
  /\ w.acr.mode = "out_cb1" => w.sr.t2_pending = 0

Cb1Clocks(v, w) == v.acr.mode = "out_cb1" /\ w.sr.count # v.sr.count

\* A pending reload cycle after a call means that the timer was just loaded,
\* or that it underflowed and no cycle has passed since.  A byte is followed
\* until its register is written again or the mode leaves its clocks.
LogCall(v, w) ==
  /\ t1log' = [t1log EXCEPT !.gap = IF w.t1.reload THEN 0 ELSE @]
  /\ srlog' =
       IF ~v.sr.active /\ w.sr.active
       THEN IF Fresh(w) THEN [Lost EXCEPT !.byte = w.sr.bits, !.whole = TRUE] ELSE Lost
       ELSE IF ~srlog.whole \/ ~v.sr.active THEN srlog
       ELSE IF Cb1Clocks(v, w) THEN Put(srlog, w)
       ELSE IF Follows(v, w) /\ w.sr.bits = v.sr.bits THEN srlog
       ELSE Lost

-----------------------------------------------------------------------------
(* via_tick and via_sync *)

\* A cycle in which nothing can happen is only counted.
SkipTick ==
  /\ quiet > 0
  /\ quiet' = quiet - 1
  /\ pending' = pending + 1
  /\ UNCHANGED <<via, prog>>
  /\ LogTick(via, via)

\* via_update(via, 1): apply what was skipped, carry the cycle out, and look
\* ahead again.
FullTick ==
  /\ quiet = 0
  /\ via' = via_step(Synced)
  /\ pending' = 0
  /\ quiet' = via_quiet(via')
  /\ UNCHANGED prog
  /\ LogTick(Synced, via')

\* Variant: an access applies the skipped cycles and keeps the old promise.
CallKeepsQuiet ==
  /\ Called(Synced, via', prog)
  /\ pending' = 0
  /\ UNCHANGED <<quiet, prog>>
  /\ LogCall(Synced, via')

\* Every access applies what was skipped and withdraws the promise of quiet.
Call ==
  /\ Called(Synced, via', prog)
  /\ quiet' = 0
  /\ pending' = 0
  /\ UNCHANGED prog
  /\ LogCall(Synced, via')

\* cpu_reset clears the CPU's interrupt sources and leaves the chip alone.
Unheard(v) == [v EXCEPT !.irq = [v.irq EXCEPT !.cpu = FALSE]]

cpu_reset ==
  /\ via' = Unheard(via)
  /\ UNCHANGED <<quiet, pending, prog, t1log, srlog>>

Next == SkipTick \/ FullTick \/ Call \/ cpu_reset

Spec == Init /\ [][Next]_vars

-----------------------------------------------------------------------------
(* Properties *)

TypeOK ==
  /\ via \in Chip
  /\ quiet \in Words
  /\ pending \in Words
  /\ prog \in Programs
  /\ t1log \in [gap : Nat, loaded : Words]
  /\ srlog \in ShiftLog

Stepwise == INSTANCE SteppedDevice WITH
  dev <- Synced, user <- prog, Reset <- via_reset, Step <- via_step,
  Answers <- Called, Unheard <- Unheard, Users <- Programs

\* The lazy path is exact: with the skipped cycles applied, the chip is at
\* every moment the chip that the stepwise emulation would have, flags, line
\* and pins included (the claim of the comment above via_t2_8bit).
LazyIsExact == Stepwise!Spec

\* Nothing that is read without via_sync can be out of date: the interrupt
\* line, PB7 and the pins of a chip with skipped cycles are those a stepwise
\* chip would show, because a skipped cycle only moves counters; and skipped
\* and still promised cycles together stay below the next underflow.
SkippedCyclesAreQuiet ==
  pending + quiet > 0 => pending + quiet <= via_quiet(via)

\* The interrupt line never gets out of step with the flags: bit 7 of IFR and
\* irq_line tell whether an enabled flag is set, and the CPU never holds an
\* interrupt of the VIA that the VIA does not assert (via_check_irq is called
\* after every change of IFR or IER).
IrqLineFollowsFlags ==
  /\ via.irq.any = via.irq.line
  /\ via.irq.line = (via.irq.ifr \cap via.irq.ier # {})
  /\ via.irq.cpu => via.irq.line

\* Skipping cycles shows neither in the timers nor in the interrupt line
\* (via_tick, via_quiet, via_check_irq).
SkippingIsSound == SkippedCyclesAreQuiet /\ IrqLineFollowsFlags

\* The CPU hears the line at every moment: IRQF_VIA is the level of irq_line
\* (main.c, "VIA IRQ callback - level-triggered: set/clear VIA IRQ source bit").
LineIsHeard == via.irq.line => via.irq.cpu

\* Timer 1 has the period of the datasheet: an underflow comes N + 2 cycles
\* after the previous one, or after the write that started it, where N is
\* what the reload cycle in between took from the latch, however many of
\* those cycles were skipped and whatever was accessed meanwhile.
T1PeriodIsNPlus2 ==
  [][(SkipTick \/ FullTick) /\ Underflow(Synced, Synced')
       => t1log.gap + 1 = t1log.loaded + 2]_vars

\* A byte is put on CB2 whole and in order: when its sequence ends, the last
\* levels of CB2 were its bits, the highest first, and the register has turned
\* once; whether T2, phi2 or CB1 clocked it, and whatever the mode was changed
\* to in the middle of the byte, as long as the clocks stayed the chip's own
\* ones, were held, or were CB1 alone (via_do_shift, via_sr_event).
ShiftOutIsComplete ==
  [][srlog.whole /\ Synced.sr.active /\ ~Synced'.sr.active
       => /\ srlog'.line = [i \in 1 .. SrBits |-> {srlog.byte[i]}]
          /\ Synced'.sr.bits = srlog.byte]_vars

\* A batch of the historical core is as good as its cycles one by one: the
\* separate loops of via_update over timer 1, timer 2 and the shift register
\* cannot be told from n full steps.
BatchIsExact ==
  \A n \in 2 .. 3 : via_update(via, n) = Times(via_step, n, via)

=============================================================================
