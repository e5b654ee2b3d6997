------------------------------- MODULE ViaChip -------------------------------
(***************************************************************************)
(* The 6522 VIA of io/via6522.c as a value and the functions of that file  *)
(* as operators from chip to chip.                                         *)
(*                                                                         *)
(* A chip is a record of the register groups: the two timers, the shift    *)
(* register, ACR and PCR decoded into their fields, the control pins and   *)
(* the interrupt logic.  The port data (ORA, ORB, DDRs, input latches) is  *)
(* left out: no timer, flag or line depends on it.                         *)
(*                                                                         *)
(* Byte is 256 and SrBits is 8 in the code.  Counters are words of two     *)
(* bytes, and all arithmetic on them wraps at those widths.                *)
(***************************************************************************)
EXTENDS Integers

CONSTANTS
  Byte,    \* number of values of a byte
  SrBits   \* width of the shift register

ASSUME ByteAssumption == Byte \in Nat /\ Byte >= 2
ASSUME SrBitsAssumption == SrBits \in Nat /\ SrBits >= 2

Word == Byte * Byte
Lo(w) == w % Byte
Hi(w) == w \div Byte
WordOf(hi, lo) == hi * Byte + lo

Bytes == 0 .. Byte - 1
Words == 0 .. Word - 1

Flags == {"T1", "T2", "SR", "CA1", "CA2", "CB1", "CB2"}

\* ACR bits 4-2, in the order of their codes.
SrModes == {"off", "in_t2", "in_phi2", "in_cb1",
            "free", "out_t2", "out_phi2", "out_cb1"}
OutModes == {"free", "out_t2", "out_phi2", "out_cb1"}
Phi2Modes == {"in_phi2", "out_phi2"}
Cb1Modes == {"in_cb1", "out_cb1"}

\* PCR, CA2 and CB2 control: input (000-011), then output modes.
InputModes == {"in_fall", "ind_fall", "in_rise", "ind_rise"}
IndependentModes == {"ind_fall", "ind_rise"}
RisingModes == {"in_rise", "ind_rise"}
Modes2 == InputModes \cup {"handshake", "pulse", "low", "high"}

Acr == [pb7 : BOOLEAN, freerun : BOOLEAN, pulse : BOOLEAN, mode : SrModes]
Pcr == [ca1 : BOOLEAN, ca2 : Modes2, cb1 : BOOLEAN, cb2 : Modes2]

Timer1 == [counter : Words, latch : Words, running : BOOLEAN,
           active : BOOLEAN, reload : BOOLEAN, pb7 : BOOLEAN]
Timer2 == [counter : Words, latch : Bytes, running : BOOLEAN,
           active : BOOLEAN, phi2 : BOOLEAN, hold : BOOLEAN,
           reload : BOOLEAN]
ShiftReg == [bits : [1 .. SrBits -> BOOLEAN], active : BOOLEAN,
             count : 0 .. 2 * SrBits - 1, delay : 0 .. 3, t2_pending : 0 .. 2]
Pins == [ca1 : BOOLEAN, cb1 : BOOLEAN, ca2 : BOOLEAN, cb2 : BOOLEAN,
         ca2_in : BOOLEAN, cb2_in : BOOLEAN,
         ca2_pulse : 0 .. 1, cb2_pulse : 0 .. 1]
\* any is IFR bit 7, line is irq_line, cpu the bit IRQF_VIA of cpu.irq as
\* irq_callback drives it.  The button of the LOCI card borrows that bit for
\* its trap; this is not modelled.
Irq == [ifr : SUBSET Flags, ier : SUBSET Flags, any : BOOLEAN,
        line : BOOLEAN, cpu : BOOLEAN]

Chip == [t1 : Timer1, t2 : Timer2, sr : ShiftReg, acr : Acr, pcr : Pcr,
         pins : Pins, irq : Irq]

via_reset ==
  [t1 |-> [counter |-> Word - 1, latch |-> Word - 1, running |-> FALSE,
           active |-> FALSE, reload |-> FALSE, pb7 |-> TRUE],
   t2 |-> [counter |-> Word - 1, latch |-> Byte - 1, running |-> FALSE,
           active |-> FALSE, phi2 |-> TRUE, hold |-> FALSE,
           reload |-> FALSE],
   sr |-> [bits |-> [i \in 1 .. SrBits |-> FALSE], active |-> FALSE,
           count |-> 0, delay |-> 0, t2_pending |-> 0],
   acr |-> [pb7 |-> FALSE, freerun |-> FALSE, pulse |-> FALSE, mode |-> "off"],
   pcr |-> [ca1 |-> FALSE, ca2 |-> "in_fall", cb1 |-> FALSE, cb2 |-> "in_fall"],
   pins |-> [ca1 |-> TRUE, cb1 |-> TRUE, ca2 |-> FALSE, cb2 |-> FALSE,
             ca2_in |-> FALSE, cb2_in |-> FALSE,
             ca2_pulse |-> 0, cb2_pulse |-> 0],
   irq |-> [ifr |-> {}, ier |-> {}, any |-> FALSE, line |-> FALSE,
            cpu |-> FALSE]]

-----------------------------------------------------------------------------
(* Interrupt logic *)

\* Bit 7 and the line follow the enabled flags; the CPU hears transitions.
via_check_irq(q) ==
  LET on == q.ifr \cap q.ier # {}
  IN [q EXCEPT !.any = on, !.line = on,
               !.cpu = IF on # q.line THEN on ELSE @]

Raise(v, F) == [v EXCEPT !.irq = via_check_irq([v.irq EXCEPT !.ifr = @ \cup F])]
Lower(v, F) == [v EXCEPT !.irq = via_check_irq([v.irq EXCEPT !.ifr = @ \ F])]

-----------------------------------------------------------------------------
(* Shift register *)

ShiftLeft(bits, b) ==
  [i \in 1 .. SrBits |-> IF i < SrBits THEN bits[i + 1] ELSE b]

\* One shift: out rotates through CB2, in samples CB2.
Shifted(v) ==
  LET out == v.acr.mode \in OutModes
      msb == v.sr.bits[1]
      in == IF out THEN msb ELSE v.pins.cb2_in
  IN [v EXCEPT !.sr = [v.sr EXCEPT !.bits = ShiftLeft(@, in)],
               !.pins = [v.pins EXCEPT !.cb2 = IF out THEN msb ELSE @]]

\* The counter advances; the last count of a sequence stops it and raises SR,
\* except in the free-running mode.
Counted(v, limit) ==
  IF v.sr.count + 1 < limit
  THEN [v EXCEPT !.sr = [v.sr EXCEPT !.count = @ + 1]]
  ELSE IF v.acr.mode = "free"
  THEN [v EXCEPT !.sr = [v.sr EXCEPT !.count = 0]]
  ELSE Raise([v EXCEPT !.sr = [v.sr EXCEPT !.count = 0, !.active = FALSE]], {"SR"})

via_do_shift(v) == Counted(Shifted(v), SrBits)

\* One half-period of CB1: out shifts on the even ones, in on the odd ones.
via_sr_event(v) ==
  LET parity == IF v.acr.mode \in OutModes THEN 0 ELSE 1
  IN IF v.acr.mode = "off" \/ ~v.sr.active THEN v
     ELSE Counted(IF v.sr.count % 2 = parity THEN Shifted(v) ELSE v,
                  2 * SrBits)

via_sr_access(v) ==
  CASE v.acr.mode = "off" -> v
    [] v.acr.mode = "free" -> [v EXCEPT !.sr = [v.sr EXCEPT !.active = TRUE]]
    [] OTHER -> IF v.sr.active THEN v
                ELSE [v EXCEPT !.sr =
                       [v.sr EXCEPT !.active = TRUE, !.count = 0,
                                 !.delay = IF v.acr.mode \in Phi2Modes
                                           THEN 1 ELSE @]]

-----------------------------------------------------------------------------
(* One cycle: the stages of via_update, in the order of the code *)

\* A pulse output returns high after its cycle.
PulseStage(v) ==
  [v EXCEPT !.pins =
    [v.pins EXCEPT !.ca2 = @ \/ v.pins.ca2_pulse > 0, !.ca2_pulse = 0,
              !.cb2 = @ \/ v.pins.cb2_pulse > 0, !.cb2_pulse = 0]]

\* Variant: the timer fires when it reaches zero, one cycle early.
T1FiresAtZero(v) ==
  LET t == v.t1
      under == [t EXCEPT !.counter = Word - 1, !.reload = TRUE]
  IN IF ~t.active THEN v
     ELSE IF t.reload
     THEN [v EXCEPT !.t1 = [t EXCEPT !.counter = t.latch, !.reload = FALSE]]
     ELSE IF t.counter > 1
     THEN [v EXCEPT !.t1 = [t EXCEPT !.counter = @ - 1]]
     ELSE IF ~t.running THEN [v EXCEPT !.t1 = under]
     ELSE Raise([v EXCEPT !.t1 = [under EXCEPT !.pb7 = ~@,
                                               !.running = v.acr.freerun]],
                {"T1"})

\* Timer 1: reload cycle, countdown, or underflow with its single interrupt
\* when the timer was still armed.
T1Stage(v) ==
  LET t == v.t1
      under == [t EXCEPT !.counter = Word - 1, !.reload = TRUE]
  IN IF ~t.active THEN v
     ELSE IF t.reload
     THEN [v EXCEPT !.t1 = [t EXCEPT !.counter = t.latch, !.reload = FALSE]]
     ELSE IF t.counter > 0
     THEN [v EXCEPT !.t1 = [t EXCEPT !.counter = @ - 1]]
     ELSE IF ~t.running THEN [v EXCEPT !.t1 = under]
     ELSE Raise([v EXCEPT !.t1 = [under EXCEPT !.pb7 = ~@,
                                               !.running = v.acr.freerun]],
                {"T1"})

\* The shift event that a timer 2 underflow scheduled two cycles ago.
SrT2Stage(v) ==
  IF v.sr.t2_pending = 0 THEN v
  ELSE LET w == [v EXCEPT !.sr = [v.sr EXCEPT !.t2_pending = @ - 1]]
       IN IF w.sr.t2_pending = 0 THEN via_sr_event(w) ELSE w

via_t2_8bit(v) == v.acr.mode \in {"in_t2", "free", "out_t2"}

\* Timer 2 on 8 bits: the low byte reloads, each of its underflows takes one
\* from the high byte and schedules a shift event.
T2Count8(v) ==
  LET t == v.t2
      hi == Hi(t.counter)
      lo == Lo(t.counter)
      fires == hi = 0 /\ t.running
      under == [v EXCEPT
                 !.t2 = [t EXCEPT !.counter = WordOf((hi - 1) % Byte, Byte - 1),
                                  !.reload = TRUE,
                                  !.running = @ /\ ~fires],
                 !.sr = [v.sr EXCEPT !.t2_pending = 2]]
  IN IF t.reload
     THEN [v EXCEPT !.t2 = [t EXCEPT !.counter = WordOf(hi, t.latch),
                                     !.reload = FALSE]]
     ELSE IF lo > 0
     THEN [v EXCEPT !.t2 = [t EXCEPT !.counter = WordOf(hi, lo - 1)]]
     ELSE IF fires THEN Raise(under, {"T2"})
     ELSE under

\* Variant: the counter does not wrap.
T2NoWrap(v) ==
  LET t == v.t2
      w == [v EXCEPT !.t2 = [t EXCEPT !.counter = @ - 1,
                                      !.running = @ /\ t.counter # 0]]
  IN IF t.counter = 0 /\ t.running THEN Raise(w, {"T2"}) ELSE w

\* Timer 2 on 16 bits: wraps, one interrupt per load.
T2Count16(v) ==
  LET t == v.t2
      w == [v EXCEPT !.t2 = [t EXCEPT !.counter = (@ - 1) % Word,
                                      !.running = @ /\ t.counter # 0]]
  IN IF t.counter = 0 /\ t.running THEN Raise(w, {"T2"}) ELSE w

\* The mode of timer 2 selected by ACR takes effect one cycle late.
T2Stage(v) ==
  LET w == [v EXCEPT !.t2 = [v.t2 EXCEPT !.phi2 = ~v.acr.pulse, !.hold = FALSE]]
  IN IF ~v.t2.active \/ ~v.t2.phi2 \/ v.t2.hold THEN w
     ELSE IF via_t2_8bit(v) THEN T2Count8(w) ELSE T2Count16(w)

SrPhi2Stage(v) ==
  IF v.acr.mode \notin Phi2Modes THEN v
  ELSE IF v.sr.delay > 0 THEN [v EXCEPT !.sr = [v.sr EXCEPT !.delay = @ - 1]]
  ELSE via_sr_event(v)

\* via_update(via, 1)
via_step(v) == SrPhi2Stage(T2Stage(SrT2Stage(T1Stage(PulseStage(v)))))

\* F applied n times to v.
Times(F(_), n, v) ==
  LET go[k \in 0 .. n] == IF k = 0 THEN v ELSE F(go[k - 1]) IN go[n]

T2Cycle(v) == T2Stage(SrT2Stage(v))

\* Variant: the shift events of timer 2 have a loop of their own.
BatchSplitsT2(v, n) ==
  Times(SrPhi2Stage, n,
        Times(T2Stage, n, Times(SrT2Stage, n, Times(T1Stage, n, PulseStage(v)))))

\* via_update(via, n), the batches of the historical core: each stage has its
\* own loop over the n cycles.
via_update(v, n) ==
  Times(SrPhi2Stage, n, Times(T2Cycle, n, Times(T1Stage, n, PulseStage(v))))

-----------------------------------------------------------------------------
(* The lazy path *)

\* Variant: the reload cycle of timer 1 is overlooked.
EventNearButReload(v) ==
  \/ v.pins.ca2_pulse > 0 \/ v.pins.cb2_pulse > 0
  \/ v.sr.t2_pending > 0 \/ v.sr.delay > 0
  \/ v.acr.mode \in Phi2Modes /\ v.sr.active
  \/ v.t2.hold \/ v.t2.phi2 # ~v.acr.pulse
  \/ v.t2.active /\ v.t2.phi2 /\ via_t2_8bit(v) /\ v.t2.reload

\* An event may happen in the next cycle, whatever the counters hold.
EventNear(v) ==
  \/ v.pins.ca2_pulse > 0 \/ v.pins.cb2_pulse > 0
  \/ v.sr.t2_pending > 0 \/ v.sr.delay > 0
  \/ v.acr.mode \in Phi2Modes /\ v.sr.active
  \/ v.t1.active /\ v.t1.reload
  \/ v.t2.hold \/ v.t2.phi2 # ~v.acr.pulse
  \/ v.t2.active /\ v.t2.phi2 /\ via_t2_8bit(v) /\ v.t2.reload

\* The number of coming cycles that only count down.
via_quiet(v) ==
  LET q1 == IF v.t1.active THEN v.t1.counter ELSE Word - 1
      q2 == IF ~v.t2.active \/ ~v.t2.phi2 THEN Word - 1
            ELSE IF via_t2_8bit(v) THEN Lo(v.t2.counter) ELSE v.t2.counter
  IN IF EventNear(v) THEN 0 ELSE IF q1 < q2 THEN q1 ELSE q2

\* The n cycles that via_tick only counted are applied at once.
via_sync(v, n) ==
  IF n = 0 THEN v
  ELSE [v EXCEPT
         !.t1 = [v.t1 EXCEPT !.counter = IF v.t1.active THEN (@ - n) % Word ELSE @],
         !.t2 = [v.t2 EXCEPT !.counter =
                  IF ~v.t2.active \/ ~v.t2.phi2 THEN @
                  ELSE IF via_t2_8bit(v) THEN WordOf(Hi(@), Lo(@ - n))
                  ELSE (@ - n) % Word]]

-----------------------------------------------------------------------------
(* Register accesses: via_read and via_write after their via_sync *)

\* An access to a port clears the flag of line 1, and of line 2 unless line 2
\* is an independent interrupt input.
PortFlags(one, two, mode) ==
  {one} \cup (IF mode \in IndependentModes THEN {} ELSE {two})

via_ca2_port_access(v) ==
  IF v.pcr.ca2 \notin {"handshake", "pulse"} THEN v
  ELSE [v EXCEPT !.pins =
         [v.pins EXCEPT !.ca2 = FALSE,
                   !.ca2_pulse = IF v.pcr.ca2 = "pulse" THEN 1 ELSE @]]

via_cb2_port_access(v) ==
  IF v.pcr.cb2 \notin {"handshake", "pulse"} THEN v
  ELSE [v EXCEPT !.pins =
         [v.pins EXCEPT !.cb2 = FALSE,
                   !.cb2_pulse = IF v.pcr.cb2 = "pulse" THEN 1 ELSE @]]

\* Reading ORB has no handshake; writing it has.
read_ORB(v) == Lower(v, PortFlags("CB1", "CB2", v.pcr.cb2))
write_ORB(v) == via_cb2_port_access(read_ORB(v))

\* ORA, read or written.
access_ORA(v) == via_ca2_port_access(Lower(v, PortFlags("CA1", "CA2", v.pcr.ca2)))

read_T1CL(v) == Lower(v, {"T1"})
read_T2CL(v) == Lower(v, {"T2"})

\* The shift register read, or written with new bits.
read_SR(v) == via_sr_access(Lower(v, {"SR"}))
write_SR(v, bits) ==
  via_sr_access(Lower([v EXCEPT !.sr = [v.sr EXCEPT !.bits = bits]], {"SR"}))

\* T1CL and T1LL are the same latch.
write_T1LL(v, b) ==
  [v EXCEPT !.t1 = [v.t1 EXCEPT !.latch = WordOf(Hi(@), b)]]

write_T1CH(v, b) ==
  LET w == WordOf(b, Lo(v.t1.latch))
  IN Lower([v EXCEPT !.t1 = [counter |-> w, latch |-> w, running |-> TRUE,
                             active |-> TRUE, reload |-> TRUE,
                             pb7 |-> FALSE]], {"T1"})

\* Variant: the latch write clears the flag and forgets via_check_irq.
T1LHWithoutCheck(v, b) ==
  [v EXCEPT !.t1 = [v.t1 EXCEPT !.latch = WordOf(b, Lo(@))],
            !.irq = [v.irq EXCEPT !.ifr = @ \ {"T1"}]]

write_T1LH(v, b) ==
  Lower([v EXCEPT !.t1 = [v.t1 EXCEPT !.latch = WordOf(b, Lo(@))]], {"T1"})

write_T2CL(v, b) == [v EXCEPT !.t2 = [v.t2 EXCEPT !.latch = b]]

write_T2CH(v, b) ==
  Lower([v EXCEPT !.t2 =
          [v.t2 EXCEPT !.counter = WordOf(b, v.t2.latch), !.running = TRUE,
                    !.active = TRUE, !.hold = TRUE, !.reload = FALSE]],
        {"T2"})

\* Variant: another mode starts the count of the byte again.
AcrRestartsCount(v, a) ==
  LET w == [v EXCEPT
             !.acr = a,
             !.t1 = [v.t1 EXCEPT !.pb7 = @ \/ (a.pb7 /\ ~v.acr.pb7)],
             !.sr = [v.sr EXCEPT !.active = @ \/ a.mode = "free",
                              !.count = IF a.mode = v.acr.mode THEN @ ELSE 0,
                              !.delay = IF /\ a.mode \in Phi2Modes
                                           /\ v.acr.mode \notin Phi2Modes
                                        THEN 3 ELSE @]]
  IN IF a.mode = "off" THEN Lower(w, {"SR"}) ELSE w

\* A write to ACR: PB7 is preset, the free-running mode starts by itself, the
\* disabled mode holds the SR flag at 0, a change to a phi2 mode delays.
write_ACR(v, a) ==
  LET w == [v EXCEPT
             !.acr = a,
             !.t1 = [v.t1 EXCEPT !.pb7 = @ \/ (a.pb7 /\ ~v.acr.pb7)],
             !.sr = [v.sr EXCEPT !.active = @ \/ a.mode = "free",
                              !.delay = IF /\ a.mode \in Phi2Modes
                                           /\ v.acr.mode \notin Phi2Modes
                                        THEN 3 ELSE @]]
  IN IF a.mode = "off" THEN Lower(w, {"SR"}) ELSE w

write_PCR(v, p) == [v EXCEPT !.pcr = p]

write_IFR(v, F) == Lower(v, F)

write_IER(v, set, F) ==
  [v EXCEPT !.irq = via_check_irq([v.irq EXCEPT !.ier = IF set THEN @ \cup F
                                                    ELSE @ \ F])]

-----------------------------------------------------------------------------
(* Pins driven by the devices around the chip *)

\* old to new is the edge that rising selects.
ActiveEdge(rising, old, new) == old # new /\ new = rising

via_set_ca1(v, b) ==
  LET edge == ActiveEdge(v.pcr.ca1, v.pins.ca1, b)
      done == edge /\ v.pcr.ca2 = "handshake"
      w == [v EXCEPT !.pins = [v.pins EXCEPT !.ca1 = b, !.ca2 = @ \/ done]]
  IN IF edge THEN Raise(w, {"CA1"}) ELSE w

via_set_cb1(v, b) ==
  LET edge == ActiveEdge(v.pcr.cb1, v.pins.cb1, b)
      done == edge /\ v.pcr.cb2 = "handshake"
      w == [v EXCEPT !.pins = [v.pins EXCEPT !.cb1 = b, !.cb2 = @ \/ done]]
  IN IF edge THEN Raise(w, {"CB1"}) ELSE w

via_set_ca2_input(v, b) ==
  LET w == [v EXCEPT !.pins = [v.pins EXCEPT !.ca2_in = b]]
  IN IF /\ v.pcr.ca2 \in InputModes
        /\ ActiveEdge(v.pcr.ca2 \in RisingModes, v.pins.ca2_in, b)
     THEN Raise(w, {"CA2"}) ELSE w

via_set_cb2_input(v, b) ==
  LET w == [v EXCEPT !.pins = [v.pins EXCEPT !.cb2_in = b]]
  IN IF /\ v.pcr.cb2 \in InputModes
        /\ ActiveEdge(v.pcr.cb2 \in RisingModes, v.pins.cb2_in, b)
     THEN Raise(w, {"CB2"}) ELSE w

\* CA1, CA2 and CB2 are triggered by their flag, CB1 by a low pulse.
via_trigger(v, f) == Raise(v, {f})
via_trigger_cb1(v) == via_set_cb1(via_set_cb1(v, FALSE), TRUE)

via_shift_clock(v) ==
  IF v.acr.mode \in Cb1Modes /\ v.sr.active THEN via_do_shift(v) ELSE v

via_pb6_pulse(v) ==
  IF v.t2.active /\ v.acr.pulse THEN T2Count16(v) ELSE v

-----------------------------------------------------------------------------
(* Every call the emulator makes on a chip, as a relation from the chip    *)
(* before to the chip after.  A program p is what the software and the     *)
(* devices of a machine do with the chip: the calls they make, the values  *)
(* they write to ACR, to PCR and to the timers, and the interrupt flags    *)
(* they handle.                                                            *)

Calls == {"ports", "t1", "t2", "sr", "acr", "pcr", "irq", "lines", "pb6"}

Program == [calls : SUBSET Calls, acr : SUBSET Acr, pcr : SUBSET Pcr,
            flags : SUBSET Flags, bytes : SUBSET Bytes]

\* The programs under consideration.
CONSTANT Programs

ASSUME ProgramsAssumption == Programs \subseteq Program

PortAccess(v, w) ==
  \/ w = read_ORB(v)
  \/ w = write_ORB(v)
  \/ w = access_ORA(v)

T1Access(v, w, B) ==
  \/ w = read_T1CL(v)
  \/ \E b \in B : w = write_T1LL(v, b)
  \/ \E b \in B : w = write_T1CH(v, b)
  \/ \E b \in B : w = write_T1LH(v, b)

T2Access(v, w, B) ==
  \/ w = read_T2CL(v)
  \/ \E b \in B : w = write_T2CL(v, b)
  \/ \E b \in B : w = write_T2CH(v, b)

SrAccess(v, w) ==
  \/ w = read_SR(v)
  \/ \E bits \in [1 .. SrBits -> BOOLEAN] : w = write_SR(v, bits)
  \/ w = via_shift_clock(v)

IrqAccess(v, w, F) ==
  \/ \E f \in F : w = write_IFR(v, {f})
  \/ \E f \in F, set \in BOOLEAN : w = write_IER(v, set, {f})

LineChange(v, w, F) ==
  \/ \E b \in BOOLEAN : w = via_set_ca1(v, b)
  \/ \E b \in BOOLEAN : w = via_set_ca2_input(v, b)
  \/ \E b \in BOOLEAN : w = via_set_cb1(v, b)
  \/ \E b \in BOOLEAN : w = via_set_cb2_input(v, b)
  \/ w = via_trigger_cb1(v)
  \/ \E f \in F \cap {"CA1", "CA2", "CB2"} : w = via_trigger(v, f)

Called(v, w, p) ==
  \/ w = v                        \* the reads and writes of plain registers
  \/ "ports" \in p.calls /\ PortAccess(v, w)
  \/ "t1" \in p.calls /\ T1Access(v, w, p.bytes)
  \/ "t2" \in p.calls /\ T2Access(v, w, p.bytes)
  \/ "sr" \in p.calls /\ SrAccess(v, w)
  \/ "acr" \in p.calls /\ \E a \in p.acr : w = write_ACR(v, a)
  \/ "pcr" \in p.calls /\ \E c \in p.pcr : w = write_PCR(v, c)
  \/ "irq" \in p.calls /\ IrqAccess(v, w, p.flags)
  \/ "lines" \in p.calls /\ LineChange(v, w, p.flags)
  \/ "pb6" \in p.calls /\ w = via_pb6_pulse(v)

=============================================================================
