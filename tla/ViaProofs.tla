------------------------------ MODULE ViaProofs ------------------------------
(***************************************************************************)
(* Theorems about the lazy VIA, for every width of a byte and of the shift *)
(* register and for every set of programs.                                 *)
(***************************************************************************)
EXTENDS ViaLazy, TLAPS

\* What IrqLineFollowsFlags says of one chip.
IrqOK(q) ==
  /\ q.any = q.line
  /\ q.line = (q.ifr \cap q.ier # {})
  /\ q.cpu => q.line

Good(v) == v \in Chip /\ IrqOK(v.irq)

-----------------------------------------------------------------------------
(* Arithmetic of bytes and words *)

\* A word is a natural; the value of a wrapped counter is a word.
LEMMA WordIsNat == Word \in Nat /\ Word > 0 /\ Word - 1 \in Words
BY ByteAssumption DEF Word, Words

\* A word is made of its two bytes.
LEMMA WordSplit ==
  ASSUME NEW w \in Words
  PROVE  Hi(w) \in Bytes /\ Lo(w) \in Bytes /\ w = WordOf(Hi(w), Lo(w))
BY ByteAssumption DEF Words, Word, Hi, Lo, Bytes, WordOf

\* Two bytes make a word and can be told apart in it.
LEMMA WordJoin ==
  ASSUME NEW h \in Bytes, NEW l \in Bytes
  PROVE  WordOf(h, l) \in Words /\ Hi(WordOf(h, l)) = h /\ Lo(WordOf(h, l)) = l
<1>1. h * Byte \in Nat /\ h * Byte <= (Byte - 1) * Byte
  BY ByteAssumption DEF Bytes
<1>2. (Byte - 1) * Byte = Word - Byte
  BY ByteAssumption DEF Word
<1>3. WordOf(h, l) \in Words
  BY <1>1, <1>2, ByteAssumption, WordIsNat DEF Bytes, Words, WordOf
<1>4. Hi(WordOf(h, l)) = h /\ Lo(WordOf(h, l)) = l
  BY ByteAssumption DEF Bytes, WordOf, Hi, Lo
<1> QED BY <1>3, <1>4

\* Counters wrap into their width.
LEMMA Wrap ==
  ASSUME NEW x \in Int
  PROVE  x % Word \in Words /\ x % Byte \in Bytes
BY ByteAssumption, WordIsNat DEF Words, Bytes

-----------------------------------------------------------------------------
(* Every operation keeps a good chip good *)

\* A part of the chip may be replaced by another of its type.
LEMMA WriteGood ==
  ASSUME NEW v, Good(v)
  PROVE  /\ \A x \in Timer1 : Good([v EXCEPT !.t1 = x])
         /\ \A x \in Timer2 : Good([v EXCEPT !.t2 = x])
         /\ \A x \in ShiftReg : Good([v EXCEPT !.sr = x])
         /\ \A x \in Acr : Good([v EXCEPT !.acr = x])
         /\ \A x \in Pcr : Good([v EXCEPT !.pcr = x])
         /\ \A x \in Pins : Good([v EXCEPT !.pins = x])
         /\ \A x \in Irq : IrqOK(x) => Good([v EXCEPT !.irq = x])
BY DEF Good, Chip

\* The parts of a well-formed chip are well-formed.
LEMMA Parts ==
  ASSUME NEW v, Good(v)
  PROVE  /\ v.t1 \in Timer1 /\ v.t2 \in Timer2 /\ v.sr \in ShiftReg
         /\ v.acr \in Acr /\ v.pcr \in Pcr /\ v.pins \in Pins /\ v.irq \in Irq
         /\ IrqOK(v.irq)
BY DEF Good, Chip

\* The same for the fields of a group that are written together.
LEMMA ShiftRegWrite ==
  ASSUME NEW s \in ShiftReg, NEW b \in BOOLEAN, NEW d \in 0 .. 3
  PROVE  /\ [s EXCEPT !.active = b] \in ShiftReg
         /\ [s EXCEPT !.count = 0] \in ShiftReg
         /\ [s EXCEPT !.count = 0, !.active = b] \in ShiftReg
         /\ [s EXCEPT !.active = b, !.count = 0, !.delay = d] \in ShiftReg
         /\ [s EXCEPT !.active = b, !.delay = d] \in ShiftReg
<1>1. 0 \in 0 .. 2 * SrBits - 1
  BY SrBitsAssumption
<1> HIDE SrBitsAssumption
<1>2. \A r \in ShiftReg : [r EXCEPT !.count = 0] \in ShiftReg
  BY <1>1 DEF ShiftReg
<1>3. \A r \in ShiftReg : [r EXCEPT !.active = b] \in ShiftReg
  BY DEF ShiftReg
<1>4. \A r \in ShiftReg : [r EXCEPT !.delay = d] \in ShiftReg
  BY DEF ShiftReg
<1>5. /\ [s EXCEPT !.count = 0, !.active = b]
            = [[s EXCEPT !.count = 0] EXCEPT !.active = b]
      /\ [s EXCEPT !.active = b, !.count = 0, !.delay = d]
            = [[[s EXCEPT !.active = b] EXCEPT !.count = 0] EXCEPT !.delay = d]
      /\ [s EXCEPT !.active = b, !.delay = d]
            = [[s EXCEPT !.active = b] EXCEPT !.delay = d]
  OBVIOUS
<1> QED
  BY <1>2, <1>3, <1>4, <1>5

\* Pins and pulse counters may be written.
LEMMA PinsWrite ==
  ASSUME NEW p \in Pins, NEW a \in BOOLEAN, NEW b \in BOOLEAN,
         NEW m \in 0 .. 1
  PROVE  /\ [p EXCEPT !.ca2 = a, !.ca2_pulse = 0, !.cb2 = b, !.cb2_pulse = 0]
              \in Pins
         /\ [p EXCEPT !.ca2 = a, !.ca2_pulse = m] \in Pins
         /\ [p EXCEPT !.cb2 = a, !.cb2_pulse = m] \in Pins
         /\ [p EXCEPT !.ca1 = a, !.ca2 = b] \in Pins
         /\ [p EXCEPT !.cb1 = a, !.cb2 = b] \in Pins
         /\ [p EXCEPT !.ca2_in = a] \in Pins
         /\ [p EXCEPT !.cb2_in = a] \in Pins
<1>1. \A r \in Pins, c \in BOOLEAN : [r EXCEPT !.ca1 = c] \in Pins
  BY DEF Pins
<1>2. \A r \in Pins, c \in BOOLEAN : [r EXCEPT !.ca2 = c] \in Pins
  BY DEF Pins
<1>3. \A r \in Pins, c \in BOOLEAN : [r EXCEPT !.cb1 = c] \in Pins
  BY DEF Pins
<1>4. \A r \in Pins, c \in BOOLEAN : [r EXCEPT !.cb2 = c] \in Pins
  BY DEF Pins
<1>5. \A r \in Pins, c \in BOOLEAN : [r EXCEPT !.ca2_in = c] \in Pins
  BY DEF Pins
<1>6. \A r \in Pins, c \in BOOLEAN : [r EXCEPT !.cb2_in = c] \in Pins
  BY DEF Pins
<1>7. \A r \in Pins, k \in 0 .. 1 : [r EXCEPT !.ca2_pulse = k] \in Pins
  BY DEF Pins
<1>8. \A r \in Pins, k \in 0 .. 1 : [r EXCEPT !.cb2_pulse = k] \in Pins
  BY DEF Pins
<1>9. 0 \in 0 .. 1
  OBVIOUS
<1>10. /\ [p EXCEPT !.ca2 = a, !.ca2_pulse = 0, !.cb2 = b, !.cb2_pulse = 0]
            = [[[[p EXCEPT !.ca2 = a] EXCEPT !.ca2_pulse = 0]
                  EXCEPT !.cb2 = b] EXCEPT !.cb2_pulse = 0]
       /\ [p EXCEPT !.ca2 = a, !.ca2_pulse = m]
            = [[p EXCEPT !.ca2 = a] EXCEPT !.ca2_pulse = m]
       /\ [p EXCEPT !.cb2 = a, !.cb2_pulse = m]
            = [[p EXCEPT !.cb2 = a] EXCEPT !.cb2_pulse = m]
       /\ [p EXCEPT !.ca1 = a, !.ca2 = b] = [[p EXCEPT !.ca1 = a] EXCEPT !.ca2 = b]
       /\ [p EXCEPT !.cb1 = a, !.cb2 = b] = [[p EXCEPT !.cb1 = a] EXCEPT !.cb2 = b]
  OBVIOUS
<1> QED
  BY <1>1, <1>2, <1>3, <1>4, <1>5, <1>6, <1>7, <1>8, <1>9, <1>10

\* via_check_irq brings line and flags back in step.
LEMMA CheckIrqGood ==
  ASSUME NEW q \in Irq, q.cpu => q.line
  PROVE  /\ via_check_irq(q) \in Irq
         /\ IrqOK(via_check_irq(q))
BY DEF Irq, IrqOK, via_check_irq

\* Setting flags, with the check that follows, is well-formed.
LEMMA RaiseGood ==
  ASSUME NEW v, Good(v), NEW F \in SUBSET Flags
  PROVE  Good(Raise(v, F))
<1> DEFINE q == [v.irq EXCEPT !.ifr = @ \cup F]
<1>1. q \in Irq /\ (q.cpu => q.line)
  BY DEF Good, Chip, Irq, IrqOK
<1>2. via_check_irq(q) \in Irq /\ IrqOK(via_check_irq(q))
  BY <1>1, CheckIrqGood
<1> QED
  BY <1>2, WriteGood DEF Raise

\* Clearing flags, with the check that follows, is well-formed.
LEMMA LowerGood ==
  ASSUME NEW v, Good(v), NEW F
  PROVE  Good(Lower(v, F))
<1> DEFINE q == [v.irq EXCEPT !.ifr = @ \ F]
<1>1. q \in Irq /\ (q.cpu => q.line)
  BY DEF Good, Chip, Irq, IrqOK
<1>2. via_check_irq(q) \in Irq /\ IrqOK(via_check_irq(q))
  BY <1>1, CheckIrqGood
<1> QED
  BY <1>2, WriteGood DEF Lower

\* So is a shift by one bit.
LEMMA ShiftedGood ==
  ASSUME NEW v, Good(v)
  PROVE  Good(Shifted(v))
<1> DEFINE out == v.acr.mode \in OutModes
           in == IF out THEN v.sr.bits[1] ELSE v.pins.cb2_in
           s == [v.sr EXCEPT !.bits = ShiftLeft(@, in)]
           p == [v.pins EXCEPT !.cb2 = IF out THEN v.sr.bits[1] ELSE @]
<1>1. v.sr.bits[1] \in BOOLEAN /\ in \in BOOLEAN
  BY Parts, SrBitsAssumption DEF ShiftReg, Pins
<1>2. ShiftLeft(v.sr.bits, in) \in [1 .. SrBits -> BOOLEAN]
  BY <1>1, Parts, SrBitsAssumption DEF ShiftReg, ShiftLeft
<1>3. s \in ShiftReg
  BY <1>2, Parts DEF ShiftReg
<1>4. p \in Pins
  BY <1>1, Parts DEF Pins
<1>5. Shifted(v) = [[v EXCEPT !.sr = s] EXCEPT !.pins = p]
  BY DEF Shifted
<1>6. Good([v EXCEPT !.sr = s])
  BY <1>3, WriteGood
<1> HIDE DEF s, p
<1>7. Good([[v EXCEPT !.sr = s] EXCEPT !.pins = p])
  BY <1>4, <1>6, WriteGood
<1> QED
  BY <1>5, <1>7

\* So is the count of a half clock of the shift register.
LEMMA CountedGood ==
  ASSUME NEW v, Good(v), NEW n \in 1 .. 2 * SrBits
  PROVE  Good(Counted(v, n))
<1> DEFINE up == [v.sr EXCEPT !.count = @ + 1]
           zero == [v.sr EXCEPT !.count = 0]
           stop == [v.sr EXCEPT !.count = 0, !.active = FALSE]
<1>1. v.sr.count + 1 < n => up \in ShiftReg
  BY Parts, SrBitsAssumption DEF ShiftReg
<1>2. zero \in ShiftReg /\ stop \in ShiftReg
  <2>1. v.sr \in ShiftReg /\ 0 \in 0 .. 3 /\ FALSE \in BOOLEAN
    BY Parts
  <2> QED BY <2>1, ShiftRegWrite, Zenon
<1>3. Good([v EXCEPT !.sr = stop])
  BY <1>2, WriteGood
<1>4. Good(Raise([v EXCEPT !.sr = stop], {"SR"}))
  BY <1>3, RaiseGood DEF Flags
<1> QED
  BY <1>1, <1>2, <1>4, WriteGood DEF Counted

\* So is an event of the shift clock.
LEMMA SrEventGood ==
  ASSUME NEW v, Good(v)
  PROVE  Good(via_sr_event(v)) /\ Good(via_do_shift(v))
<1>1. Good(Shifted(v))
  BY ShiftedGood
<1>2. 2 * SrBits \in 1 .. 2 * SrBits /\ SrBits \in 1 .. 2 * SrBits
  BY SrBitsAssumption
<1>3. Good(Counted(v, 2 * SrBits)) /\ Good(Counted(Shifted(v), 2 * SrBits))
      /\ Good(Counted(Shifted(v), SrBits))
  BY <1>1, <1>2, CountedGood
<1> QED
  BY <1>3 DEF via_sr_event, via_do_shift

\* So is the start of a shift sequence by an access to SR.
LEMMA SrAccessGood ==
  ASSUME NEW v, Good(v)
  PROVE  Good(via_sr_access(v))
<1> DEFINE on == [v.sr EXCEPT !.active = TRUE]
           start == [v.sr EXCEPT !.active = TRUE, !.count = 0,
                         !.delay = IF v.acr.mode \in Phi2Modes THEN 1 ELSE @]
<1>1. on \in ShiftReg /\ start \in ShiftReg
  <2> DEFINE d == IF v.acr.mode \in Phi2Modes THEN 1 ELSE v.sr.delay
  <2>1. v.sr \in ShiftReg /\ d \in 0 .. 3 /\ TRUE \in BOOLEAN
    BY Parts DEF ShiftReg
  <2> QED BY <2>1, ShiftRegWrite, Zenon
<1>2. Good([v EXCEPT !.sr = on]) /\ Good([v EXCEPT !.sr = start])
  BY <1>1, WriteGood
<1> QED
  BY <1>2 DEF via_sr_access

\* The pulses of CA2 and CB2 end within their types.
LEMMA PulseStageGood ==
  ASSUME NEW v, Good(v)
  PROVE  Good(PulseStage(v))
<1> DEFINE a == v.pins.ca2 \/ v.pins.ca2_pulse > 0
           b == v.pins.cb2 \/ v.pins.cb2_pulse > 0
           p == [v.pins EXCEPT !.ca2 = a, !.ca2_pulse = 0,
                               !.cb2 = b, !.cb2_pulse = 0]
<1>1. p \in Pins
  <2>1. a \in BOOLEAN /\ b \in BOOLEAN /\ 0 \in 0 .. 1 /\ v.pins \in Pins
    BY Parts
  <2> QED BY <2>1, PinsWrite, Zenon
<1> QED
  BY <1>1, WriteGood DEF PulseStage

\* A cycle of timer 1 keeps the chip well-formed.
LEMMA T1StageGood ==
  ASSUME NEW v, Good(v)
  PROVE  Good(T1Stage(v))
<1> DEFINE t == v.t1
           under == [t EXCEPT !.counter = Word - 1, !.reload = TRUE]
           fired == [under EXCEPT !.pb7 = ~@, !.running = v.acr.freerun]
           loaded == [t EXCEPT !.counter = t.latch, !.reload = FALSE]
           down == [t EXCEPT !.counter = @ - 1]
<1>1. t \in Timer1 /\ v.acr.freerun \in BOOLEAN
  BY Parts DEF Acr
<1>2. under \in Timer1 /\ loaded \in Timer1
  BY <1>1, WordIsNat DEF Timer1
<1>3. fired \in Timer1
  BY <1>1, <1>2 DEF Timer1
<1>4. t.counter > 0 => down \in Timer1
  BY <1>1, WordIsNat DEF Timer1, Words
<1>5. Good(Raise([v EXCEPT !.t1 = fired], {"T1"}))
  BY <1>3, WriteGood, RaiseGood DEF Flags
<1> QED
  BY <1>2, <1>4, <1>5, WriteGood DEF T1Stage

\* So does a delayed shift event of timer 2.
LEMMA SrT2StageGood ==
  ASSUME NEW v, Good(v)
  PROVE  Good(SrT2Stage(v))
<1> DEFINE s == [v.sr EXCEPT !.t2_pending = @ - 1]
           w == [v EXCEPT !.sr = s]
<1>1. v.sr.t2_pending # 0 => s \in ShiftReg
  BY Parts DEF ShiftReg
<1>2. v.sr.t2_pending # 0 => Good(w) /\ Good(via_sr_event(w))
  BY <1>1, WriteGood, SrEventGood
<1> QED
  BY <1>2 DEF SrT2Stage

\* So does timer 2 as an 8-bit counter.
LEMMA T2Count8Good ==
  ASSUME NEW v, Good(v)
  PROVE  Good(T2Count8(v))
<1> DEFINE t == v.t2
           hi == Hi(t.counter)
           lo == Lo(t.counter)
           fires == hi = 0 /\ t.running
           t2 == [t EXCEPT !.counter = WordOf((hi - 1) % Byte, Byte - 1),
                           !.reload = TRUE, !.running = @ /\ ~fires]
           s == [v.sr EXCEPT !.t2_pending = 2]
           under == [v EXCEPT !.t2 = t2, !.sr = s]
           loaded == [t EXCEPT !.counter = WordOf(hi, t.latch), !.reload = FALSE]
           down == [t EXCEPT !.counter = WordOf(hi, lo - 1)]
<1>1. t \in Timer2 /\ hi \in Bytes /\ lo \in Bytes /\ t.latch \in Bytes
  BY Parts, WordSplit DEF Timer2
<1>2. (hi - 1) % Byte \in Bytes /\ Byte - 1 \in Bytes
  BY <1>1, Wrap, ByteAssumption DEF Bytes
<1>3. /\ WordOf((hi - 1) % Byte, Byte - 1) \in Words
      /\ WordOf(hi, t.latch) \in Words
  BY <1>1, <1>2, WordJoin
<1>4. lo > 0 => WordOf(hi, lo - 1) \in Words
  <2>1. lo > 0 => lo - 1 \in Bytes
    BY <1>1, ByteAssumption DEF Bytes
  <2> QED BY <1>1, <2>1, WordJoin
<1>5. t2 \in Timer2
  <2>1. (t.running /\ ~fires) \in BOOLEAN
    OBVIOUS
  <2> HIDE DEF hi, lo, fires
  <2> QED BY <1>1, <1>3, <2>1 DEF Timer2
<1>6. loaded \in Timer2 /\ (lo > 0 => down \in Timer2)
  <2> HIDE DEF hi, lo
  <2> QED BY <1>1, <1>3, <1>4 DEF Timer2
<1>7. s \in ShiftReg
  BY Parts DEF ShiftReg
<1> HIDE DEF hi, lo, t2, s, loaded, down
<1>8. Good(under)
  <2>1. under = [[v EXCEPT !.t2 = t2] EXCEPT !.sr = s]
    OBVIOUS
  <2>2. Good([v EXCEPT !.t2 = t2])
    BY <1>5, WriteGood
  <2>3. Good([[v EXCEPT !.t2 = t2] EXCEPT !.sr = s])
    BY <1>7, <2>2, WriteGood
  <2> QED BY <2>1, <2>3
<1>9. Good(Raise(under, {"T2"}))
  BY <1>8, RaiseGood DEF Flags
<1>10. Good([v EXCEPT !.t2 = loaded]) /\ (lo > 0 => Good([v EXCEPT !.t2 = down]))
  BY <1>6, WriteGood
<1> QED
  BY <1>8, <1>9, <1>10 DEF T2Count8, hi, lo, t2, s, loaded, down

\* So does timer 2 as a 16-bit counter.
LEMMA T2Count16Good ==
  ASSUME NEW v, Good(v)
  PROVE  Good(T2Count16(v))
<1> DEFINE t == v.t2
           t2 == [t EXCEPT !.counter = (@ - 1) % Word,
                           !.running = @ /\ t.counter # 0]
<1>1. (t.counter - 1) % Word \in Words
  BY Parts, Wrap DEF Timer2, Words
<1>2. t2 \in Timer2
  <2>1. t \in Timer2 /\ (t.running /\ t.counter # 0) \in BOOLEAN
    BY Parts
  <2> QED BY <1>1, <2>1 DEF Timer2
<1>3. Good([v EXCEPT !.t2 = t2]) /\ Good(Raise([v EXCEPT !.t2 = t2], {"T2"}))
  BY <1>2, WriteGood, RaiseGood DEF Flags
<1> QED
  BY <1>3 DEF T2Count16

\* So does a cycle of timer 2 in either width.
LEMMA T2StageGood ==
  ASSUME NEW v, Good(v)
  PROVE  Good(T2Stage(v))
<1> DEFINE t2 == [v.t2 EXCEPT !.phi2 = ~v.acr.pulse, !.hold = FALSE]
           w == [v EXCEPT !.t2 = t2]
<1>1. t2 \in Timer2
  BY Parts DEF Timer2
<1>2. Good(w)
  BY <1>1, WriteGood
<1>3. Good(T2Count8(w)) /\ Good(T2Count16(w))
  BY <1>2, T2Count8Good, T2Count16Good
<1> QED
  BY <1>2, <1>3 DEF T2Stage

\* So does a cycle of the shift register clocked by phi2.
LEMMA SrPhi2StageGood ==
  ASSUME NEW v, Good(v)
  PROVE  Good(SrPhi2Stage(v))
<1> DEFINE s == [v.sr EXCEPT !.delay = @ - 1]
<1>1. v.sr.delay > 0 => s \in ShiftReg
  BY Parts DEF ShiftReg
<1>2. v.sr.delay > 0 => Good([v EXCEPT !.sr = s])
  BY <1>1, WriteGood
<1> QED
  BY <1>2, SrEventGood DEF SrPhi2Stage

\* A full cycle keeps the chip well-formed.
LEMMA StepGood ==
  ASSUME NEW v, Good(v)
  PROVE  Good(via_step(v))
BY PulseStageGood, T1StageGood, SrT2StageGood, T2StageGood, SrPhi2StageGood
DEF via_step

\* Applying skipped cycles keeps the chip well-formed.
LEMMA SyncGood ==
  ASSUME NEW v, Good(v), NEW n \in Nat
  PROVE  Good(via_sync(v, n))
<1> DEFINE c1 == IF v.t1.active THEN (v.t1.counter - n) % Word
                 ELSE v.t1.counter
           c == v.t2.counter
           c2 == IF ~v.t2.active \/ ~v.t2.phi2 THEN c
                 ELSE IF via_t2_8bit(v) THEN WordOf(Hi(c), Lo(c - n))
                 ELSE (c - n) % Word
           t1 == [v.t1 EXCEPT !.counter = c1]
           t2 == [v.t2 EXCEPT !.counter = c2]
<1>1. v.t1.counter \in Words /\ c \in Words /\ v.t1 \in Timer1 /\ v.t2 \in Timer2
  BY Parts DEF Timer1, Timer2
<1>2. c1 \in Words
  BY <1>1, Wrap DEF Words
<1>3. c2 \in Words
  <2>1. c - n \in Int
    BY <1>1 DEF Words
  <2>2. (c - n) % Word \in Words /\ Lo(c - n) \in Bytes
    BY <2>1, Wrap DEF Lo
  <2>3. WordOf(Hi(c), Lo(c - n)) \in Words
    BY <1>1, <2>2, WordSplit, WordJoin
  <2> QED BY <1>1, <2>2, <2>3
<1> HIDE DEF c1, c2
<1>4. t1 \in Timer1 /\ t2 \in Timer2
  BY <1>1, <1>2, <1>3 DEF Timer1, Timer2
<1> HIDE DEF t1, t2
<1>5. Good([[v EXCEPT !.t1 = t1] EXCEPT !.t2 = t2])
  <2>1. Good([v EXCEPT !.t1 = t1])
    BY <1>4, WriteGood
  <2> QED BY <1>4, <2>1, WriteGood
<1>6. n # 0 => via_sync(v, n) = [[v EXCEPT !.t1 = t1] EXCEPT !.t2 = t2]
  BY DEF via_sync, t1, t2, c1, c2
<1>7. n = 0 => via_sync(v, n) = v
  BY DEF via_sync
<1> QED
  BY <1>5, <1>6, <1>7

\* Accesses to the ports keep the chip well-formed.
LEMMA PortAccessGood ==
  ASSUME NEW v, Good(v), NEW w, PortAccess(v, w)
  PROVE  Good(w)
<1>1. ASSUME NEW x, Good(x) PROVE Good(via_ca2_port_access(x))
  <2> DEFINE m == IF x.pcr.ca2 = "pulse" THEN 1 ELSE x.pins.ca2_pulse
  <2>1. x.pins \in Pins /\ m \in 0 .. 1 /\ FALSE \in BOOLEAN
    BY <1>1, Parts DEF Pins
  <2>2. [x.pins EXCEPT !.ca2 = FALSE, !.ca2_pulse = m] \in Pins
    BY <2>1, PinsWrite, Zenon
  <2> QED BY <1>1, <2>2, WriteGood DEF via_ca2_port_access
<1>2. ASSUME NEW x, Good(x) PROVE Good(via_cb2_port_access(x))
  <2> DEFINE m == IF x.pcr.cb2 = "pulse" THEN 1 ELSE x.pins.cb2_pulse
  <2>1. x.pins \in Pins /\ m \in 0 .. 1 /\ FALSE \in BOOLEAN
    BY <1>2, Parts DEF Pins
  <2>2. [x.pins EXCEPT !.cb2 = FALSE, !.cb2_pulse = m] \in Pins
    BY <2>1, PinsWrite, Zenon
  <2> QED BY <1>2, <2>2, WriteGood DEF via_cb2_port_access
<1> QED
  BY <1>1, <1>2, LowerGood DEF PortAccess, read_ORB, write_ORB, access_ORA

\* So do accesses to timer 1.
LEMMA T1AccessGood ==
  ASSUME NEW v, Good(v), NEW B \in SUBSET Bytes, NEW w, T1Access(v, w, B)
  PROVE  Good(w)
<1>1. /\ v.t1 \in Timer1 /\ Hi(v.t1.latch) \in Bytes /\ Lo(v.t1.latch) \in Bytes
  BY Parts, WordSplit DEF Timer1
<1>2. CASE w = read_T1CL(v)
  BY <1>2, LowerGood DEF read_T1CL
<1>3. ASSUME NEW b \in B, w = write_T1LL(v, b) PROVE Good(w)
  <2>1. WordOf(Hi(v.t1.latch), b) \in Words
    BY <1>1, WordJoin
  <2>2. [v.t1 EXCEPT !.latch = WordOf(Hi(@), b)] \in Timer1
    BY <1>1, <2>1 DEF Timer1
  <2> QED BY <1>3, <2>2, WriteGood DEF write_T1LL
<1>4. ASSUME NEW b \in B, w = write_T1CH(v, b) PROVE Good(w)
  <2> DEFINE x == WordOf(b, Lo(v.t1.latch))
             t == [counter |-> x, latch |-> x, running |-> TRUE,
                   active |-> TRUE, reload |-> TRUE, pb7 |-> FALSE]
  <2>1. x \in Words
    BY <1>1, WordJoin
  <2>2. t \in Timer1
    BY <2>1 DEF Timer1
  <2>3. Good([v EXCEPT !.t1 = t])
    BY <2>2, WriteGood
  <2> QED BY <1>4, <2>3, LowerGood DEF write_T1CH
<1>5. ASSUME NEW b \in B, w = write_T1LH(v, b) PROVE Good(w)
  <2>1. WordOf(b, Lo(v.t1.latch)) \in Words
    BY <1>1, WordJoin
  <2>2. [v.t1 EXCEPT !.latch = WordOf(b, Lo(@))] \in Timer1
    BY <1>1, <2>1 DEF Timer1
  <2> QED BY <1>5, <2>2, WriteGood, LowerGood DEF write_T1LH
<1> QED
  BY <1>2, <1>3, <1>4, <1>5 DEF T1Access

\* So do accesses to timer 2.
LEMMA T2AccessGood ==
  ASSUME NEW v, Good(v), NEW B \in SUBSET Bytes, NEW w, T2Access(v, w, B)
  PROVE  Good(w)
<1>1. v.t2 \in Timer2 /\ v.t2.latch \in Bytes
  BY Parts DEF Timer2
<1>2. CASE w = read_T2CL(v)
  BY <1>2, LowerGood DEF read_T2CL
<1>3. ASSUME NEW b \in B, w = write_T2CL(v, b) PROVE Good(w)
  <2>1. [v.t2 EXCEPT !.latch = b] \in Timer2
    BY <1>1 DEF Timer2
  <2> QED BY <1>3, <2>1, WriteGood DEF write_T2CL
<1>4. ASSUME NEW b \in B, w = write_T2CH(v, b) PROVE Good(w)
  <2> DEFINE x == WordOf(b, v.t2.latch)
             t == [v.t2 EXCEPT !.counter = x, !.running = TRUE,
                        !.active = TRUE, !.hold = TRUE, !.reload = FALSE]
  <2>1. x \in Words
    BY <1>1, WordJoin
  <2> HIDE DEF x
  <2>2. t \in Timer2
    BY <1>1, <2>1 DEF Timer2
  <2>3. Good([v EXCEPT !.t2 = t])
    BY <2>2, WriteGood
  <2> QED BY <1>4, <2>3, LowerGood DEF write_T2CH, x
<1> QED
  BY <1>2, <1>3, <1>4 DEF T2Access

\* So do accesses to the shift register.
LEMMA ShiftAccessGood ==
  ASSUME NEW v, Good(v), NEW w, SrAccess(v, w)
  PROVE  Good(w)
<1>1. CASE w = read_SR(v)
  BY <1>1, LowerGood, SrAccessGood DEF read_SR
<1>2. ASSUME NEW bits \in [1 .. SrBits -> BOOLEAN], w = write_SR(v, bits)
      PROVE  Good(w)
  <2>1. [v.sr EXCEPT !.bits = bits] \in ShiftReg
    BY Parts DEF ShiftReg
  <2>2. Good([v EXCEPT !.sr = [v.sr EXCEPT !.bits = bits]])
    BY <2>1, WriteGood
  <2> QED BY <1>2, <2>2, LowerGood, SrAccessGood DEF write_SR
<1>3. CASE w = via_shift_clock(v)
  BY <1>3, SrEventGood DEF via_shift_clock
<1> QED
  BY <1>1, <1>2, <1>3 DEF SrAccess

\* So do accesses to ACR, PCR, IFR and IER.
LEMMA ControlAccessGood ==
  ASSUME NEW v, Good(v), NEW p \in Program, NEW w
  PROVE  /\ \A a \in p.acr : w = write_ACR(v, a) => Good(w)
         /\ \A c \in p.pcr : w = write_PCR(v, c) => Good(w)
         /\ IrqAccess(v, w, p.flags) => Good(w)
<1>1. ASSUME NEW a \in p.acr, w = write_ACR(v, a) PROVE Good(w)
  <2> DEFINE pb7 == v.t1.pb7 \/ (a.pb7 /\ ~v.acr.pb7)
             on == v.sr.active \/ a.mode = "free"
             d == IF a.mode \in Phi2Modes /\ v.acr.mode \notin Phi2Modes
                  THEN 3 ELSE v.sr.delay
             t == [v.t1 EXCEPT !.pb7 = pb7]
             s == [v.sr EXCEPT !.active = on, !.delay = d]
             x == [v EXCEPT !.acr = a, !.t1 = t, !.sr = s]
  <2>1. a \in Acr /\ pb7 \in BOOLEAN /\ on \in BOOLEAN
    BY DEF Program
  <2>2. d \in 0 .. 3 /\ v.sr \in ShiftReg /\ v.t1 \in Timer1
    BY Parts DEF ShiftReg
  <2> HIDE DEF pb7, on, d
  <2>3. s \in ShiftReg
    BY <2>1, <2>2, ShiftRegWrite, Zenon
  <2>4. t \in Timer1
    BY <2>1, <2>2 DEF Timer1
  <2> HIDE DEF s, t
  <2>5. Good([[[v EXCEPT !.acr = a] EXCEPT !.t1 = t] EXCEPT !.sr = s])
    <3>1. Good([v EXCEPT !.acr = a])
      BY <2>1, WriteGood
    <3>2. Good([[v EXCEPT !.acr = a] EXCEPT !.t1 = t])
      BY <2>4, <3>1, WriteGood
    <3> QED BY <2>3, <3>2, WriteGood
  <2>6. x = [[[v EXCEPT !.acr = a] EXCEPT !.t1 = t] EXCEPT !.sr = s]
    OBVIOUS
  <2>7. Good(x)
    BY <2>5, <2>6
  <2>8. write_ACR(v, a) = IF a.mode = "off" THEN Lower(x, {"SR"}) ELSE x
    BY DEF write_ACR, s, t, pb7, on, d
  <2> HIDE DEF x
  <2> QED BY <1>1, <2>7, <2>8, LowerGood
<1>2. ASSUME NEW c \in p.pcr, w = write_PCR(v, c) PROVE Good(w)
  BY <1>2, WriteGood DEF write_PCR, Program
<1>3. ASSUME NEW f \in p.flags, NEW set \in BOOLEAN, w = write_IER(v, set, {f})
      PROVE  Good(w)
  <2> DEFINE q == [v.irq EXCEPT !.ier = IF set THEN @ \cup {f} ELSE @ \ {f}]
  <2>1. v.irq \in Irq /\ IrqOK(v.irq) /\ f \in Flags
    BY Parts DEF Program
  <2>2. q \in Irq /\ (q.cpu => q.line)
    BY <2>1 DEF Irq, IrqOK
  <2>3. via_check_irq(q) \in Irq /\ IrqOK(via_check_irq(q))
    BY <2>2, CheckIrqGood
  <2> QED BY <1>3, <2>3, WriteGood DEF write_IER
<1>4. ASSUME NEW f \in p.flags, w = write_IFR(v, {f}) PROVE Good(w)
  BY <1>4, LowerGood DEF write_IFR
<1> QED
  BY <1>1, <1>2, <1>3, <1>4 DEF IrqAccess

\* So do changes of the input lines.
LEMMA LineChangeGood ==
  ASSUME NEW v, Good(v), NEW F \in SUBSET Flags, NEW w, LineChange(v, w, F)
  PROVE  Good(w)
<1>1. ASSUME NEW x, Good(x), NEW b \in BOOLEAN PROVE Good(via_set_cb1(x, b))
  <2> DEFINE edge == ActiveEdge(x.pcr.cb1, x.pins.cb1, b)
             c == x.pins.cb2 \/ (edge /\ x.pcr.cb2 = "handshake")
             y == [x EXCEPT !.pins = [x.pins EXCEPT !.cb1 = b, !.cb2 = c]]
  <2>1. c \in BOOLEAN /\ 0 \in 0 .. 1 /\ x.pins \in Pins
    BY <1>1, Parts
  <2>2. [x.pins EXCEPT !.cb1 = b, !.cb2 = c] \in Pins
    BY <2>1, PinsWrite, Zenon
  <2>3. Good(y)
    BY <1>1, <2>2, WriteGood
  <2>4. Good(Raise(y, {"CB1"}))
    BY <2>3, RaiseGood DEF Flags
  <2> QED BY <2>3, <2>4 DEF via_set_cb1
<1>2. ASSUME NEW b \in BOOLEAN PROVE Good(via_set_ca1(v, b))
  <2> DEFINE edge == ActiveEdge(v.pcr.ca1, v.pins.ca1, b)
             c == v.pins.ca2 \/ (edge /\ v.pcr.ca2 = "handshake")
             y == [v EXCEPT !.pins = [v.pins EXCEPT !.ca1 = b, !.ca2 = c]]
  <2>1. c \in BOOLEAN /\ 0 \in 0 .. 1 /\ v.pins \in Pins
    BY Parts
  <2>2. [v.pins EXCEPT !.ca1 = b, !.ca2 = c] \in Pins
    BY <2>1, PinsWrite, Zenon
  <2>3. Good(y)
    BY <2>2, WriteGood
  <2>4. Good(Raise(y, {"CA1"}))
    BY <2>3, RaiseGood DEF Flags
  <2> QED BY <2>3, <2>4 DEF via_set_ca1
<1>3. ASSUME NEW b \in BOOLEAN
      PROVE  Good(via_set_ca2_input(v, b)) /\ Good(via_set_cb2_input(v, b))
  <2>1. v.pins \in Pins /\ 0 \in 0 .. 1
    BY Parts
  <2>2. /\ [v.pins EXCEPT !.ca2_in = b] \in Pins
        /\ [v.pins EXCEPT !.cb2_in = b] \in Pins
    BY <2>1, PinsWrite, Zenon
  <2>3. /\ Good([v EXCEPT !.pins = [v.pins EXCEPT !.ca2_in = b]])
        /\ Good([v EXCEPT !.pins = [v.pins EXCEPT !.cb2_in = b]])
    BY <2>2, WriteGood
  <2>4. {"CA2"} \in SUBSET Flags /\ {"CB2"} \in SUBSET Flags
    BY DEF Flags
  <2> QED BY <2>3, <2>4, RaiseGood DEF via_set_ca2_input, via_set_cb2_input
<1>4. Good(via_trigger_cb1(v))
  <2>1. TRUE \in BOOLEAN /\ FALSE \in BOOLEAN
    OBVIOUS
  <2>2. Good(via_set_cb1(v, FALSE))
    BY <1>1, <2>1, Zenon
  <2>3. Good(via_set_cb1(via_set_cb1(v, FALSE), TRUE))
    BY <1>1, <2>1, <2>2, Zenon
  <2> QED BY <2>3 DEF via_trigger_cb1
<1>5. ASSUME NEW f \in F PROVE Good(via_trigger(v, f))
  BY RaiseGood DEF via_trigger
<1> QED
  BY <1>1, <1>2, <1>3, <1>4, <1>5 DEF LineChange

\* Every call keeps the chip well-formed.
LEMMA CalledGood ==
  ASSUME NEW v, Good(v), NEW p \in Program, NEW w, Called(v, w, p)
  PROVE  Good(w)
<1>1. p.bytes \in SUBSET Bytes /\ p.flags \in SUBSET Flags
  BY DEF Program
<1>2. CASE "pb6" \in p.calls /\ w = via_pb6_pulse(v)
  BY <1>2, T2Count16Good DEF via_pb6_pulse
<1> QED
  BY <1>1, <1>2, PortAccessGood, T1AccessGood, T2AccessGood, ShiftAccessGood,
     ControlAccessGood, LineChangeGood DEF Called

-----------------------------------------------------------------------------
(* A quiet cycle only counts down *)

\* v with other timer counters.
With(v, c1, c2) ==
  [v EXCEPT !.t1 = [v.t1 EXCEPT !.counter = c1],
            !.t2 = [v.t2 EXCEPT !.counter = c2]]

T2Counting(v) == v.t2.active /\ v.t2.phi2

\* The counters after n plain countdowns.
Count1(v, n) == IF v.t1.active THEN v.t1.counter - n ELSE v.t1.counter
Count2(v, n) == IF T2Counting(v) THEN v.t2.counter - n ELSE v.t2.counter

\* A promise of quiet stays below every counter that runs.
LEMMA QuietBounds ==
  ASSUME NEW v, Good(v)
  PROVE  /\ via_quiet(v) \in Words
         /\ via_quiet(v) > 0 => ~EventNear(v)
         /\ v.t1.active => via_quiet(v) <= v.t1.counter
         /\ T2Counting(v) /\ via_t2_8bit(v) => via_quiet(v) <= Lo(v.t2.counter)
         /\ T2Counting(v) => via_quiet(v) <= v.t2.counter
<1>1. v.t1.counter \in Words /\ v.t2.counter \in Words
  BY Parts DEF Timer1, Timer2
<1>2. Lo(v.t2.counter) \in Words /\ Lo(v.t2.counter) <= v.t2.counter
  BY <1>1, ByteAssumption DEF Words, Word, Lo
<1> QED
  BY <1>1, <1>2, WordIsNat DEF via_quiet, T2Counting, Words

\* Within its low byte, a word counts down without a borrow.
LEMMA LowByteDown ==
  ASSUME NEW c \in Words, NEW n \in Nat, n <= Lo(c)
  PROVE  WordOf(Hi(c), Lo(c - n)) = c - n /\ Lo(c - n) = Lo(c) - n
         /\ Hi(c - n) = Hi(c)
<1>1. c \in Nat
  BY DEF Words
<1>2. (c - n) % Byte = (c % Byte) - n /\ (c - n) \div Byte = c \div Byte
  BY <1>1, ByteAssumption DEF Lo
<1>3. c = WordOf(Hi(c), Lo(c))
  BY WordSplit
<1> QED
  BY <1>1, <1>2, <1>3, ByteAssumption DEF Lo, Hi, WordOf

\* Within the promise, via_sync only counts the timers down.
LEMMA SyncIsCountdown ==
  ASSUME NEW v, Good(v), NEW n \in Nat, n <= via_quiet(v)
  PROVE  via_sync(v, n) = With(v, Count1(v, n), Count2(v, n))
<1>1. v.t1.counter \in Words /\ v.t2.counter \in Words
  BY Parts DEF Timer1, Timer2
<1>2. v.t1.active => (v.t1.counter - n) % Word = v.t1.counter - n
  BY <1>1, QuietBounds, WordIsNat DEF Words
<1>3. T2Counting(v) => (v.t2.counter - n) % Word = v.t2.counter - n
  BY <1>1, QuietBounds, WordIsNat DEF Words
<1>4. T2Counting(v) /\ via_t2_8bit(v)
        => WordOf(Hi(v.t2.counter), Lo(v.t2.counter - n)) = v.t2.counter - n
  <2>1. ASSUME T2Counting(v), via_t2_8bit(v)
        PROVE  n <= Lo(v.t2.counter)
    BY <1>1, <2>1, QuietBounds, WordSplit DEF Words, Bytes
  <2> QED BY <1>1, <2>1, LowByteDown
<1>5. CASE n # 0
  BY <1>2, <1>3, <1>4, <1>5 DEF via_sync, With, Count1, Count2, T2Counting
<1>6. CASE n = 0
  <2>1. Count1(v, n) = v.t1.counter /\ Count2(v, n) = v.t2.counter
    BY <1>1, <1>6 DEF Count1, Count2, Words
  <2>2. With(v, v.t1.counter, v.t2.counter) = v
    BY Parts DEF With, Good, Chip, Timer1, Timer2
  <2> QED BY <1>6, <2>1, <2>2 DEF via_sync
<1> QED BY <1>5, <1>6

\* The stages of a cycle without events.
LEMMA QuietStage ==
  ASSUME NEW v, Good(v), ~EventNear(v)
  PROVE  /\ PulseStage(v) = v
         /\ SrT2Stage(v) = v
         /\ SrPhi2Stage(v) = v
         /\ v.t1.active /\ v.t1.counter > 0
              => T1Stage(v) = [v EXCEPT !.t1 =
                                [v.t1 EXCEPT !.counter = @ - 1]]
         /\ ~v.t1.active => T1Stage(v) = v
         /\ T2Counting(v) /\ v.t2.counter > 0
             /\ (via_t2_8bit(v) => Lo(v.t2.counter) > 0)
              => T2Stage(v) = [v EXCEPT !.t2 =
                                [v.t2 EXCEPT !.counter = @ - 1]]
         /\ ~T2Counting(v) => T2Stage(v) = v
<1>1. PulseStage(v) = v
  <2>1. v.pins.ca2_pulse = 0 /\ v.pins.cb2_pulse = 0
    BY Parts DEF Pins, EventNear
  <2>2. (v.pins.ca2 \/ v.pins.ca2_pulse > 0) = v.pins.ca2
        /\ (v.pins.cb2 \/ v.pins.cb2_pulse > 0) = v.pins.cb2
    BY <2>1, Parts DEF Pins
  <2>3. [v.pins EXCEPT !.ca2 = v.pins.ca2 \/ v.pins.ca2_pulse > 0, !.ca2_pulse = 0,
                       !.cb2 = v.pins.cb2 \/ v.pins.cb2_pulse > 0, !.cb2_pulse = 0]
          = v.pins
    BY <2>1, <2>2, Parts DEF Pins
  <2>4. [v EXCEPT !.pins = v.pins] = v
    BY DEF Good, Chip
  <2> QED BY <2>3, <2>4 DEF PulseStage
<1>2. SrT2Stage(v) = v
  BY Parts DEF SrT2Stage, EventNear, ShiftReg
<1>3. SrPhi2Stage(v) = v
  <2>1. v.acr.mode \in Phi2Modes => ~v.sr.active /\ ~(v.sr.delay > 0)
    BY DEF EventNear
  <2> QED BY <2>1 DEF SrPhi2Stage, via_sr_event
<1>4. v.t1.active => ~v.t1.reload
  BY DEF EventNear
<1>5. v.t1.active /\ v.t1.counter > 0
        => T1Stage(v) = [v EXCEPT !.t1 = [v.t1 EXCEPT !.counter = @ - 1]]
  BY <1>4 DEF T1Stage
<1>6. ~v.t1.active => T1Stage(v) = v
  BY DEF T1Stage
<1> DEFINE w == [v EXCEPT !.t2 = [v.t2 EXCEPT !.phi2 = ~v.acr.pulse,
                                              !.hold = FALSE]]
<1>7. w = v
  <2>1. v.t2.phi2 = ~v.acr.pulse /\ v.t2.hold = FALSE
    BY Parts DEF EventNear, Timer2, Acr
  <2>2. [v.t2 EXCEPT !.phi2 = ~v.acr.pulse, !.hold = FALSE] = v.t2
    BY <2>1, Parts DEF Timer2
  <2>3. [v EXCEPT !.t2 = v.t2] = v
    BY DEF Good, Chip
  <2> QED BY <2>2, <2>3
<1>8. ~v.t2.hold
  BY DEF EventNear
<1>9. T2Stage(v) = IF ~T2Counting(v) THEN v
                   ELSE IF via_t2_8bit(v) THEN T2Count8(v) ELSE T2Count16(v)
  BY <1>7, <1>8 DEF T2Stage, T2Counting
<1>10. ASSUME T2Counting(v), v.t2.counter > 0,
              via_t2_8bit(v) => Lo(v.t2.counter) > 0
       PROVE  T2Stage(v) = [v EXCEPT !.t2 = [v.t2 EXCEPT !.counter = @ - 1]]
  <2>1. v.t2.counter \in Words /\ v.t2 \in Timer2
    BY Parts DEF Timer2
  <2>2. CASE via_t2_8bit(v)
    <3>1. ~v.t2.reload
      BY <1>10, <2>2 DEF EventNear, T2Counting
    <3>2. 1 <= Lo(v.t2.counter)
      BY <1>10, <2>1, <2>2, WordSplit DEF Bytes
    <3>3. WordOf(Hi(v.t2.counter), Lo(v.t2.counter - 1)) = v.t2.counter - 1
          /\ Lo(v.t2.counter - 1) = Lo(v.t2.counter) - 1
      BY <2>1, <3>2, LowByteDown
    <3>4. T2Count8(v) = [v EXCEPT !.t2 = [v.t2 EXCEPT !.counter =
                           WordOf(Hi(v.t2.counter), Lo(v.t2.counter) - 1)]]
      BY <1>10, <2>2, <3>1 DEF T2Count8
    <3> QED BY <1>9, <1>10, <2>2, <3>3, <3>4
  <2>3. CASE ~via_t2_8bit(v)
    <3>1. (v.t2.counter - 1) % Word = v.t2.counter - 1
      BY <1>10, <2>1, WordIsNat DEF Words
    <3>2. (v.t2.running /\ v.t2.counter # 0) = v.t2.running
      BY <1>10, <2>1 DEF Timer2, Words
    <3>3. T2Count16(v) = [v EXCEPT !.t2 =
             [v.t2 EXCEPT !.counter = (v.t2.counter - 1) % Word,
                          !.running = v.t2.running /\ v.t2.counter # 0]]
      BY <1>10, <2>1 DEF T2Count16, Words
    <3>4. [v.t2 EXCEPT !.counter = v.t2.counter - 1, !.running = v.t2.running]
            = [v.t2 EXCEPT !.counter = v.t2.counter - 1]
      BY <2>1 DEF Timer2
    <3> QED BY <1>9, <1>10, <2>3, <3>1, <3>2, <3>3, <3>4
  <2> QED BY <2>2, <2>3
<1>11. ~T2Counting(v) => T2Stage(v) = v
  BY <1>9
<1> QED
  BY <1>1, <1>2, <1>3, <1>5, <1>6, <1>10, <1>11

\* What the timer counters do not touch.
LEMMA WithKeeps ==
  ASSUME NEW v, Good(v), NEW c1 \in Words, NEW c2 \in Words
  PROVE  LET u == With(v, c1, c2)
         IN /\ Good(u)
            /\ EventNear(u) = EventNear(v)
            /\ via_t2_8bit(u) = via_t2_8bit(v)
            /\ T2Counting(u) = T2Counting(v)
            /\ u.t1.active = v.t1.active /\ u.t1.reload = v.t1.reload
            /\ u.t1.counter = c1 /\ u.t2.counter = c2
            /\ u.irq = v.irq
            /\ \A d1, d2 : With(u, d1, d2) = With(v, d1, d2)
<1> DEFINE t1 == [v.t1 EXCEPT !.counter = c1]
           t2 == [v.t2 EXCEPT !.counter = c2]
           u == With(v, c1, c2)
<1>1. t1 \in Timer1 /\ t2 \in Timer2
  BY Parts DEF Timer1, Timer2
<1>2. u.t1 = t1 /\ u.t2 = t2 /\ u.sr = v.sr /\ u.acr = v.acr
      /\ u.pins = v.pins /\ u.irq = v.irq /\ u.pcr = v.pcr
  BY DEF With, Good, Chip
<1>3. Good(u)
  <2>1. Good([v EXCEPT !.t1 = t1])
    BY <1>1, WriteGood
  <2>2. Good([[v EXCEPT !.t1 = t1] EXCEPT !.t2 = t2])
    BY <1>1, <2>1, WriteGood
  <2>3. u = [[v EXCEPT !.t1 = t1] EXCEPT !.t2 = t2]
    BY DEF With
  <2> QED BY <2>2, <2>3
<1>4. /\ t1.active = v.t1.active /\ t1.reload = v.t1.reload /\ t1.counter = c1
      /\ t2.active = v.t2.active /\ t2.phi2 = v.t2.phi2 /\ t2.hold = v.t2.hold
      /\ t2.reload = v.t2.reload /\ t2.counter = c2
  BY Parts DEF Timer1, Timer2
<1>5. via_t2_8bit(u) = via_t2_8bit(v) /\ T2Counting(u) = T2Counting(v)
  BY <1>2, <1>4 DEF via_t2_8bit, T2Counting
<1>6. EventNear(u) = EventNear(v)
  BY <1>2, <1>4 DEF EventNear, via_t2_8bit
<1>7. ASSUME NEW d1, NEW d2 PROVE With(u, d1, d2) = With(v, d1, d2)
  <2>1. [t1 EXCEPT !.counter = d1] = [v.t1 EXCEPT !.counter = d1]
    BY Parts DEF Timer1
  <2>2. [t2 EXCEPT !.counter = d2] = [v.t2 EXCEPT !.counter = d2]
    BY Parts DEF Timer2
  <2>3. \A a, b : [u EXCEPT !.t1 = a, !.t2 = b] = [v EXCEPT !.t1 = a, !.t2 = b]
    BY DEF With, Good, Chip
  <2> QED BY <1>2, <2>1, <2>2, <2>3 DEF With
<1> QED
  BY <1>2, <1>3, <1>4, <1>5, <1>6, <1>7

\* A cycle without events is one countdown of the timers that count.
LEMMA QuietStep ==
  ASSUME NEW v, Good(v), ~EventNear(v),
         v.t1.active => v.t1.counter > 0,
         T2Counting(v) => v.t2.counter > 0
                          /\ (via_t2_8bit(v) => Lo(v.t2.counter) > 0)
  PROVE  via_step(v) = With(v, Count1(v, 1), Count2(v, 1))
<1> DEFINE c1 == Count1(v, 1)
           c2 == Count2(v, 1)
           x == With(v, c1, v.t2.counter)
<1>1. v.t1.counter \in Words /\ v.t2.counter \in Words
  BY Parts DEF Timer1, Timer2
<1>2. c1 \in Words /\ c2 \in Words
  BY <1>1, WordIsNat DEF Count1, Count2, Words
<1>3. T1Stage(PulseStage(v)) = x
  <2>1. PulseStage(v) = v
    BY QuietStage
  <2>2. [v.t2 EXCEPT !.counter = v.t2.counter] = v.t2
    BY Parts DEF Timer2
  <2>3. [v EXCEPT !.t1 = [v.t1 EXCEPT !.counter = c1], !.t2 = v.t2]
          = [v EXCEPT !.t1 = [v.t1 EXCEPT !.counter = c1]]
    BY DEF Good, Chip
  <2>4. x = [v EXCEPT !.t1 = [v.t1 EXCEPT !.counter = c1]]
    BY <2>2, <2>3 DEF With
  <2>5. CASE v.t1.active
    BY <2>1, <2>4, <2>5, QuietStage DEF Count1
  <2>6. CASE ~v.t1.active
    <3>1. [v EXCEPT !.t1 = [v.t1 EXCEPT !.counter = v.t1.counter]] = v
      BY Parts DEF Good, Chip, Timer1
    <3> QED BY <2>1, <2>4, <2>6, <3>1, QuietStage DEF Count1
  <2> QED BY <2>5, <2>6
<1>4. /\ Good(x) /\ ~EventNear(x)
      /\ via_t2_8bit(x) = via_t2_8bit(v) /\ T2Counting(x) = T2Counting(v)
      /\ x.t2.counter = v.t2.counter /\ x.t1.counter = c1
      /\ With(x, c1, c2) = With(v, c1, c2)
  BY SMTT(20), <1>1, <1>2, WithKeeps
<1>5. SrT2Stage(x) = x
  BY <1>4, QuietStage
<1>6. T2Stage(x) = With(x, c1, c2)
  <2>1. [x.t1 EXCEPT !.counter = c1] = x.t1
    BY <1>4, Parts DEF Timer1
  <2>2. [x EXCEPT !.t1 = x.t1, !.t2 = [x.t2 EXCEPT !.counter = c2]]
          = [x EXCEPT !.t2 = [x.t2 EXCEPT !.counter = c2]]
    BY <1>4 DEF Good, Chip
  <2>3. With(x, c1, c2) = [x EXCEPT !.t2 = [x.t2 EXCEPT !.counter = c2]]
    BY <2>1, <2>2 DEF With
  <2> HIDE DEF x
  <2>4. CASE T2Counting(v)
    BY <1>4, <2>3, <2>4, QuietStage DEF Count2
  <2>5. CASE ~T2Counting(v)
    <3>1. [x EXCEPT !.t2 = [x.t2 EXCEPT !.counter = x.t2.counter]] = x
      BY <1>4, Parts DEF Good, Chip, Timer2
    <3> QED BY <1>4, <2>3, <2>5, <3>1, QuietStage DEF Count2
  <2> QED BY <2>4, <2>5
<1>7. SrPhi2Stage(With(v, c1, c2)) = With(v, c1, c2)
  <2>1. Good(With(v, c1, c2)) /\ ~EventNear(With(v, c1, c2))
    BY <1>2, WithKeeps
  <2> QED BY <2>1, QuietStage
<1> QED
  BY <1>3, <1>4, <1>5, <1>6, <1>7 DEF via_step

\* The heart of the lazy path: one more skipped cycle is one more step.
LEMMA SyncStep ==
  ASSUME NEW v, Good(v), NEW n \in Nat, n + 1 <= via_quiet(v)
  PROVE  via_sync(v, n + 1) = via_step(via_sync(v, n))
<1> DEFINE c1 == Count1(v, n)
           c2 == Count2(v, n)
           u == With(v, c1, c2)
<1>1. v.t1.counter \in Words /\ v.t2.counter \in Words
  BY Parts DEF Timer1, Timer2
<1>2. via_quiet(v) \in Nat /\ ~EventNear(v) /\ n <= via_quiet(v)
  BY QuietBounds DEF Words
<1>3. c1 \in Words /\ c2 \in Words
  BY <1>1, <1>2, QuietBounds, WordIsNat DEF Count1, Count2, Words
<1>4. via_sync(v, n) = u
  BY <1>2, SyncIsCountdown
<1>5. via_sync(v, n + 1) = With(v, Count1(v, n + 1), Count2(v, n + 1))
  BY SyncIsCountdown
<1>6. /\ Good(u) /\ ~EventNear(u)
      /\ via_t2_8bit(u) = via_t2_8bit(v) /\ T2Counting(u) = T2Counting(v)
      /\ u.t1.active = v.t1.active /\ u.t1.counter = c1 /\ u.t2.counter = c2
      /\ \A d1, d2 : With(u, d1, d2) = With(v, d1, d2)
  BY <1>2, <1>3, WithKeeps
<1> HIDE DEF u
<1>7. u.t1.active => u.t1.counter > 0
  <2>1. v.t1.active => n + 1 <= v.t1.counter
    BY <1>1, <1>2, QuietBounds DEF Words
  <2>2. v.t1.active => c1 > 0
    BY <1>1, <2>1 DEF Count1, Words
  <2> HIDE DEF c1
  <2> QED BY <1>6, <2>2
<1>8. T2Counting(u) => u.t2.counter > 0
  <2>1. T2Counting(v) => n + 1 <= v.t2.counter
    BY <1>1, <1>2, QuietBounds DEF Words
  <2>2. T2Counting(v) => c2 > 0
    BY <1>1, <2>1 DEF Count2, Words
  <2> HIDE DEF c2
  <2> QED BY <1>6, <2>2
<1>9. T2Counting(u) /\ via_t2_8bit(u) => Lo(u.t2.counter) > 0
  <2> SUFFICES ASSUME T2Counting(v), via_t2_8bit(v)
               PROVE  Lo(v.t2.counter - n) > 0
    BY <1>6 DEF Count2
  <2>1. n + 1 <= Lo(v.t2.counter) /\ Lo(v.t2.counter) \in Nat
    BY <1>1, <1>2, QuietBounds, WordSplit DEF Bytes
  <2>2. Lo(v.t2.counter - n) = Lo(v.t2.counter) - n
    BY <1>1, <2>1, LowByteDown
  <2> QED BY <2>1, <2>2
<1>10. via_step(u) = With(u, Count1(u, 1), Count2(u, 1))
  BY <1>6, <1>7, <1>8, <1>9, QuietStep
<1>11. Count1(u, 1) = Count1(v, n + 1)
  BY <1>1, <1>6 DEF Count1, Words
<1>12. Count2(u, 1) = Count2(v, n + 1)
  <2>1. c2 = IF T2Counting(v) THEN v.t2.counter - n ELSE v.t2.counter
    BY DEF Count2
  <2>2. Count2(u, 1) = IF T2Counting(v) THEN c2 - 1 ELSE c2
    BY <1>6 DEF Count2
  <2> HIDE DEF c2
  <2> QED BY <1>1, <2>1, <2>2 DEF Count2, Words
<1>13. With(u, Count1(u, 1), Count2(u, 1)) = With(v, Count1(u, 1), Count2(u, 1))
  BY <1>6, Zenon
<1> QED
  BY <1>4, <1>5, <1>10, <1>11, <1>12, <1>13

-----------------------------------------------------------------------------
(* The inductive invariant *)

LazyInv == TypeOK /\ SkippedCyclesAreQuiet /\ IrqOK(via.irq)

\* via_reset gives a well-formed chip.
LEMMA ResetGood == Good(via_reset) /\ via_reset.sr.bits \in [1 .. SrBits -> BOOLEAN]
<1>1. Word - 1 \in Words /\ Byte - 1 \in Bytes /\ 0 \in 0 .. 2 * SrBits - 1
  BY WordIsNat, ByteAssumption, SrBitsAssumption DEF Bytes
<1>2. via_reset.t1 \in Timer1
  BY <1>1 DEF via_reset, Timer1
<1>3. via_reset.t2 \in Timer2
  BY <1>1 DEF via_reset, Timer2
<1>4. via_reset.sr \in ShiftReg
  BY <1>1 DEF via_reset, ShiftReg
<1>5. via_reset.acr \in Acr /\ via_reset.pcr \in Pcr
  BY DEF via_reset, Acr, Pcr, SrModes, Modes2, InputModes
<1>6. via_reset.pins \in Pins
  BY DEF via_reset, Pins
<1>7. via_reset.irq \in Irq /\ IrqOK(via_reset.irq)
  BY DEF via_reset, Irq, IrqOK
<1>8. via_reset = [t1 |-> via_reset.t1, t2 |-> via_reset.t2,
                   sr |-> via_reset.sr, acr |-> via_reset.acr,
                   pcr |-> via_reset.pcr, pins |-> via_reset.pins,
                   irq |-> via_reset.irq]
  BY DEF via_reset
<1>9. via_reset \in Chip
  BY <1>2, <1>3, <1>4, <1>5, <1>6, <1>7, <1>8 DEF Chip
<1> QED BY <1>4, <1>7, <1>9 DEF Good, ShiftReg

\* The history of the shift register keeps its type.
Begun(w) == [Lost EXCEPT !.byte = w.sr.bits, !.whole = TRUE]
LEMMA BegunTyped ==
  /\ Lost \in ShiftLog /\ Lost.whole = FALSE
  /\ \A w : Good(w) => /\ Begun(w) \in ShiftLog
                       /\ Begun(w).byte = w.sr.bits /\ Begun(w).whole = TRUE
<1>1. Lost \in ShiftLog /\ Lost.whole = FALSE
  BY ResetGood DEF Lost, ShiftLog
<1>2. ASSUME NEW w, Good(w)
      PROVE  /\ Begun(w) \in ShiftLog
             /\ Begun(w).byte = w.sr.bits /\ Begun(w).whole = TRUE
  BY <1>1, <1>2, Parts DEF Begun, ShiftLog, ShiftReg
<1> QED BY <1>1, <1>2

LEMMA PutTyped ==
  ASSUME NEW log \in ShiftLog, NEW w, Good(w)
  PROVE  /\ Put(log, w) \in ShiftLog
         /\ Put(log, w).byte = log.byte /\ Put(log, w).whole = log.whole
         /\ Put(log, w).line = [i \in 1 .. SrBits |-> IF i < SrBits THEN log.line[i + 1]
                                                     ELSE {w.pins.cb2}]
<1> DEFINE l == [i \in 1 .. SrBits |-> IF i < SrBits THEN log.line[i + 1] ELSE {w.pins.cb2}]
<1>1. log.line \in [1 .. SrBits -> SUBSET BOOLEAN] /\ w.pins.cb2 \in BOOLEAN
  BY Parts DEF ShiftLog, Pins
<1>2. l \in [1 .. SrBits -> SUBSET BOOLEAN]
  BY <1>1, SrBitsAssumption
<1> HIDE DEF l
<1>3. [log EXCEPT !.line = l] \in ShiftLog /\ [log EXCEPT !.line = l].line = l
      /\ [log EXCEPT !.line = l].byte = log.byte /\ [log EXCEPT !.line = l].whole = log.whole
  BY <1>2 DEF ShiftLog
<1> QED BY <1>3 DEF Put, l

\* The lazy invariant holds after a reset.
LEMMA LazyInit == Init => LazyInv
<1> SUFFICES ASSUME Init PROVE LazyInv
  OBVIOUS
<1>1. 0 \in Words
  BY WordIsNat DEF Words
<1> QED
  BY <1>1, ResetGood, BegunTyped, PutTyped
  DEF Init, LazyInv, TypeOK, SkippedCyclesAreQuiet, Good

\* The chip with its skipped cycles applied is well-formed.
LEMMA SyncedGood ==
  ASSUME LazyInv
  PROVE  Good(via) /\ Good(Synced) /\ pending \in Nat
<1>1. Good(via) /\ pending \in Nat
  BY DEF LazyInv, TypeOK, Good, Words
<1> QED
  BY <1>1, SyncGood DEF Synced

\* The lazy invariant is inductive.
LEMMA LazyNext == LazyInv /\ [Next]_vars => LazyInv'
<1> SUFFICES ASSUME LazyInv, [Next]_vars PROVE LazyInv'
  OBVIOUS
<1> USE DEF LazyInv
<1>1. Good(via) /\ Good(Synced) /\ pending \in Nat /\ 0 \in Words
  BY SyncedGood, WordIsNat DEF Words
<1>2. ASSUME NEW v, NEW w, Good(v), Good(w), LogTick(v, w)
      PROVE  /\ t1log' \in [gap : Nat, loaded : Words]
             /\ srlog' \in ShiftLog
  <2>1. v.t1.latch \in Words
    BY <1>2, Parts DEF Timer1
  <2>2. t1log.gap \in Nat /\ t1log.loaded \in Words
    BY DEF TypeOK
  <2>3. t1log' \in [gap : Nat, loaded : Words]
    BY <1>2, <2>1, <2>2 DEF LogTick, TypeOK
  <2>4. srlog' \in {srlog, Put(srlog, w)} /\ srlog \in ShiftLog
    BY <1>2 DEF LogTick, TypeOK
  <2>5. Put(srlog, w) \in ShiftLog
    BY <1>2, <2>4, PutTyped
  <2> QED BY <2>3, <2>4, <2>5
<1>3. ASSUME NEW v, NEW w, Good(v), Good(w), LogCall(v, w)
      PROVE  /\ t1log' \in [gap : Nat, loaded : Words]
             /\ srlog' \in ShiftLog
  <2>1. t1log' \in [gap : Nat, loaded : Words]
    BY <1>3 DEF LogCall, TypeOK
  <2>2. srlog' \in {srlog, Put(srlog, w), Begun(w), Lost} /\ srlog \in ShiftLog
    BY <1>3 DEF LogCall, Begun, TypeOK
  <2>3. Put(srlog, w) \in ShiftLog /\ Begun(w) \in ShiftLog /\ Lost \in ShiftLog
    BY <1>3, <2>2, BegunTyped, PutTyped
  <2> QED BY <2>1, <2>2, <2>3
<1>4. CASE SkipTick
  <2>1. pending + quiet <= via_quiet(via) /\ via_quiet(via) \in Words
        /\ quiet \in Nat /\ quiet > 0
    BY <1>1, <1>4, QuietBounds DEF SkipTick, SkippedCyclesAreQuiet, TypeOK, Words
  <2>2. quiet' = quiet - 1 /\ pending' = pending + 1
    BY <1>4 DEF SkipTick
  <2>3. quiet' \in Words /\ pending' \in Words
        /\ pending' + quiet' = pending + quiet
    BY <1>1, <2>1, <2>2, WordIsNat DEF Words
  <2>4. via' = via /\ prog' = prog
    BY <1>4 DEF SkipTick
  <2>5. SkippedCyclesAreQuiet'
    BY <2>1, <2>3, <2>4 DEF SkippedCyclesAreQuiet
  <2> QED BY <1>1, <1>2, <1>4, <2>3, <2>4, <2>5 DEF SkipTick, TypeOK
<1>5. CASE FullTick
  <2>1. Good(via')
    BY <1>1, <1>5, StepGood DEF FullTick
  <2>2. via_quiet(via') \in Words
    BY <2>1, QuietBounds
  <2>3. pending' = 0 /\ quiet' = via_quiet(via') /\ prog' = prog
    BY <1>5 DEF FullTick
  <2>4. SkippedCyclesAreQuiet'
    BY <2>2, <2>3 DEF SkippedCyclesAreQuiet, Words
  <2> QED BY <1>1, <1>2, <1>5, <2>1, <2>2, <2>3, <2>4 DEF FullTick, TypeOK, Good
<1>6. CASE Call
  <2>1. Good(via')
    <3>1. prog \in Program
      BY ProgramsAssumption DEF TypeOK
    <3> QED BY <1>1, <1>6, <3>1, CalledGood DEF Call
  <2>2. pending' = 0 /\ quiet' = 0 /\ prog' = prog
    BY <1>6 DEF Call
  <2>3. SkippedCyclesAreQuiet'
    BY <2>2 DEF SkippedCyclesAreQuiet
  <2> QED BY <1>1, <1>3, <1>6, <2>1, <2>2, <2>3 DEF Call, TypeOK, Good
<1>7. CASE cpu_reset
  <2> DEFINE q == [via.irq EXCEPT !.cpu = FALSE]
  <2>1. q \in Irq /\ IrqOK(q)
    BY <1>1, Parts DEF Irq, IrqOK
  <2>2. via' = [via EXCEPT !.irq = q]
    BY <1>7 DEF cpu_reset, Unheard
  <2>3. Good(via')
    BY <1>1, <2>1, <2>2, WriteGood
  <2>4. /\ via'.t1 = via.t1 /\ via'.t2 = via.t2 /\ via'.sr = via.sr
        /\ via'.acr = via.acr /\ via'.pins = via.pins
    BY <1>1, <2>2 DEF Good, Chip
  <2>5. via_quiet(via') = via_quiet(via)
    BY <2>4 DEF via_quiet, EventNear, via_t2_8bit
  <2>6. UNCHANGED <<quiet, pending, prog, t1log, srlog>>
    BY <1>7 DEF cpu_reset
  <2>7. SkippedCyclesAreQuiet'
    BY <2>5, <2>6 DEF SkippedCyclesAreQuiet
  <2> QED BY <2>3, <2>6, <2>7 DEF TypeOK, Good
<1>8. CASE UNCHANGED vars
  BY <1>8 DEF vars, TypeOK, SkippedCyclesAreQuiet
<1> QED
  BY <1>4, <1>5, <1>6, <1>7, <1>8 DEF Next

\* LazyInv holds in every state of ViaLazy.
THEOREM LazyInvariance == Spec => []LazyInv
BY LazyInit, LazyNext, PTL DEF Spec

\* Registers keep their widths: no operation of via6522.c leaves a counter, a
\* shift count or a delay outside its range.
THEOREM ViaTypeCorrect == Spec => []TypeOK
<1>1. LazyInv => TypeOK
  BY DEF LazyInv
<1> QED BY <1>1, LazyInvariance, PTL

\* via_quiet is never too optimistic for the cycles still skipped or promised.
THEOREM QuietIsSafe == Spec => []SkippedCyclesAreQuiet
<1>1. LazyInv => SkippedCyclesAreQuiet
  BY DEF LazyInv
<1> QED BY <1>1, LazyInvariance, PTL

\* The interrupt line is exact and the CPU holds no interrupt that the VIA
\* does not assert, whatever programs and devices do.
THEOREM IrqLineExact == Spec => []IrqLineFollowsFlags
<1>1. LazyInv => IrqLineFollowsFlags
  BY DEF LazyInv, IrqOK, IrqLineFollowsFlags
<1> QED BY <1>1, LazyInvariance, PTL

\* The two together: nobody can tell that cycles were skipped.
THEOREM SkippingSound == Spec => []SkippingIsSound
<1>1. SkippedCyclesAreQuiet /\ IrqLineFollowsFlags => SkippingIsSound
  BY DEF SkippingIsSound
<1> QED BY <1>1, QuietIsSafe, IrqLineExact, PTL

-----------------------------------------------------------------------------
(* The lazy VIA implements the stepwise one *)

\* The lazy chip starts as the stepwise one does.
LEMMA StepwiseInit == Init => Stepwise!Init
BY DEF Init, Stepwise!Init, Synced, via_sync

\* Every step of the lazy chip is a stepwise step or a stutter.
LEMMA StepwiseNext ==
  LazyInv /\ [Next]_vars => [Stepwise!Next]_(Stepwise!vars)
<1> SUFFICES ASSUME LazyInv, [Next]_vars
             PROVE  Stepwise!Next \/ (Synced' = Synced /\ prog' = prog)
  BY DEF Stepwise!vars
<1>1. Good(via) /\ Good(Synced) /\ pending \in Nat
  BY SyncedGood
<1>2. CASE SkipTick
  <2>1. pending + 1 <= via_quiet(via)
    <3>1. pending + quiet <= via_quiet(via) /\ quiet \in Nat /\ quiet > 0
      BY <1>1, <1>2 DEF SkipTick, LazyInv, SkippedCyclesAreQuiet, TypeOK, Words
    <3>2. via_quiet(via) \in Nat
      BY <1>1, QuietBounds DEF Words
    <3> QED BY <1>1, <3>1, <3>2
  <2>2. via_sync(via, pending + 1) = via_step(via_sync(via, pending))
    BY <1>1, <2>1, SyncStep
  <2>3. Synced' = via_step(Synced) /\ prog' = prog
    BY <1>2, <2>2 DEF SkipTick, Synced
  <2> QED BY <2>3 DEF Stepwise!Next, Stepwise!Tick
<1>3. CASE FullTick
  <2>1. Synced' = via_step(Synced) /\ prog' = prog
    BY <1>3 DEF FullTick, Synced, via_sync
  <2> QED BY <2>1 DEF Stepwise!Next, Stepwise!Tick
<1>4. CASE Call
  <2>1. Synced' = via' /\ prog' = prog
    BY <1>4 DEF Call, Synced, via_sync
  <2>2. Called(Synced, Synced', prog)
    BY <1>4, <2>1 DEF Call
  <2> QED BY <2>1, <2>2 DEF Stepwise!Next, Stepwise!Call
<1>5. CASE cpu_reset
  <2> DEFINE q == [via.irq EXCEPT !.cpu = FALSE]
             x == [via EXCEPT !.irq = q]
  <2>1. via' = x /\ pending' = pending /\ prog' = prog
    BY <1>5 DEF cpu_reset, Unheard
  <2>2. /\ x.t1 = via.t1 /\ x.t2 = via.t2 /\ x.acr = via.acr
    BY <1>1 DEF Good, Chip
  <2>3. Synced.irq = via.irq
    BY <1>1 DEF Synced, via_sync, Good, Chip
  <2>4. via_sync(x, pending) = [via_sync(via, pending) EXCEPT !.irq = q]
    <3>1. CASE pending = 0
      BY <3>1 DEF via_sync
    <3>2. CASE pending # 0
      <4>1. \A a, b : [x EXCEPT !.t1 = a, !.t2 = b]
                       = [[via EXCEPT !.t1 = a, !.t2 = b] EXCEPT !.irq = q]
        BY <1>1 DEF Good, Chip
      <4> HIDE DEF x, q
      <4> QED BY <2>2, <3>2, <4>1 DEF via_sync, via_t2_8bit
    <3> QED BY <3>1, <3>2
  <2>5. Synced' = Unheard(Synced)
    BY <2>1, <2>3, <2>4 DEF Synced, Unheard
  <2> QED BY <2>1, <2>5 DEF Stepwise!Next, Stepwise!CpuReset
<1>6. CASE UNCHANGED vars
  BY <1>6 DEF vars, Synced
<1> QED
  BY <1>2, <1>3, <1>4, <1>5, <1>6 DEF Next

\* The lazy path is exact: whatever is skipped, no access and no interrupt can
\* tell the chip from one that carries out every cycle.
THEOREM LazyRefinement == Spec => LazyIsExact
BY StepwiseInit, StepwiseNext, LazyInvariance, PTL
DEF Spec, LazyIsExact, Stepwise!Spec

-----------------------------------------------------------------------------
(* The period of timer 1 *)

\* Flags do not touch timer 1.
LEMMA IrqKeepsT1 ==
  ASSUME NEW v, Good(v), NEW F
  PROVE  Raise(v, F).t1 = v.t1 /\ Lower(v, F).t1 = v.t1
BY DEF Raise, Lower, Good, Chip

\* The shift register does not touch timer 1.
LEMMA SrEventKeepsT1 ==
  ASSUME NEW v, Good(v)
  PROVE  via_sr_event(v).t1 = v.t1 /\ via_do_shift(v).t1 = v.t1
<1>1. Good(Shifted(v)) /\ Shifted(v).t1 = v.t1
  BY ShiftedGood DEF Shifted, Good, Chip
<1>2. ASSUME NEW x, Good(x), NEW n PROVE Counted(x, n).t1 = x.t1
  <2> DEFINE y == [x EXCEPT !.sr = [x.sr EXCEPT !.count = 0, !.active = FALSE]]
  <2>1. Good(y) /\ y.t1 = x.t1
    <3>1. x.sr \in ShiftReg /\ 0 \in 0 .. 3 /\ FALSE \in BOOLEAN
      BY <1>2, Parts
    <3>2. [x.sr EXCEPT !.count = 0, !.active = FALSE] \in ShiftReg
      BY <3>1, ShiftRegWrite, Zenon
    <3> QED BY <1>2, <3>2, WriteGood DEF Good, Chip
  <2>2. Raise(y, {"SR"}).t1 = x.t1
    BY <2>1, IrqKeepsT1
  <2> QED BY <1>2, <2>2 DEF Counted, Good, Chip
<1>3. Counted(v, 2 * SrBits).t1 = v.t1 /\ Counted(Shifted(v), 2 * SrBits).t1 = v.t1
      /\ Counted(Shifted(v), SrBits).t1 = v.t1
  BY <1>1, <1>2
<1> QED BY <1>3 DEF via_sr_event, via_do_shift

\* Of the stages of a cycle only its own touches timer 1.
LEMMA StepT1 ==
  ASSUME NEW v, Good(v)
  PROVE  via_step(v).t1 = T1Stage(v).t1
<1> DEFINE a == PulseStage(v)
           b == T1Stage(a)
           c == SrT2Stage(b)
           d == T2Stage(c)
<1>1. Good(a) /\ Good(b) /\ Good(c) /\ Good(d)
  BY PulseStageGood, T1StageGood, SrT2StageGood, T2StageGood
<1>2. a.t1 = v.t1 /\ a.acr = v.acr
  BY DEF PulseStage, Good, Chip
<1>3. ASSUME NEW x, Good(x), NEW t PROVE Raise([x EXCEPT !.t1 = t], {"T1"}).t1 = t
  BY <1>3 DEF Raise, Good, Chip
<1>4. b.t1 = T1Stage(v).t1
  <2>1. ASSUME NEW t PROVE /\ Raise([a EXCEPT !.t1 = t], {"T1"}).t1 = t
                           /\ Raise([v EXCEPT !.t1 = t], {"T1"}).t1 = t
                           /\ [a EXCEPT !.t1 = t].t1 = t
                           /\ [v EXCEPT !.t1 = t].t1 = t
    BY <1>1, <1>3 DEF Good, Chip
  <2> HIDE DEF a
  <2> QED BY <1>2, <2>1 DEF T1Stage
<1>5. c.t1 = b.t1
  <2> DEFINE s == [b.sr EXCEPT !.t2_pending = @ - 1]
             w == [b EXCEPT !.sr = s]
  <2>1. CASE b.sr.t2_pending = 0
    BY <2>1 DEF SrT2Stage
  <2>2. CASE b.sr.t2_pending # 0
    <3>1. s \in ShiftReg
      BY <1>1, <2>2, Parts DEF ShiftReg
    <3>2. Good(w) /\ w.t1 = b.t1
      BY <1>1, <3>1, WriteGood DEF Good, Chip
    <3>3. via_sr_event(w).t1 = b.t1
      BY <3>2, SrEventKeepsT1
    <3> HIDE DEF b
    <3> QED BY <2>2, <3>2, <3>3 DEF SrT2Stage
  <2> QED BY <2>1, <2>2
<1>6. d.t1 = c.t1
  <2> DEFINE t2 == [c.t2 EXCEPT !.phi2 = ~c.acr.pulse, !.hold = FALSE]
             w == [c EXCEPT !.t2 = t2]
  <2>1. t2 \in Timer2
    BY <1>1, Parts DEF Timer2
  <2>2. Good(w) /\ w.t1 = c.t1
    BY <1>1, <2>1, WriteGood DEF Good, Chip
  <2> HIDE DEF w, c
  <2>3. \A x, y : [w EXCEPT !.t2 = x, !.sr = y].t1 = w.t1
    BY <2>2 DEF Good, Chip
  <2>4. \A x : [w EXCEPT !.t2 = x].t1 = w.t1
    BY <2>2 DEF Good, Chip
  <2>5. \A x, y : Raise([w EXCEPT !.t2 = x, !.sr = y], {"T2"}).t1 = w.t1
    BY <2>2 DEF Good, Chip, Raise
  <2>6. \A x : Raise([w EXCEPT !.t2 = x], {"T2"}).t1 = w.t1
    BY <2>2 DEF Good, Chip, Raise
  <2>7. T2Count8(w).t1 = w.t1
    BY <2>3, <2>4, <2>5 DEF T2Count8
  <2>8. T2Count16(w).t1 = w.t1
    BY <2>4, <2>6 DEF T2Count16
  <2> QED BY <2>2, <2>7, <2>8 DEF T2Stage, w
<1>7. SrPhi2Stage(d).t1 = d.t1
  <2> HIDE DEF d
  <2>1. via_sr_event(d).t1 = d.t1
    BY <1>1, SrEventKeepsT1
  <2>2. \A x : [d EXCEPT !.sr = x].t1 = d.t1
    BY <1>1 DEF Good, Chip
  <2> QED BY <2>1, <2>2 DEF SrPhi2Stage
<1> QED BY <1>4, <1>5, <1>6, <1>7 DEF via_step

\* A call leaves the count of timer 1 alone, or ends with a reload pending.
T1Kept(v, w) ==
  \/ w.t1.reload
  \/ /\ w.t1.counter = v.t1.counter
     /\ w.t1.active = v.t1.active
     /\ w.t1.reload = v.t1.reload

\* A call that does not load timer 1 keeps it.
LEMMA CalledKeepsT1 ==
  ASSUME NEW v, Good(v), NEW p \in Program, NEW w, Called(v, w, p)
  PROVE  T1Kept(v, w)
<1>0. \A x : x.t1 = v.t1 => T1Kept(v, x)
  BY DEF T1Kept
<1>1. \A F : Good(Lower(v, F)) /\ Lower(v, F).t1 = v.t1
  BY LowerGood, IrqKeepsT1
<1>2. CASE PortAccess(v, w)
  <2>1. ASSUME NEW x, Good(x) PROVE via_ca2_port_access(x).t1 = x.t1
    BY <2>1 DEF via_ca2_port_access, Good, Chip
  <2>2. ASSUME NEW x, Good(x) PROVE via_cb2_port_access(x).t1 = x.t1
    BY <2>2 DEF via_cb2_port_access, Good, Chip
  <2>3. w.t1 = v.t1
    BY <1>1, <1>2, <2>1, <2>2 DEF PortAccess, read_ORB, write_ORB, access_ORA
  <2> QED BY <1>0, <2>3
<1>3. CASE T1Access(v, w, p.bytes)
  <2>1. CASE w = read_T1CL(v)
    BY <1>0, <1>1, <2>1 DEF read_T1CL
  <2>2. ASSUME NEW b \in p.bytes, w = write_T1LL(v, b) PROVE T1Kept(v, w)
    BY <2>2, Parts DEF write_T1LL, T1Kept, Good, Chip, Timer1
  <2>3. ASSUME NEW b \in p.bytes, w = write_T1CH(v, b) PROVE T1Kept(v, w)
    BY <2>3 DEF write_T1CH, Lower, T1Kept, Good, Chip
  <2>4. ASSUME NEW b \in p.bytes, w = write_T1LH(v, b) PROVE T1Kept(v, w)
    <3> DEFINE t == [v.t1 EXCEPT !.latch = WordOf(b, Lo(@))]
    <3>1. t.counter = v.t1.counter /\ t.active = v.t1.active
          /\ t.reload = v.t1.reload
      BY Parts DEF Timer1
    <3>2. w.t1 = t
      BY <2>4 DEF write_T1LH, Lower, Good, Chip
    <3> QED BY <3>1, <3>2 DEF T1Kept
  <2> QED BY <1>3, <2>1, <2>2, <2>3, <2>4 DEF T1Access
<1>4. CASE T2Access(v, w, p.bytes)
  BY <1>0, <1>1, <1>4 DEF T2Access, read_T2CL, write_T2CL, write_T2CH, Lower,
                          Good, Chip
<1>5. CASE SrAccess(v, w)
  <2>1. ASSUME NEW x, Good(x) PROVE via_sr_access(x).t1 = x.t1
    BY <2>1 DEF via_sr_access, Good, Chip
  <2>2. ASSUME NEW bits \in [1 .. SrBits -> BOOLEAN], w = write_SR(v, bits)
        PROVE  w.t1 = v.t1
    <3> DEFINE x == [v EXCEPT !.sr = [v.sr EXCEPT !.bits = bits]]
    <3>1. [v.sr EXCEPT !.bits = bits] \in ShiftReg
      BY Parts DEF ShiftReg
    <3>2. Good(x) /\ x.t1 = v.t1
      BY <3>1, WriteGood DEF Good, Chip
    <3>3. Good(Lower(x, {"SR"})) /\ Lower(x, {"SR"}).t1 = v.t1
      BY <3>2, LowerGood, IrqKeepsT1
    <3> QED BY <2>1, <2>2, <3>3 DEF write_SR
  <2>3. w.t1 = v.t1
    BY <1>1, <1>5, <2>1, <2>2, SrEventKeepsT1 DEF SrAccess, read_SR, via_shift_clock
  <2> QED BY <1>0, <2>3
<1>6. ASSUME NEW a \in p.acr, w = write_ACR(v, a) PROVE T1Kept(v, w)
  <2> DEFINE t == [v.t1 EXCEPT !.pb7 = @ \/ (a.pb7 /\ ~v.acr.pb7)]
  <2>1. t.counter = v.t1.counter /\ t.active = v.t1.active
        /\ t.reload = v.t1.reload
    BY Parts DEF Timer1
  <2>2. w.t1 = t
    BY <1>6 DEF write_ACR, Lower, Good, Chip
  <2> QED BY <2>1, <2>2 DEF T1Kept
<1>7. ASSUME NEW c \in p.pcr, w = write_PCR(v, c) PROVE T1Kept(v, w)
  BY <1>0, <1>7 DEF write_PCR, Good, Chip
<1>8. CASE IrqAccess(v, w, p.flags)
  BY <1>0, <1>1, <1>8 DEF IrqAccess, write_IFR, write_IER, Good, Chip
<1>9. CASE LineChange(v, w, p.flags)
  <2>1. \A x : [v EXCEPT !.pins = x].t1 = v.t1
    BY DEF Good, Chip
  <2>2. \A x, F : Raise([v EXCEPT !.pins = x], F).t1 = v.t1
    BY DEF Good, Chip, Raise
  <2>3. \A F : Raise(v, F).t1 = v.t1
    BY IrqKeepsT1
  <2>4. \A b : via_set_cb1(v, b).t1 = v.t1 /\ via_set_ca1(v, b).t1 = v.t1
    BY <2>1, <2>2 DEF via_set_cb1, via_set_ca1
  <2>5. \A b : via_set_ca2_input(v, b).t1 = v.t1
               /\ via_set_cb2_input(v, b).t1 = v.t1
    BY <2>1, <2>2 DEF via_set_ca2_input, via_set_cb2_input
  <2>6. via_trigger_cb1(v).t1 = v.t1
    <3> DEFINE y == via_set_cb1(v, FALSE)
    <3>1. y.t1 = v.t1 /\ DOMAIN y = DOMAIN v
      BY <2>4 DEF via_set_cb1, Raise
    <3>2. \A x : [y EXCEPT !.pins = x].t1 = y.t1
      BY <3>1 DEF Good, Chip
    <3>3. \A x, F : Raise([y EXCEPT !.pins = x], F).t1 = y.t1
      BY <3>1 DEF Good, Chip, Raise
    <3> HIDE DEF y
    <3>4. via_set_cb1(y, TRUE).t1 = y.t1
      BY <3>2, <3>3 DEF via_set_cb1
    <3> QED BY <3>1, <3>4 DEF via_trigger_cb1, y
  <2> QED BY <1>0, <1>9, <2>3, <2>4, <2>5, <2>6 DEF LineChange, via_trigger
<1>10. CASE w = via_pb6_pulse(v)
  <2>1. \A x : [v EXCEPT !.t2 = x].t1 = v.t1
               /\ Raise([v EXCEPT !.t2 = x], {"T2"}).t1 = v.t1
    BY DEF Good, Chip, Raise
  <2> QED BY <1>0, <1>10, <2>1 DEF via_pb6_pulse, T2Count16
<1> QED
  BY <1>0, <1>2, <1>3, <1>4, <1>5, <1>6, <1>7, <1>8, <1>9, <1>10 DEF Called

\* How far timer 1 has come since its last underflow or load.
T1Inv ==
  /\ Synced.t1.reload => t1log.gap = 0
  /\ Synced.t1.active /\ ~Synced.t1.reload
       => t1log.gap + Synced.t1.counter = t1log.loaded + 1

\* The history of timer 1 is right after a reset.
LEMMA T1Init == Init => T1Inv
BY DEF Init, T1Inv, Synced, via_sync, via_reset

\* Skipped cycles do not touch the reload of timer 1.
LEMMA SyncKeepsReload ==
  ASSUME NEW v, Good(v), NEW n
  PROVE  via_sync(v, n).t1.reload = v.t1.reload
         /\ via_sync(v, n).t1.active = v.t1.active
         /\ via_sync(v, n).t1.latch = v.t1.latch
BY Parts DEF via_sync, Good, Chip, Timer1

\* A cycle, skipped or not, moves timer 1 as its stage does, and the log with it.
T1Logged(v, w) ==
  t1log' = [gap |-> IF ~v.t1.active \/ Underflow(v, w) THEN 0 ELSE t1log.gap + 1,
            loaded |-> IF v.t1.active /\ v.t1.reload THEN v.t1.latch ELSE t1log.loaded]
LEMMA T1Tick ==
  ASSUME LazyInv, SkipTick \/ FullTick
  PROVE  /\ Synced'.t1 = T1Stage(Synced).t1
         /\ T1Logged(Synced, Synced')
         /\ Good(Synced)
<1>1. Good(via) /\ Good(Synced) /\ pending \in Nat
  BY SyncedGood
<1>2. CASE FullTick
  <2>1. Synced' = via' /\ via' = via_step(Synced)
    BY <1>2 DEF FullTick, Synced, via_sync
  <2>2. T1Logged(Synced, Synced')
    BY <1>2, <2>1 DEF FullTick, LogTick, T1Logged
  <2> QED BY <1>1, <2>1, <2>2, StepT1
<1>3. CASE SkipTick
  <2>1. pending + 1 <= via_quiet(via)
    <3>1. pending + quiet <= via_quiet(via) /\ quiet \in Nat /\ quiet > 0
      BY <1>1, <1>3 DEF SkipTick, LazyInv, SkippedCyclesAreQuiet, TypeOK, Words
    <3>2. via_quiet(via) \in Nat
      BY <1>1, QuietBounds DEF Words
    <3> QED BY <1>1, <3>1, <3>2
  <2>2. Synced' = via_step(Synced)
    <3>1. via_sync(via, pending + 1) = via_step(via_sync(via, pending))
      BY <1>1, <2>1, SyncStep
    <3> QED BY <1>3, <3>1 DEF SkipTick, Synced
  <2>3. Synced' = via_sync(via, pending + 1)
    BY <1>3 DEF SkipTick, Synced
  <2>4. /\ Synced'.t1.reload = via.t1.reload
        /\ Synced.t1.reload = via.t1.reload
        /\ Synced.t1.active = via.t1.active
        /\ Synced.t1.latch = via.t1.latch
    BY <1>1, <2>3, SyncKeepsReload DEF Synced
  <2>5. T1Logged(Synced, Synced')
    <3>1. T1Logged(via, via)
      BY <1>3 DEF SkipTick, LogTick, T1Logged
    <3>2. Underflow(Synced, Synced') <=> Underflow(via, via)
      BY <2>4 DEF Underflow
    <3> QED BY <2>4, <3>1, <3>2 DEF T1Logged
  <2> QED BY <1>1, <2>2, <2>5, StepT1
<1> QED BY <1>2, <1>3

\* The four things a cycle can be to timer 1.
LEMMA T1StageCases ==
  ASSUME NEW v, Good(v)
  PROVE  LET t == T1Stage(v).t1
         IN \/ ~v.t1.active /\ t = v.t1
            \/ /\ v.t1.active /\ v.t1.reload /\ t.active
               /\ ~t.reload /\ t.counter = v.t1.latch
            \/ /\ v.t1.active /\ ~v.t1.reload /\ v.t1.counter > 0 /\ t.active
               /\ ~t.reload /\ t.counter = v.t1.counter - 1
            \/ /\ v.t1.active /\ ~v.t1.reload /\ v.t1.counter = 0 /\ t.reload
<1> DEFINE under == [v.t1 EXCEPT !.counter = Word - 1, !.reload = TRUE]
           fired == [under EXCEPT !.pb7 = ~@, !.running = v.acr.freerun]
<1>1. v.t1 \in Timer1 /\ v.t1.counter \in Nat
  BY Parts DEF Timer1, Words
<1>2. \A x : [v EXCEPT !.t1 = x].t1 = x /\ Raise([v EXCEPT !.t1 = x], {"T1"}).t1 = x
  BY DEF Good, Chip, Raise
<1>3. under.reload /\ fired.reload
  BY <1>1 DEF Timer1
<1>4. CASE ~v.t1.active
  BY <1>4 DEF T1Stage
<1>5. CASE v.t1.active /\ v.t1.reload
  BY <1>1, <1>2, <1>5 DEF T1Stage, Timer1
<1>6. CASE v.t1.active /\ ~v.t1.reload /\ v.t1.counter > 0
  BY <1>1, <1>2, <1>6 DEF T1Stage, Timer1
<1>7. CASE v.t1.active /\ ~v.t1.reload /\ v.t1.counter = 0
  <2>1. T1Stage(v).t1 = under \/ T1Stage(v).t1 = fired
    BY <1>2, <1>7 DEF T1Stage
  <2> QED BY <1>3, <1>7, <2>1
<1> QED
  BY <1>1, <1>4, <1>5, <1>6, <1>7

\* The invariant about the history of timer 1 is inductive.
LEMMA T1Next == LazyInv /\ T1Inv /\ [Next]_vars => T1Inv'
<1> SUFFICES ASSUME LazyInv, T1Inv, [Next]_vars PROVE T1Inv'
  OBVIOUS
<1>1. /\ Good(via) /\ Good(Synced) /\ pending \in Nat
      /\ t1log \in [gap : Nat, loaded : Words]
      /\ Synced.t1.counter \in Words /\ Synced.t1.latch \in Words
  BY SyncedGood, Parts DEF LazyInv, TypeOK, Timer1
<1>2. CASE SkipTick \/ FullTick
  <2>1. Synced'.t1 = T1Stage(Synced).t1 /\ T1Logged(Synced, Synced')
    BY <1>2, T1Tick
  <2> DEFINE t == Synced.t1
             u == Synced'.t1
  <2>2. /\ t1log'.gap = IF ~t.active \/ (t.active /\ ~t.reload /\ u.reload)
                        THEN 0 ELSE t1log.gap + 1
        /\ t1log'.loaded = IF t.active /\ t.reload THEN t.latch ELSE t1log.loaded
    BY <2>1 DEF T1Logged, Underflow
  <2>3. CASE ~t.active /\ u = t
    BY <2>2, <2>3 DEF T1Inv
  <2>4. CASE t.active /\ t.reload /\ u.active /\ ~u.reload /\ u.counter = t.latch
    BY <1>1, <2>2, <2>4 DEF T1Inv, Words
  <2>5. CASE t.active /\ ~t.reload /\ t.counter > 0 /\ u.active
             /\ ~u.reload /\ u.counter = t.counter - 1
    BY <1>1, <2>2, <2>5 DEF T1Inv, Words
  <2>6. CASE t.active /\ ~t.reload /\ t.counter = 0 /\ u.reload
    BY <2>2, <2>6 DEF T1Inv
  <2> QED BY <1>1, <2>1, <2>3, <2>4, <2>5, <2>6, T1StageCases
<1>3. CASE Call
  <2>1. prog \in Program
    BY ProgramsAssumption DEF LazyInv, TypeOK
  <2>2. Synced' = via' /\ Called(Synced, via', prog) /\ LogCall(Synced, via')
    BY <1>3 DEF Call, Synced, via_sync
  <2>3. T1Kept(Synced, via')
    BY <1>1, <2>1, <2>2, CalledKeepsT1
  <2>4. t1log'.gap = (IF via'.t1.reload THEN 0 ELSE t1log.gap)
        /\ t1log'.loaded = t1log.loaded
    BY <1>1, <2>2 DEF LogCall
  <2> QED BY <1>1, <2>2, <2>3, <2>4 DEF T1Kept, T1Inv
<1>4. CASE cpu_reset
  <2>1. Synced'.t1 = Synced.t1
    BY <1>1, <1>4 DEF cpu_reset, Unheard, Synced, via_sync, Good, Chip
  <2> QED BY <1>4, <2>1 DEF T1Inv, cpu_reset
<1>5. CASE UNCHANGED vars
  BY <1>5 DEF vars, T1Inv, Synced
<1> QED
  BY <1>2, <1>3, <1>4, <1>5 DEF Next

\* Timer 1 fires every N + 2 cycles for every latch value, width and program,
\* through skipped and full cycles alike.
THEOREM T1Period == Spec => T1PeriodIsNPlus2
<1>1. LazyInv /\ T1Inv /\ [Next]_vars =>
        [(SkipTick \/ FullTick) /\ Underflow(Synced, Synced')
           => t1log.gap + 1 = t1log.loaded + 2]_vars
  <2> SUFFICES ASSUME LazyInv, T1Inv, SkipTick \/ FullTick,
                      Underflow(Synced, Synced')
               PROVE  t1log.gap + 1 = t1log.loaded + 2
    OBVIOUS
  <2>1. Synced'.t1 = T1Stage(Synced).t1 /\ Good(Synced)
    BY T1Tick
  <2>2. Synced.t1.active /\ ~Synced.t1.reload /\ Synced'.t1.reload
    BY DEF Underflow
  <2>3. Synced.t1.counter = 0
    BY <2>1, <2>2, T1StageCases
  <2>4. t1log.gap \in Nat /\ t1log.loaded \in Nat
    BY DEF LazyInv, TypeOK, Words
  <2> QED BY <2>2, <2>3, <2>4 DEF T1Inv
<1> QED
  BY <1>1, T1Init, T1Next, LazyInvariance, PTL DEF Spec, T1PeriodIsNPlus2

-----------------------------------------------------------------------------
(* The stages of a cycle commute, and so do batches of them *)

\* x is the good chip v some cycles later: flags F were raised, and the CPU
\* heard of the line if it rose.
Later(v, x, F) ==
  /\ Good(x)
  /\ x.acr = v.acr /\ x.pcr = v.pcr
  /\ x.irq.ier = v.irq.ier
  /\ x.irq.ifr = v.irq.ifr \cup F
  /\ x.irq.cpu = (v.irq.cpu \/ (x.irq.line /\ ~v.irq.line))

\* No flag is raised where no interrupt logic is touched.
LEMMA LaterSame ==
  ASSUME NEW v, Good(v), NEW x, Good(x),
         x.acr = v.acr, x.pcr = v.pcr, x.irq = v.irq
  PROVE  Later(v, x, {})
BY Parts DEF Later, Irq

\* Raising flags is a step forward.
LEMMA LaterRaise ==
  ASSUME NEW v, Good(v), NEW x, Good(x),
         x.acr = v.acr, x.pcr = v.pcr, x.irq = v.irq,
         NEW F \in SUBSET Flags
  PROVE  /\ Later(v, Raise(x, F), F)
         /\ Raise(x, F).t1 = x.t1 /\ Raise(x, F).t2 = x.t2
         /\ Raise(x, F).sr = x.sr /\ Raise(x, F).pins = x.pins
<1> DEFINE q == [x.irq EXCEPT !.ifr = @ \cup F]
           y == Raise(x, F)
<1>1. Good(y)
  BY RaiseGood
<1>2. /\ y.t1 = x.t1 /\ y.t2 = x.t2 /\ y.sr = x.sr /\ y.pins = x.pins
      /\ y.acr = x.acr /\ y.pcr = x.pcr /\ y.irq = via_check_irq(q)
  BY DEF Raise, Good, Chip
<1>3. x.irq \in Irq /\ IrqOK(x.irq)
  BY Parts
<1>4. /\ via_check_irq(q).ier = x.irq.ier
      /\ via_check_irq(q).ifr = x.irq.ifr \cup F
  BY <1>3 DEF via_check_irq, Irq
<1>5. via_check_irq(q).line = ((x.irq.ifr \cup F) \cap x.irq.ier # {})
      /\ via_check_irq(q).cpu = IF via_check_irq(q).line # x.irq.line
                                THEN via_check_irq(q).line ELSE x.irq.cpu
  BY <1>3 DEF via_check_irq, Irq
<1>6. x.irq.line => via_check_irq(q).line
  BY <1>3, <1>5 DEF IrqOK
<1>7. via_check_irq(q).cpu
        = (x.irq.cpu \/ (via_check_irq(q).line /\ ~x.irq.line))
  <2>1. /\ via_check_irq(q).line \in BOOLEAN
        /\ x.irq.line \in BOOLEAN /\ x.irq.cpu \in BOOLEAN
        /\ (x.irq.cpu => x.irq.line)
    BY <1>3, <1>5 DEF Irq, IrqOK
  <2> QED BY <1>5, <1>6, <2>1, Zenon
<1> HIDE DEF y, q
<1>8. Later(v, y, F)
  BY <1>1, <1>2, <1>4, <1>7 DEF Later
<1> QED BY <1>2, <1>8 DEF y

\* Steps forward add up.
LEMMA LaterTwice ==
  ASSUME NEW u, Good(u), NEW v, NEW w, NEW E, NEW F,
         Later(u, v, E), Later(v, w, F)
  PROVE  Later(u, w, E \cup F)
<1>1. /\ u.irq \in Irq /\ v.irq \in Irq /\ w.irq \in Irq
      /\ IrqOK(u.irq) /\ IrqOK(v.irq) /\ IrqOK(w.irq)
  BY Parts DEF Later
<1>2. (u.irq.line => v.irq.line) /\ (v.irq.line => w.irq.line)
  BY <1>1 DEF Later, IrqOK
<1>3. w.irq.cpu = (u.irq.cpu \/ (w.irq.line /\ ~u.irq.line))
  <2>1. /\ w.irq.cpu = (v.irq.cpu \/ (w.irq.line /\ ~v.irq.line))
        /\ v.irq.cpu = (u.irq.cpu \/ (v.irq.line /\ ~u.irq.line))
    BY DEF Later
  <2> QED BY <1>2, <2>1
<1>4. w.irq.ifr = u.irq.ifr \cup (E \cup F)
  BY DEF Later
<1> QED BY <1>3, <1>4 DEF Later

\* What happened to the interrupt logic does not depend on the order.
LEMMA LaterEqual ==
  ASSUME NEW v, Good(v), NEW x, NEW y, NEW F, Later(v, x, F), Later(v, y, F),
         x.t1 = y.t1, x.t2 = y.t2, x.sr = y.sr, x.pins = y.pins
  PROVE  x = y
<1>1. x \in Chip /\ y \in Chip /\ x.irq \in Irq /\ y.irq \in Irq
      /\ IrqOK(x.irq) /\ IrqOK(y.irq)
  BY Parts DEF Later, Good
<1>2. x.irq.ifr = y.irq.ifr /\ x.irq.ier = y.irq.ier
  BY DEF Later
<1>3. x.irq.line = y.irq.line /\ x.irq.any = y.irq.any
  BY <1>1, <1>2 DEF IrqOK
<1>4. x.irq.cpu = y.irq.cpu
  BY <1>3 DEF Later
<1>5. x.irq = y.irq
  BY <1>1, <1>2, <1>3, <1>4 DEF Irq
<1>6. x.acr = y.acr /\ x.pcr = y.pcr
  BY DEF Later
<1> QED BY <1>1, <1>5, <1>6 DEF Chip

-----------------------------------------------------------------------------
\* Two chips whose shift registers are in the same state, but for the events
\* that are due.
SameShift(v, w) ==
  /\ v.acr = w.acr /\ v.pins = w.pins
  /\ v.sr.bits = w.sr.bits /\ v.sr.active = w.sr.active
  /\ v.sr.count = w.sr.count

\* What a shift leaves alone.
Keeps(v, x) ==
  /\ x.t1 = v.t1 /\ x.t2 = v.t2
  /\ x.sr.delay = v.sr.delay /\ x.sr.t2_pending = v.sr.t2_pending
  /\ x.pins.ca2_pulse = v.pins.ca2_pulse
  /\ x.pins.cb2_pulse = v.pins.cb2_pulse

\* A shift by one bit depends on the shift register, its mode and CB2.
LEMMA ShiftedAlike ==
  ASSUME NEW v, Good(v), NEW w, Good(w), SameShift(v, w)
  PROVE  /\ Later(v, Shifted(v), {}) /\ Keeps(v, Shifted(v))
         /\ SameShift(Shifted(v), Shifted(w))
<1> DEFINE Out(c) == c.acr.mode \in OutModes
           Bit(c) == IF Out(c) THEN c.sr.bits[1] ELSE c.pins.cb2_in
           Cb2(c) == IF Out(c) THEN c.sr.bits[1] ELSE c.pins.cb2
           S(c) == [c.sr EXCEPT !.bits = ShiftLeft(c.sr.bits, Bit(c))]
           P(c) == [c.pins EXCEPT !.cb2 = Cb2(c)]
<1>1. Bit(v) = Bit(w) /\ Cb2(v) = Cb2(w)
  BY DEF SameShift
<1>2. ASSUME NEW c, Good(c)
      PROVE  /\ Shifted(c).t1 = c.t1 /\ Shifted(c).t2 = c.t2
             /\ Shifted(c).acr = c.acr /\ Shifted(c).pcr = c.pcr
             /\ Shifted(c).irq = c.irq
             /\ Shifted(c).sr = S(c) /\ Shifted(c).pins = P(c)
  BY <1>2 DEF Shifted, Good, Chip
<1> HIDE DEF Bit, Cb2
<1>3. /\ v.sr \in ShiftReg /\ w.sr \in ShiftReg
      /\ v.pins \in Pins /\ w.pins \in Pins
  BY Parts
<1>4. ASSUME NEW c, c.sr \in ShiftReg
      PROVE  /\ S(c).bits = ShiftLeft(c.sr.bits, Bit(c))
             /\ S(c).active = c.sr.active /\ S(c).count = c.sr.count
             /\ S(c).delay = c.sr.delay /\ S(c).t2_pending = c.sr.t2_pending
  BY <1>4 DEF ShiftReg
<1>5. ASSUME NEW c, c.pins \in Pins
      PROVE  /\ P(c).ca2_pulse = c.pins.ca2_pulse
             /\ P(c).cb2_pulse = c.pins.cb2_pulse
  BY <1>5 DEF Pins
<1> DEFINE P2(p, b) == [p EXCEPT !.cb2 = b]
<1>9. P(v) = P2(v.pins, Cb2(v)) /\ P(w) = P2(w.pins, Cb2(w))
  OBVIOUS
<1> HIDE DEF S, P, P2
<1>6. Later(v, Shifted(v), {})
  BY <1>2, ShiftedGood, LaterSame
<1>7. Keeps(v, Shifted(v))
  <2>1. /\ Shifted(v).sr.delay = v.sr.delay
        /\ Shifted(v).sr.t2_pending = v.sr.t2_pending
    BY <1>2, <1>3, <1>4
  <2>2. /\ Shifted(v).pins.ca2_pulse = v.pins.ca2_pulse
        /\ Shifted(v).pins.cb2_pulse = v.pins.cb2_pulse
    BY <1>2, <1>3, <1>5
  <2> QED BY <1>2, <2>1, <2>2 DEF Keeps
<1>8. SameShift(Shifted(v), Shifted(w))
  <2>1. /\ v.sr.bits = w.sr.bits /\ v.sr.active = w.sr.active
        /\ v.sr.count = w.sr.count /\ v.pins = w.pins /\ v.acr = w.acr
    BY DEF SameShift
  <2>2. /\ Shifted(v).sr.bits = Shifted(w).sr.bits
        /\ Shifted(v).sr.active = Shifted(w).sr.active
        /\ Shifted(v).sr.count = Shifted(w).sr.count
    BY <1>1, <1>2, <1>3, <1>4, <2>1
  <2>3. Shifted(v).pins = Shifted(w).pins /\ Shifted(v).acr = Shifted(w).acr
    BY <1>1, <1>2, <1>9, <2>1
  <2> QED BY <2>2, <2>3 DEF SameShift
<1> QED BY <1>6, <1>7, <1>8

\* So does its count.
LEMMA CountedAlike ==
  ASSUME NEW v, Good(v), NEW w, Good(w), SameShift(v, w),
         NEW n \in 1 .. 2 * SrBits
  PROVE  /\ \E F \in SUBSET Flags : /\ Later(v, Counted(v, n), F)
                                    /\ Later(w, Counted(w, n), F)
         /\ Keeps(v, Counted(v, n)) /\ Keeps(w, Counted(w, n))
         /\ SameShift(Counted(v, n), Counted(w, n))
<1> DEFINE Up(c) == [c EXCEPT !.sr = [c.sr EXCEPT !.count = @ + 1]]
           Zero(c) == [c EXCEPT !.sr = [c.sr EXCEPT !.count = 0]]
           Stop(c) == [c EXCEPT !.sr = [c.sr EXCEPT !.count = 0, !.active = FALSE]]
<1>1. \A c : Counted(c, n) = IF c.sr.count + 1 < n THEN Up(c)
                             ELSE IF c.acr.mode = "free" THEN Zero(c)
                             ELSE Raise(Stop(c), {"SR"})
  BY DEF Counted
<1>2. v.sr \in ShiftReg /\ w.sr \in ShiftReg
  BY Parts
<1>3. ASSUME NEW c, Good(c)
      PROVE  /\ c.sr.count + 1 < n => Good(Up(c))
             /\ Good(Zero(c)) /\ Good(Stop(c))
  <2>1. c.sr.count + 1 < n => [c.sr EXCEPT !.count = @ + 1] \in ShiftReg
    <3>1. c.sr \in ShiftReg
      BY <1>3, Parts
    <3>2. c.sr.count + 1 < n => c.sr.count + 1 \in 0 .. 2 * SrBits - 1
      BY <3>1, SrBitsAssumption DEF ShiftReg
    <3> QED BY <3>1, <3>2 DEF ShiftReg
  <2>2. /\ [c.sr EXCEPT !.count = 0] \in ShiftReg
        /\ [c.sr EXCEPT !.count = 0, !.active = FALSE] \in ShiftReg
    <3>1. c.sr \in ShiftReg /\ 0 \in 0 .. 3 /\ FALSE \in BOOLEAN
      BY <1>3, Parts
    <3> QED BY <3>1, ShiftRegWrite, Zenon
  <2> QED BY <1>3, <2>1, <2>2, WriteGood
<1> DEFINE Rest(c, x) ==
             /\ x.acr = c.acr /\ x.pcr = c.pcr /\ x.irq = c.irq
             /\ x.t1 = c.t1 /\ x.t2 = c.t2 /\ x.pins = c.pins
           Shift(c, x) ==
             /\ x.sr.bits = c.sr.bits
             /\ x.sr.delay = c.sr.delay /\ x.sr.t2_pending = c.sr.t2_pending
<1>4. ASSUME NEW c, Good(c)
      PROVE  Rest(c, Up(c)) /\ Rest(c, Zero(c)) /\ Rest(c, Stop(c))
  BY <1>4 DEF Good, Chip
<1>5. ASSUME NEW c, Good(c)
      PROVE  Shift(c, Up(c)) /\ Shift(c, Zero(c)) /\ Shift(c, Stop(c))
  <2>1. c.sr \in ShiftReg /\ c \in Chip
    BY <1>5, Parts DEF Good
  <2>2. \A x : [c EXCEPT !.sr = x].sr = x
    BY <2>1 DEF Chip
  <2> QED BY <2>1, <2>2 DEF ShiftReg
<1>6. ASSUME NEW c, Good(c)
      PROVE  /\ Up(c).sr.count = c.sr.count + 1 /\ Up(c).sr.active = c.sr.active
             /\ Zero(c).sr.count = 0 /\ Zero(c).sr.active = c.sr.active
             /\ Stop(c).sr.count = 0 /\ Stop(c).sr.active = FALSE
  <2>1. c.sr \in ShiftReg /\ c \in Chip
    BY <1>6, Parts DEF Good
  <2>2. \A x : [c EXCEPT !.sr = x].sr = x
    BY <2>1 DEF Chip
  <2> QED BY <2>1, <2>2 DEF ShiftReg
<1> HIDE DEF Up, Zero, Stop
<1>7. {"SR"} \in SUBSET Flags
  BY DEF Flags
<1>8. CASE v.sr.count + 1 < n
  <2>1. Counted(v, n) = Up(v) /\ Counted(w, n) = Up(w) /\ w.sr.count + 1 < n
    BY <1>1, <1>8 DEF SameShift
  <2>2. Later(v, Up(v), {}) /\ Later(w, Up(w), {})
    BY <1>3, <1>4, <1>8, <2>1, LaterSame
  <2>3. Keeps(v, Up(v)) /\ Keeps(w, Up(w))
    BY <1>4, <1>5 DEF Keeps
  <2>4. SameShift(Up(v), Up(w))
    <3>1. /\ Up(v).acr = v.acr /\ Up(v).pins = v.pins
          /\ Up(w).acr = w.acr /\ Up(w).pins = w.pins
      BY <1>4
    <3>2. Up(v).sr.bits = v.sr.bits /\ Up(w).sr.bits = w.sr.bits
      BY <1>5
    <3> QED BY <1>6, <3>1, <3>2 DEF SameShift
  <2> QED BY <2>1, <2>2, <2>3, <2>4
<1>9. CASE ~(v.sr.count + 1 < n) /\ v.acr.mode = "free"
  <2>1. Counted(v, n) = Zero(v) /\ Counted(w, n) = Zero(w)
    BY <1>1, <1>9 DEF SameShift
  <2>2. Later(v, Zero(v), {}) /\ Later(w, Zero(w), {})
    BY <1>3, <1>4, LaterSame
  <2>3. Keeps(v, Zero(v)) /\ Keeps(w, Zero(w))
    BY <1>4, <1>5 DEF Keeps
  <2>4. SameShift(Zero(v), Zero(w))
    <3>1. /\ Zero(v).acr = v.acr /\ Zero(v).pins = v.pins
          /\ Zero(w).acr = w.acr /\ Zero(w).pins = w.pins
      BY <1>4
    <3>2. Zero(v).sr.bits = v.sr.bits /\ Zero(w).sr.bits = w.sr.bits
      BY <1>5
    <3> QED BY <1>6, <3>1, <3>2 DEF SameShift
  <2> QED BY <2>1, <2>2, <2>3, <2>4
<1>10. CASE ~(v.sr.count + 1 < n) /\ v.acr.mode # "free"
  <2> DEFINE R(c) == Raise(Stop(c), {"SR"})
  <2>1. Counted(v, n) = R(v) /\ Counted(w, n) = R(w)
    BY <1>1, <1>10 DEF SameShift
  <2>2. ASSUME NEW c, Good(c)
        PROVE  /\ Later(c, R(c), {"SR"})
               /\ R(c).t1 = Stop(c).t1 /\ R(c).t2 = Stop(c).t2
               /\ R(c).sr = Stop(c).sr /\ R(c).pins = Stop(c).pins
    BY <1>3, <1>4, <1>7, <2>2, LaterRaise
  <2> HIDE DEF R
  <2>3. Keeps(v, R(v)) /\ Keeps(w, R(w))
    BY <1>4, <1>5, <2>2 DEF Keeps
  <2>4. SameShift(R(v), R(w))
    <3>1. R(v).acr = v.acr /\ R(w).acr = w.acr
      BY <2>2 DEF Later
    <3>2. R(v).pins = v.pins /\ R(w).pins = w.pins
      BY <1>4, <2>2
    <3>3. R(v).sr.bits = v.sr.bits /\ R(w).sr.bits = w.sr.bits
      BY <1>5, <2>2
    <3>4. /\ R(v).sr.count = 0 /\ R(v).sr.active = FALSE
          /\ R(w).sr.count = 0 /\ R(w).sr.active = FALSE
      <4>1. R(v).sr = Stop(v).sr /\ R(w).sr = Stop(w).sr
        BY <2>2
      <4>2. /\ Stop(v).sr.count = 0 /\ Stop(v).sr.active = FALSE
            /\ Stop(w).sr.count = 0 /\ Stop(w).sr.active = FALSE
        BY <1>6
      <4> QED BY <4>1, <4>2
    <3> QED BY <3>1, <3>2, <3>3, <3>4 DEF SameShift
  <2> QED BY <1>7, <2>1, <2>2, <2>3, <2>4
<1> QED BY <1>8, <1>9, <1>10

\* So does an event of the shift clock.
LEMMA EventAlike ==
  ASSUME NEW v, Good(v), NEW w, Good(w), SameShift(v, w)
  PROVE  /\ \E F \in SUBSET Flags : /\ Later(v, via_sr_event(v), F)
                                    /\ Later(w, via_sr_event(w), F)
         /\ Keeps(v, via_sr_event(v)) /\ Keeps(w, via_sr_event(w))
         /\ SameShift(via_sr_event(v), via_sr_event(w))
<1> DEFINE n == 2 * SrBits
<1>1. n \in 1 .. 2 * SrBits
  BY SrBitsAssumption
<1>2. CASE v.acr.mode = "off" \/ ~v.sr.active
  <2>1. via_sr_event(v) = v /\ via_sr_event(w) = w
    BY <1>2 DEF via_sr_event, SameShift
  <2>2. Later(v, v, {}) /\ Later(w, w, {})
    BY LaterSame
  <2> QED BY <2>1, <2>2 DEF Keeps
<1>3. CASE ~(v.acr.mode = "off" \/ ~v.sr.active)
  <2> DEFINE shifts == v.sr.count % 2 = IF v.acr.mode \in OutModes THEN 0 ELSE 1
             S(c) == IF shifts THEN Shifted(c) ELSE c
  <2>1. via_sr_event(v) = Counted(S(v), n) /\ via_sr_event(w) = Counted(S(w), n)
    BY <1>3 DEF via_sr_event, SameShift
  <2>2. /\ Later(v, S(v), {}) /\ Later(w, S(w), {})
        /\ Keeps(v, S(v)) /\ Keeps(w, S(w)) /\ SameShift(S(v), S(w))
    <3>1. SameShift(w, v)
      BY DEF SameShift
    <3>2. CASE shifts
      BY <3>1, <3>2, ShiftedAlike
    <3>3. CASE ~shifts
      BY <3>3, LaterSame DEF Keeps
    <3> QED BY <3>2, <3>3
  <2> HIDE DEF S, n
  <2>3. Good(S(v)) /\ Good(S(w))
    BY <2>2 DEF Later
  <2>4. PICK F \in SUBSET Flags : /\ Later(S(v), Counted(S(v), n), F)
                                  /\ Later(S(w), Counted(S(w), n), F)
    BY <1>1, <2>2, <2>3, CountedAlike
  <2>5. /\ Later(v, Counted(S(v), n), {} \cup F)
        /\ Later(w, Counted(S(w), n), {} \cup F)
    BY <2>2, <2>4, LaterTwice
  <2>6. /\ Keeps(S(v), Counted(S(v), n)) /\ Keeps(S(w), Counted(S(w), n))
        /\ SameShift(Counted(S(v), n), Counted(S(w), n))
    BY <1>1, <2>2, <2>3, CountedAlike
  <2>7. /\ Keeps(v, Counted(S(v), n)) /\ Keeps(w, Counted(S(w), n))
    BY <2>2, <2>6 DEF Keeps
  <2>8. {} \cup F \in SUBSET Flags
    OBVIOUS
  <2> QED BY <2>1, <2>5, <2>6, <2>7, <2>8
<1> QED BY <1>2, <1>3

-----------------------------------------------------------------------------
(* The three stages of the shift register and timer 2 *)

\* v with other events due.
Due(v, d, p) ==
  [v EXCEPT !.sr = [v.sr EXCEPT !.delay = d, !.t2_pending = p]]

\* The due events are a part of the chip of their own.
LEMMA DueKeeps ==
  ASSUME NEW v, Good(v), NEW d \in 0 .. 3, NEW p \in 0 .. 2
  PROVE  /\ Later(v, Due(v, d, p), {}) /\ SameShift(v, Due(v, d, p))
         /\ Due(v, d, p).t1 = v.t1 /\ Due(v, d, p).t2 = v.t2
         /\ Due(v, d, p).sr.delay = d /\ Due(v, d, p).sr.t2_pending = p
         /\ Due(v, d, p).pins = v.pins
<1> DEFINE s == [v.sr EXCEPT !.delay = d, !.t2_pending = p]
           x == [v EXCEPT !.sr = s]
<1>1. v.sr \in ShiftReg
  BY Parts
<1>2. /\ s.bits = v.sr.bits /\ s.active = v.sr.active /\ s.count = v.sr.count
      /\ s.delay = d /\ s.t2_pending = p
  BY <1>1 DEF ShiftReg
<1>3. s \in ShiftReg
  <2>1. \A r \in ShiftReg : [r EXCEPT !.delay = d] \in ShiftReg
    BY DEF ShiftReg
  <2>2. \A r \in ShiftReg : [r EXCEPT !.t2_pending = p] \in ShiftReg
    BY DEF ShiftReg
  <2>3. s = [[v.sr EXCEPT !.delay = d] EXCEPT !.t2_pending = p]
    OBVIOUS
  <2> QED BY <1>1, <2>1, <2>2, <2>3
<1> HIDE DEF s
<1>4. Good(x)
  BY <1>3, WriteGood
<1>5. /\ x.t1 = v.t1 /\ x.t2 = v.t2 /\ x.sr = s /\ x.acr = v.acr
      /\ x.pcr = v.pcr /\ x.pins = v.pins /\ x.irq = v.irq
  BY DEF Good, Chip
<1>6. Due(v, d, p) = x
  BY DEF Due, s
<1> HIDE DEF x
<1>7. Later(v, x, {})
  BY <1>4, <1>5, LaterSame
<1>8. SameShift(v, x)
  BY <1>2, <1>5 DEF SameShift
<1> QED BY <1>2, <1>5, <1>6, <1>7, <1>8

\* Chips that agree on all of the shift register, and on what is due, agree.
LEMMA SameDue ==
  ASSUME NEW v, Good(v), NEW w, Good(w), SameShift(v, w),
         v.sr.delay = w.sr.delay, v.sr.t2_pending = w.sr.t2_pending
  PROVE  v.sr = w.sr /\ v.pins = w.pins /\ v.acr = w.acr
BY Parts DEF SameShift, ShiftReg

\* What a stage of the cycle does with the pulse outputs.
SamePulses(v, x) ==
  x.pins.ca2_pulse = v.pins.ca2_pulse /\ x.pins.cb2_pulse = v.pins.cb2_pulse

\* Chips with the same shift register and pins.
SameSr(v, w) == v.sr = w.sr /\ v.acr = w.acr /\ v.pins = w.pins

\* x and y are what a stage makes of v and w when it only looks at the shift
\* register: it raises the same flags and leaves the timers alone.
SrOnly(v, x, w, y) ==
  /\ \E F \in SUBSET Flags : Later(v, x, F) /\ Later(w, y, F)
  /\ x.t1 = v.t1 /\ y.t1 = w.t1 /\ x.t2 = v.t2 /\ y.t2 = w.t2
  /\ SamePulses(v, x) /\ SamePulses(w, y)
  /\ SameSr(x, y)

\* The delayed shift events of timer 2, by the number of cycles left.
LEMMA SrT2StageCases ==
  ASSUME NEW v, Good(v)
  PROVE  /\ v.sr.t2_pending \in 0 .. 2 /\ v.sr.delay \in 0 .. 3
         /\ v.sr.t2_pending = 0 => SrT2Stage(v) = v
         /\ v.sr.t2_pending = 1
              => SrT2Stage(v) = via_sr_event(Due(v, v.sr.delay, 0))
         /\ v.sr.t2_pending = 2 => SrT2Stage(v) = Due(v, v.sr.delay, 1)
<1> DEFINE w == [v EXCEPT !.sr = [v.sr EXCEPT !.t2_pending = @ - 1]]
<1>1. v.sr \in ShiftReg /\ v.sr.t2_pending \in 0 .. 2 /\ v.sr.delay \in 0 .. 3
  BY Parts DEF ShiftReg
<1>2. w = Due(v, v.sr.delay, v.sr.t2_pending - 1)
  <2>1. [v.sr EXCEPT !.delay = v.sr.delay, !.t2_pending = v.sr.t2_pending - 1]
          = [v.sr EXCEPT !.t2_pending = @ - 1]
    BY <1>1 DEF ShiftReg
  <2> QED BY <2>1 DEF Due
<1>3. SrT2Stage(v) = IF v.sr.t2_pending = 0 THEN v
                     ELSE IF w.sr.t2_pending = 0 THEN via_sr_event(w) ELSE w
  BY DEF SrT2Stage
<1> HIDE DEF w
<1>4. v.sr.t2_pending # 0 => w.sr.t2_pending = v.sr.t2_pending - 1
  <2>1. v.sr.t2_pending # 0 => v.sr.t2_pending - 1 \in 0 .. 2
    BY <1>1
  <2> QED BY <1>1, <1>2, <2>1, DueKeeps
<1>5. CASE v.sr.t2_pending = 0
  BY <1>1, <1>3, <1>5
<1>6. CASE v.sr.t2_pending = 1
  BY <1>1, <1>2, <1>3, <1>4, <1>6
<1>7. CASE v.sr.t2_pending = 2
  BY <1>1, <1>2, <1>3, <1>4, <1>7
<1> QED BY <1>1, <1>5, <1>6, <1>7

\* The shift events of phi2, by the delay that is left.
LEMMA SrPhi2StageCases ==
  ASSUME NEW v, Good(v)
  PROVE  /\ v.acr.mode \notin Phi2Modes => SrPhi2Stage(v) = v
         /\ v.acr.mode \in Phi2Modes /\ v.sr.delay = 0
              => SrPhi2Stage(v) = via_sr_event(v)
         /\ v.acr.mode \in Phi2Modes /\ v.sr.delay # 0
              => /\ SrPhi2Stage(v) = Due(v, v.sr.delay - 1, v.sr.t2_pending)
                 /\ v.sr.delay - 1 \in 0 .. 3
<1>1. v.sr \in ShiftReg /\ v.sr.t2_pending \in 0 .. 2 /\ v.sr.delay \in 0 .. 3
  BY Parts DEF ShiftReg
<1>2. [v.sr EXCEPT !.delay = v.sr.delay - 1, !.t2_pending = v.sr.t2_pending]
        = [v.sr EXCEPT !.delay = @ - 1]
  BY <1>1 DEF ShiftReg
<1>3. Due(v, v.sr.delay - 1, v.sr.t2_pending)
        = [v EXCEPT !.sr = [v.sr EXCEPT !.delay = @ - 1]]
  BY <1>2 DEF Due
<1> QED BY <1>1, <1>3 DEF SrPhi2Stage

\* A shift event looks at nothing else.
LEMMA EventOnly ==
  ASSUME NEW v, Good(v), NEW w, Good(w), SameSr(v, w)
  PROVE  SrOnly(v, via_sr_event(v), w, via_sr_event(w))
<1> DEFINE x == via_sr_event(v)
           y == via_sr_event(w)
<1>1. SameShift(v, w)
  BY DEF SameShift, SameSr
<1>2. PICK F \in SUBSET Flags : Later(v, x, F) /\ Later(w, y, F)
  BY <1>1, EventAlike
<1>3. Keeps(v, x) /\ Keeps(w, y) /\ SameShift(x, y)
  BY <1>1, EventAlike
<1> HIDE DEF x, y
<1>4. Good(x) /\ Good(y)
  BY <1>2 DEF Later
<1>5. x.sr.delay = y.sr.delay /\ x.sr.t2_pending = y.sr.t2_pending
  BY <1>3 DEF Keeps, SameSr
<1>6. x.sr = y.sr /\ x.pins = y.pins /\ x.acr = y.acr
  BY <1>3, <1>4, <1>5, SameDue
<1>7. SameSr(x, y) /\ SamePulses(v, x) /\ SamePulses(w, y)
  BY <1>3, <1>6 DEF Keeps, SameSr, SamePulses
<1> QED BY <1>2, <1>3, <1>7 DEF SrOnly, Keeps, x, y

\* Nor does the passing of time until the next one.
LEMMA DueOnly ==
  ASSUME NEW v, Good(v), NEW w, Good(w), SameSr(v, w),
         NEW d \in 0 .. 3, NEW p \in 0 .. 2
  PROVE  SrOnly(v, Due(v, d, p), w, Due(w, d, p))
<1> DEFINE x == Due(v, d, p)
           y == Due(w, d, p)
<1>1. /\ Later(v, x, {}) /\ Later(w, y, {})
      /\ x.t1 = v.t1 /\ y.t1 = w.t1 /\ x.t2 = v.t2 /\ y.t2 = w.t2
      /\ x.pins = v.pins /\ y.pins = w.pins
  BY DueKeeps
<1>2. Later(v, x, {}) /\ Later(w, y, {}) /\ {} \in SUBSET Flags
  BY <1>1
<1>3. x.sr = y.sr
  <2>1. v.sr = w.sr /\ v \in Chip /\ w \in Chip
    BY DEF SameSr, Good
  <2> QED BY <2>1 DEF Due, Chip
<1> HIDE DEF x, y
<1>4. x.acr = v.acr /\ y.acr = w.acr
  BY <1>1 DEF Later
<1>5. SameSr(x, y) /\ SamePulses(v, x) /\ SamePulses(w, y)
  BY <1>1, <1>3, <1>4 DEF SameSr, SamePulses
<1>6. SrOnly(v, x, w, y)
  BY <1>1, <1>2, <1>5 DEF SrOnly
<1> QED BY <1>6 DEF x, y

\* The same holds of an idle stage, and of two stages one after the other.
LEMMA OnlyIdle ==
  ASSUME NEW v, Good(v), NEW w, Good(w), SameSr(v, w)
  PROVE  SrOnly(v, v, w, w)
<1>1. Later(v, v, {}) /\ Later(w, w, {}) /\ {} \in SUBSET Flags
  BY LaterSame
<1> QED BY <1>1 DEF SrOnly, SamePulses

LEMMA OnlyTwice ==
  ASSUME NEW v, Good(v), NEW w, Good(w), NEW x, NEW y, NEW p, NEW q,
         SrOnly(v, x, w, y), SrOnly(x, p, y, q)
  PROVE  SrOnly(v, p, w, q)
<1>1. PICK E \in SUBSET Flags : Later(v, x, E) /\ Later(w, y, E)
  BY DEF SrOnly
<1>2. PICK F \in SUBSET Flags : Later(x, p, F) /\ Later(y, q, F)
  BY DEF SrOnly
<1>3. Later(v, p, E \cup F) /\ Later(w, q, E \cup F)
  BY <1>1, <1>2, LaterTwice
<1>4. E \cup F \in SUBSET Flags
  OBVIOUS
<1> QED BY <1>3, <1>4 DEF SrOnly, SamePulses

\* The two shift stages look at the shift register only.
LEMMA SrStagesOnly ==
  ASSUME NEW v, Good(v), NEW w, Good(w), SameSr(v, w)
  PROVE  /\ SrOnly(v, SrT2Stage(v), w, SrT2Stage(w))
         /\ SrOnly(v, SrPhi2Stage(v), w, SrPhi2Stage(w))
<1>1. /\ v.sr.t2_pending \in 0 .. 2 /\ v.sr.delay \in 0 .. 3
      /\ w.sr.t2_pending = v.sr.t2_pending /\ w.sr.delay = v.sr.delay
      /\ w.acr = v.acr
  BY SrT2StageCases DEF SameSr
<1>2. SrOnly(v, v, w, w)
  BY OnlyIdle
<1>3. SrOnly(v, via_sr_event(v), w, via_sr_event(w))
  BY EventOnly
<1>4. SrOnly(v, SrT2Stage(v), w, SrT2Stage(w))
  <2> DEFINE d == v.sr.delay
             x == Due(v, d, 0)
             y == Due(w, d, 0)
  <2>1. CASE v.sr.t2_pending = 0
    BY <1>1, <1>2, <2>1, SrT2StageCases
  <2>2. CASE v.sr.t2_pending = 1
    <3>1. SrOnly(v, x, w, y)
      BY <1>1, DueOnly
    <3>2. Good(x) /\ Good(y) /\ SameSr(x, y)
      BY <3>1 DEF SrOnly, Later
    <3> HIDE DEF x, y
    <3>3. SrOnly(x, via_sr_event(x), y, via_sr_event(y))
      BY <3>2, EventOnly
    <3>4. SrOnly(v, via_sr_event(x), w, via_sr_event(y))
      BY <3>1, <3>3, OnlyTwice
    <3>5. SrT2Stage(v) = via_sr_event(x) /\ SrT2Stage(w) = via_sr_event(y)
      BY <1>1, <2>2, SrT2StageCases DEF x, y
    <3> QED BY <3>4, <3>5
  <2>3. CASE v.sr.t2_pending = 2
    <3>1. SrOnly(v, Due(v, d, 1), w, Due(w, d, 1))
      BY <1>1, DueOnly
    <3> QED BY <1>1, <2>3, <3>1, SrT2StageCases
  <2> QED BY <1>1, <2>1, <2>2, <2>3
<1>5. SrOnly(v, SrPhi2Stage(v), w, SrPhi2Stage(w))
  <2>1. CASE v.acr.mode \notin Phi2Modes
    BY <1>1, <1>2, <2>1, SrPhi2StageCases
  <2>2. CASE v.acr.mode \in Phi2Modes /\ v.sr.delay = 0
    BY <1>1, <1>3, <2>2, SrPhi2StageCases
  <2>3. CASE v.acr.mode \in Phi2Modes /\ v.sr.delay # 0
    <3> DEFINE d == v.sr.delay - 1
               p == v.sr.t2_pending
    <3>1. d \in 0 .. 3 /\ p \in 0 .. 2
      BY <1>1, <2>3
    <3>2. SrPhi2Stage(v) = Due(v, d, p) /\ SrPhi2Stage(w) = Due(w, d, p)
      BY <1>1, <2>3, SrPhi2StageCases
    <3> HIDE DEF d, p
    <3>3. SrOnly(v, Due(v, d, p), w, Due(w, d, p))
      BY <3>1, DueOnly
    <3> QED BY <3>2, <3>3
  <2> QED BY <2>1, <2>2, <2>3
<1> QED BY <1>4, <1>5

\* A shift event and the passing of time commute.
LEMMA EventDue ==
  ASSUME NEW v, Good(v), NEW d \in 0 .. 3, NEW p \in 0 .. 2
  PROVE  via_sr_event(Due(v, d, p)) = Due(via_sr_event(v), d, p)
<1> DEFINE w == Due(v, d, p)
           x == via_sr_event(v)
           y == via_sr_event(w)
           z == Due(x, d, p)
<1>1. /\ Later(v, w, {}) /\ SameShift(v, w) /\ w.t1 = v.t1 /\ w.t2 = v.t2
      /\ w.sr.delay = d /\ w.sr.t2_pending = p
  BY DueKeeps
<1>2. Good(w)
  BY <1>1 DEF Later
<1> HIDE DEF w
<1>3. PICK F \in SUBSET Flags : Later(v, x, F) /\ Later(w, y, F)
  BY <1>1, <1>2, EventAlike
<1>4. Keeps(w, y) /\ Keeps(v, x) /\ SameShift(x, y)
  BY <1>1, <1>2, EventAlike
<1>5. Good(x) /\ Good(y)
  BY <1>3 DEF Later
<1> HIDE DEF x, y
<1>6. /\ Later(x, z, {}) /\ SameShift(x, z) /\ z.t1 = x.t1 /\ z.t2 = x.t2
      /\ z.sr.delay = d /\ z.sr.t2_pending = p
  BY <1>5, DueKeeps
<1>7. Good(z)
  BY <1>6 DEF Later
<1> HIDE DEF z
<1>8. Later(v, y, {} \cup F) /\ Later(v, z, F \cup {})
  BY <1>1, <1>3, <1>6, LaterTwice
<1>9. {} \cup F = F /\ F \cup {} = F
  OBVIOUS
<1>10. y.sr = z.sr /\ y.pins = z.pins
  <2>1. SameShift(y, z) /\ y.sr.delay = z.sr.delay
        /\ y.sr.t2_pending = z.sr.t2_pending
    BY <1>1, <1>4, <1>6 DEF SameShift, Keeps
  <2> QED BY <1>5, <1>7, <2>1, SameDue
<1>11. y.t1 = z.t1 /\ y.t2 = z.t2
  BY <1>1, <1>4, <1>6 DEF Keeps
<1>12. y = z
  BY <1>8, <1>9, <1>10, <1>11, LaterEqual
<1> QED BY <1>12 DEF w, x, y, z

\* What was due before does not matter.
LEMMA DueTwice ==
  ASSUME NEW v, Good(v), NEW d, NEW p, NEW e, NEW q
  PROVE  Due(Due(v, d, p), e, q) = Due(v, e, q)
<1> DEFINE S(s, a, b) == [s EXCEPT !.delay = a, !.t2_pending = b]
<1>1. S(S(v.sr, d, p), e, q) = S(v.sr, e, q)
  BY Parts DEF ShiftReg
<1> HIDE DEF S
<1>2. [v EXCEPT !.sr = S(v.sr, d, p)].sr = S(v.sr, d, p)
  BY DEF Good, Chip
<1>3. [[v EXCEPT !.sr = S(v.sr, d, p)] EXCEPT !.sr = S(v.sr, e, q)]
        = [v EXCEPT !.sr = S(v.sr, e, q)]
  OBVIOUS
<1>4. \A c, a, b : Due(c, a, b) = [c EXCEPT !.sr = S(c.sr, a, b)]
  BY DEF Due, S
<1> QED BY <1>1, <1>2, <1>3, <1>4

\* The two shift stages commute.
LEMMA SrStagesCommute ==
  ASSUME NEW v, Good(v)
  PROVE  SrT2Stage(SrPhi2Stage(v)) = SrPhi2Stage(SrT2Stage(v))
<1> DEFINE d == v.sr.delay
           p == v.sr.t2_pending
           E(c) == via_sr_event(c)
           P(c) == SrT2Stage(c)
           H(c) == SrPhi2Stage(c)
<1>1. d \in 0 .. 3 /\ p \in 0 .. 2
  BY SrT2StageCases
<1>2. /\ Good(E(v)) /\ Good(P(v)) /\ Good(H(v))
      /\ P(v).acr = v.acr
  <2>1. SameSr(v, v)
    BY DEF SameSr
  <2> QED BY <2>1, SrEventGood, SrT2StageGood, SrPhi2StageGood, SrStagesOnly
          DEF SrOnly, Later
<1>3. CASE v.acr.mode \notin Phi2Modes
  <2>1. H(v) = v /\ H(P(v)) = P(v)
    BY <1>2, <1>3, SrPhi2StageCases
  <2> QED BY <2>1
<1>4. ASSUME NEW c, Good(c)
      PROVE  E(c).sr.delay = c.sr.delay /\ E(c).sr.t2_pending = c.sr.t2_pending
  <2>1. SameShift(c, c)
    BY DEF SameShift
  <2> QED BY <1>4, <2>1, EventAlike DEF Keeps
<1>5. ASSUME NEW a \in 0 .. 3, NEW b \in 0 .. 2
      PROVE  /\ Good(Due(v, a, b)) /\ Due(v, a, b).acr = v.acr
             /\ Due(v, a, b).sr.delay = a /\ Due(v, a, b).sr.t2_pending = b
  BY DueKeeps DEF Later
<1>6. 0 \in 0 .. 3 /\ 0 \in 0 .. 2 /\ 1 \in 0 .. 2 /\ 2 \in 0 .. 2
  OBVIOUS
<1>7. CASE v.acr.mode \in Phi2Modes /\ d = 0
  <2>1. H(v) = E(v)
    BY <1>7, SrPhi2StageCases
  <2>2. E(v).sr.delay = d /\ E(v).sr.t2_pending = p
    BY <1>4
  <2>3. CASE p = 0
    <3>1. P(v) = v /\ P(E(v)) = E(v)
      BY <1>2, <2>2, <2>3, SrT2StageCases
    <3> QED BY <2>1, <3>1
  <2>4. CASE p = 1
    <3> DEFINE x == Due(v, d, 0)
    <3>1. P(v) = E(x)
      BY <2>4, SrT2StageCases
    <3>2. P(E(v)) = E(Due(E(v), d, 0))
      BY <1>2, <2>2, <2>4, SrT2StageCases
    <3>3. Due(E(v), d, 0) = E(x)
      BY <1>1, <1>6, EventDue
    <3>4. Good(x) /\ x.sr.delay = d
      BY <1>1, <1>5, <1>6
    <3>5. P(v).sr.delay = d
      BY <1>4, <3>1, <3>4
    <3>6. H(P(v)) = E(P(v))
      BY <1>2, <1>7, <3>5, SrPhi2StageCases
    <3> QED BY <2>1, <3>1, <3>2, <3>3, <3>6
  <2>5. CASE p = 2
    <3>1. P(v) = Due(v, d, 1)
      BY <2>5, SrT2StageCases
    <3>2. P(E(v)) = Due(E(v), d, 1)
      BY <1>2, <2>2, <2>5, SrT2StageCases
    <3>3. P(v).sr.delay = d
      BY <1>1, <1>5, <1>6, <3>1
    <3>4. H(P(v)) = E(P(v))
      BY <1>2, <1>7, <3>3, SrPhi2StageCases
    <3>5. E(Due(v, d, 1)) = Due(E(v), d, 1)
      BY <1>1, <1>6, EventDue
    <3> QED BY <2>1, <3>1, <3>2, <3>4, <3>5
  <2> QED BY <1>1, <2>3, <2>4, <2>5
<1>8. CASE v.acr.mode \in Phi2Modes /\ d # 0
  <2>1. H(v) = Due(v, d - 1, p) /\ d - 1 \in 0 .. 3
    BY <1>8, SrPhi2StageCases
  <2>2. /\ Good(H(v)) /\ H(v).acr = v.acr
        /\ H(v).sr.delay = d - 1 /\ H(v).sr.t2_pending = p
    BY <1>1, <1>5, <2>1
  <2> DEFINE x == Due(v, d, 0)
  <2>3. CASE p = 0
    <3>1. P(v) = v /\ P(H(v)) = H(v)
      BY <2>2, <2>3, SrT2StageCases
    <3> QED BY <3>1
  <2>4. CASE p = 1
    <3>1. P(v) = E(x)
      BY <2>4, SrT2StageCases
    <3>2. Good(x) /\ x.sr.delay = d /\ x.sr.t2_pending = 0
      BY <1>1, <1>5, <1>6
    <3>3. P(v).sr.delay = d /\ P(v).sr.t2_pending = 0
      BY <1>4, <3>1, <3>2
    <3>4. H(P(v)) = Due(E(x), d - 1, 0)
      BY <1>2, <1>8, <3>1, <3>3, SrPhi2StageCases
    <3>5. Due(E(x), d - 1, 0) = E(Due(x, d - 1, 0))
      BY <1>6, <2>1, <3>2, EventDue
    <3>6. Due(x, d - 1, 0) = Due(v, d - 1, 0)
      BY DueTwice
    <3>7. P(H(v)) = E(Due(H(v), d - 1, 0))
      BY <2>2, <2>4, SrT2StageCases
    <3>8. Due(H(v), d - 1, 0) = Due(v, d - 1, 0)
      BY <2>1, DueTwice
    <3> QED BY <3>4, <3>5, <3>6, <3>7, <3>8
  <2>5. CASE p = 2
    <3>1. P(v) = Due(v, d, 1)
      BY <2>5, SrT2StageCases
    <3>2. P(v).sr.delay = d /\ P(v).sr.t2_pending = 1
      BY <1>1, <1>5, <1>6, <3>1
    <3>3. H(P(v)) = Due(P(v), d - 1, 1)
      BY <1>2, <1>8, <3>2, SrPhi2StageCases
    <3>4. Due(P(v), d - 1, 1) = Due(v, d - 1, 1)
      BY <3>1, DueTwice
    <3>5. P(H(v)) = Due(H(v), d - 1, 1)
      BY <2>2, <2>5, SrT2StageCases
    <3>6. Due(H(v), d - 1, 1) = Due(v, d - 1, 1)
      BY <2>1, DueTwice
    <3> QED BY <3>3, <3>4, <3>5, <3>6
  <2> QED BY <1>1, <2>3, <2>4, <2>5
<1> QED BY <1>3, <1>7, <1>8

-----------------------------------------------------------------------------
(* The stage of timer 2 *)

\* Chips that agree on all but timer 1 and the interrupt logic.
SameRest(v, w) == SameSr(v, w) /\ v.t2 = w.t2

\* x and y are what a stage makes of v and w, which it cannot tell apart: it
\* raises the same flags and leaves timer 1 alone.
Blind(v, x, w, y) ==
  /\ \E F \in SUBSET Flags : Later(v, x, F) /\ Later(w, y, F)
  /\ x.t1 = v.t1 /\ y.t1 = w.t1
  /\ SamePulses(v, x) /\ SamePulses(w, y)
  /\ SameRest(x, y)

\* A stage that looks at the shift register only is blind to timer 1.
LEMMA OnlyBlind ==
  ASSUME NEW v, NEW w, NEW x, NEW y, SameRest(v, w), SrOnly(v, x, w, y)
  PROVE  Blind(v, x, w, y)
BY DEF SrOnly, Blind, SameRest

\* So are two blind stages one after the other.
LEMMA BlindTwice ==
  ASSUME NEW v, Good(v), NEW w, Good(w), NEW x, NEW y, NEW p, NEW q,
         Blind(v, x, w, y), Blind(x, p, y, q)
  PROVE  Blind(v, p, w, q)
<1>1. PICK E \in SUBSET Flags : Later(v, x, E) /\ Later(w, y, E)
  BY DEF Blind
<1>2. PICK F \in SUBSET Flags : Later(x, p, F) /\ Later(y, q, F)
  BY DEF Blind
<1>3. Later(v, p, E \cup F) /\ Later(w, q, E \cup F)
  BY <1>1, <1>2, LaterTwice
<1>4. E \cup F \in SUBSET Flags
  OBVIOUS
<1> QED BY <1>3, <1>4 DEF Blind, SamePulses

\* v with another timer 2 and another event of it due.
Pend(s, p) == [s EXCEPT !.t2_pending = p]
PutT2(v, t, p) == [v EXCEPT !.t2 = t, !.sr = Pend(v.sr, p)]

\* Writing the timer and the due events, with or without its interrupt.
LEMMA PutT2Keeps ==
  ASSUME NEW v, Good(v), NEW t \in Timer2, NEW p \in 0 .. 2
  PROVE  LET x == PutT2(v, t, p)
             y == Raise(x, {"T2"})
         IN /\ Later(v, x, {}) /\ Later(v, y, {"T2"})
            /\ x.t1 = v.t1 /\ x.t2 = t /\ x.pins = v.pins
            /\ x.sr = Pend(v.sr, p)
            /\ y.t1 = v.t1 /\ y.t2 = t /\ y.pins = v.pins
            /\ y.sr = Pend(v.sr, p)
<1> DEFINE s == Pend(v.sr, p)
           x == PutT2(v, t, p)
           y == Raise(x, {"T2"})
<1>1. s \in ShiftReg
  BY Parts DEF ShiftReg, Pend
<1> HIDE DEF s
<1>2. Good([[v EXCEPT !.t2 = t] EXCEPT !.sr = s])
  <2>1. Good([v EXCEPT !.t2 = t])
    BY WriteGood
  <2> QED BY <1>1, <2>1, WriteGood
<1>3. x = [[v EXCEPT !.t2 = t] EXCEPT !.sr = s]
  BY DEF PutT2, s
<1>4. /\ x.t1 = v.t1 /\ x.t2 = t /\ x.sr = s /\ x.acr = v.acr
      /\ x.pcr = v.pcr /\ x.pins = v.pins /\ x.irq = v.irq
  BY <1>3 DEF Good, Chip
<1>5. Good(x)
  BY <1>2, <1>3
<1> HIDE DEF x
<1>6. Later(v, x, {})
  BY <1>4, <1>5, LaterSame
<1>7. {"T2"} \in SUBSET Flags
  BY DEF Flags
<1>8. /\ Later(v, y, {"T2"}) /\ y.t1 = x.t1 /\ y.t2 = x.t2
      /\ y.sr = x.sr /\ y.pins = x.pins
  BY <1>4, <1>5, <1>7, LaterRaise
<1> HIDE DEF y
<1> QED BY <1>4, <1>6, <1>8 DEF s, x, y

\* The outcome of the stage depends on timer 2 and on ACR, and only in the
\* modes that timer 2 clocks does it schedule a shift.
LEMMA T2StageForm ==
  ASSUME NEW v, Good(v), NEW w, Good(w), v.t2 = w.t2, v.acr = w.acr,
         v.sr.t2_pending = w.sr.t2_pending
  PROVE  \E t \in Timer2, p \in 0 .. 2, fires \in BOOLEAN :
           /\ via_t2_8bit(v) \/ p = v.sr.t2_pending
           /\ \A c \in {v, w} :
                T2Stage(c) = IF fires THEN Raise(PutT2(c, t, p), {"T2"})
                             ELSE PutT2(c, t, p)
<1> DEFINE a == v.acr
           u == [v.t2 EXCEPT !.phi2 = ~a.pulse, !.hold = FALSE]
           k == v.sr.t2_pending
           W(c) == [c EXCEPT !.t2 = u]
           idle == ~v.t2.active \/ ~v.t2.phi2 \/ v.t2.hold
           Is(t, p, fires) ==
             \A c \in {v, w} :
               T2Stage(c) = IF fires THEN Raise(PutT2(c, t, p), {"T2"})
                            ELSE PutT2(c, t, p)
<1>1. ASSUME NEW c \in {v, w}
      PROVE  /\ Good(c) /\ c \in Chip /\ c.sr \in ShiftReg
             /\ c.t2 = v.t2 /\ c.acr = a /\ c.sr.t2_pending = k
             /\ k \in 0 .. 2
  BY Parts DEF Good, ShiftReg
<1>2. ASSUME NEW c \in {v, w}
      PROVE  /\ W(c).t2 = u /\ W(c).acr = a /\ W(c).sr = c.sr
             /\ W(c) = PutT2(c, u, k)
             /\ \A x : [W(c) EXCEPT !.t2 = x] = PutT2(c, x, k)
             /\ \A x : [W(c) EXCEPT !.t2 = x,
                                    !.sr = Pend(c.sr, 2)]
                         = PutT2(c, x, 2)
  <2>1. c \in Chip /\ Pend(c.sr, k) = c.sr
    BY <1>1 DEF ShiftReg, Pend
  <2> HIDE DEF u
  <2> QED BY <2>1, <1>1 DEF PutT2, Chip
<1>3. ASSUME NEW t, NEW p, NEW fires \in BOOLEAN, Is(t, p, fires)
      PROVE  t \in Timer2
  <2>1. PutT2(v, t, p).t2 = t /\ Raise(PutT2(v, t, p), {"T2"}).t2 = t
    BY DEF PutT2, Raise, Good, Chip
  <2>2. T2Stage(v).t2 = t
    BY <1>3, <2>1
  <2> QED BY <2>2, T2StageGood, Parts
<1>4. ASSUME NEW c \in {v, w}
      PROVE  T2Stage(c) = IF idle THEN W(c)
                          ELSE IF via_t2_8bit(v) THEN T2Count8(W(c))
                          ELSE T2Count16(W(c))
  BY <1>1 DEF T2Stage, via_t2_8bit
<1> HIDE DEF W, u
<1>5. CASE idle
  <2>1. Is(u, k, FALSE)
    BY <1>2, <1>4, <1>5
  <2> QED BY <1>1, <1>3, <2>1
<1>6. CASE ~idle /\ ~via_t2_8bit(v)
  <2> DEFINE t == [u EXCEPT !.counter = (@ - 1) % Word,
                            !.running = @ /\ u.counter # 0]
             fires == u.counter = 0 /\ u.running
  <2>1. ASSUME NEW c \in {v, w}
        PROVE  T2Stage(c) = IF fires THEN Raise(PutT2(c, t, k), {"T2"})
                            ELSE PutT2(c, t, k)
    <3>1. [W(c) EXCEPT !.t2 = t] = PutT2(c, t, k) /\ W(c).t2 = u
      BY <1>2
    <3>2. T2Count16(W(c)) = IF fires THEN Raise([W(c) EXCEPT !.t2 = t], {"T2"})
                            ELSE [W(c) EXCEPT !.t2 = t]
      BY <3>1 DEF T2Count16
    <3> QED BY <1>4, <1>6, <3>1, <3>2
  <2> DEFINE b == IF fires THEN TRUE ELSE FALSE
  <2> HIDE DEF t, fires
  <2>2. b \in BOOLEAN /\ Is(t, k, b)
    BY <2>1
  <2> HIDE DEF b
  <2>3. t \in Timer2
    BY <1>3, <2>2
  <2> QED BY <1>1, <2>2, <2>3
<1>7. CASE ~idle /\ via_t2_8bit(v)
  <2> DEFINE hi == Hi(u.counter)
             lo == Lo(u.counter)
             fires == hi = 0 /\ u.running
             under == [u EXCEPT !.counter = WordOf((hi - 1) % Byte, Byte - 1),
                                !.reload = TRUE, !.running = @ /\ ~fires]
             load == [u EXCEPT !.counter = WordOf(hi, u.latch), !.reload = FALSE]
             down == [u EXCEPT !.counter = WordOf(hi, lo - 1)]
  <2>1. ASSUME NEW c \in {v, w}
        PROVE  T2Stage(c) = IF u.reload THEN PutT2(c, load, k)
                            ELSE IF lo > 0 THEN PutT2(c, down, k)
                            ELSE IF fires THEN Raise(PutT2(c, under, 2), {"T2"})
                            ELSE PutT2(c, under, 2)
    <3>1. /\ W(c).t2 = u /\ W(c).sr = c.sr
          /\ [W(c) EXCEPT !.t2 = load] = PutT2(c, load, k)
          /\ [W(c) EXCEPT !.t2 = down] = PutT2(c, down, k)
          /\ [W(c) EXCEPT !.t2 = under, !.sr = Pend(c.sr, 2)]
               = PutT2(c, under, 2)
      BY <1>2
    <3>2. T2Count8(W(c))
            = IF u.reload THEN [W(c) EXCEPT !.t2 = load]
              ELSE IF lo > 0 THEN [W(c) EXCEPT !.t2 = down]
              ELSE IF fires
              THEN Raise([W(c) EXCEPT !.t2 = under,
                                      !.sr = Pend(c.sr, 2)], {"T2"})
              ELSE [W(c) EXCEPT !.t2 = under,
                                !.sr = Pend(c.sr, 2)]
      BY <3>1 DEF T2Count8, Pend
    <3> HIDE DEF load, down, under, fires, lo
    <3> QED BY <1>4, <1>7, <3>1, <3>2
  <2> HIDE DEF load, down, under, fires, lo
  <2>2. \/ Is(load, k, FALSE) \/ Is(down, k, FALSE)
        \/ Is(under, 2, TRUE) \/ Is(under, 2, FALSE)
    BY <2>1
  <2> HIDE DEF Is
  <2>3. /\ Is(load, k, FALSE) => load \in Timer2
        /\ Is(down, k, FALSE) => down \in Timer2
        /\ Is(under, 2, TRUE) => under \in Timer2
        /\ Is(under, 2, FALSE) => under \in Timer2
    BY <1>3
  <2>4. k \in 0 .. 2 /\ 2 \in 0 .. 2
    BY <1>1
  <2>5. \E t \in Timer2, p \in 0 .. 2, f \in BOOLEAN : Is(t, p, f)
    BY <2>2, <2>3, <2>4
  <2> QED BY <1>7, <2>5 DEF Is
<1> QED BY <1>5, <1>6, <1>7

\* The stage looks at timer 2 and ACR, and raises the same flag on chips that
\* it cannot tell apart.
LEMMA T2StageLocal ==
  ASSUME NEW v, Good(v), NEW w, Good(w), v.t2 = w.t2, v.acr = w.acr,
         v.sr.t2_pending = w.sr.t2_pending
  PROVE  LET x == T2Stage(v)
             y == T2Stage(w)
         IN /\ \E F \in SUBSET Flags : Later(v, x, F) /\ Later(w, y, F)
            /\ x.t1 = v.t1 /\ y.t1 = w.t1 /\ x.t2 = y.t2
            /\ x.pins = v.pins /\ y.pins = w.pins
            /\ v.sr = w.sr => x.sr = y.sr
            /\ ~via_t2_8bit(v) => x.sr = v.sr /\ y.sr = w.sr
<1> DEFINE x == T2Stage(v)
           y == T2Stage(w)
<1>1. PICK t \in Timer2, p \in 0 .. 2, fires \in BOOLEAN :
        /\ via_t2_8bit(v) \/ p = v.sr.t2_pending
        /\ \A c \in {v, w} :
             T2Stage(c) = IF fires THEN Raise(PutT2(c, t, p), {"T2"})
                          ELSE PutT2(c, t, p)
  BY T2StageForm
<1> DEFINE F == IF fires THEN {"T2"} ELSE {}
<1>2. ASSUME NEW c \in {v, w}
      PROVE  /\ Later(c, T2Stage(c), F)
             /\ T2Stage(c).t1 = c.t1 /\ T2Stage(c).t2 = t
             /\ T2Stage(c).sr = Pend(c.sr, p)
             /\ T2Stage(c).pins = c.pins
  <2>1. Good(c)
    OBVIOUS
  <2> DEFINE z == PutT2(c, t, p)
             r == Raise(z, {"T2"})
  <2>2. /\ Later(c, z, {}) /\ Later(c, r, {"T2"})
        /\ z.t1 = c.t1 /\ z.t2 = t /\ z.pins = c.pins
        /\ z.sr = Pend(c.sr, p)
        /\ r.t1 = c.t1 /\ r.t2 = t /\ r.pins = c.pins
        /\ r.sr = Pend(c.sr, p)
    BY <2>1, PutT2Keeps
  <2>3. CASE fires
    <3>1. T2Stage(c) = r
      BY <1>1, <2>3
    <3>2. F = {"T2"}
      BY <2>3
    <3> HIDE DEF r, z, F
    <3> QED BY <2>2, <3>1, <3>2
  <2>4. CASE ~fires
    <3>1. T2Stage(c) = z
      BY <1>1, <2>4
    <3>2. F = {}
      BY <2>4
    <3> HIDE DEF r, z, F
    <3> QED BY <2>2, <3>1, <3>2
  <2> QED BY <2>3, <2>4
<1>3. F \in SUBSET Flags
  BY DEF Flags
<1> HIDE DEF F
<1>4. Later(v, x, F) /\ Later(w, y, F)
  BY <1>2
<1>5. /\ x.t1 = v.t1 /\ y.t1 = w.t1 /\ x.t2 = y.t2
      /\ x.pins = v.pins /\ y.pins = w.pins
  BY <1>2
<1>6. v.sr = w.sr => x.sr = y.sr
  BY <1>2
<1>7. ~via_t2_8bit(v) => x.sr = v.sr /\ y.sr = w.sr
  <2>1. \A c \in {v, w} : Pend(c.sr, c.sr.t2_pending) = c.sr
    BY Parts DEF ShiftReg, Pend
  <2>2. ~via_t2_8bit(v) => p = v.sr.t2_pending /\ p = w.sr.t2_pending
    BY <1>1
  <2> QED BY <1>2, <2>1, <2>2
<1> HIDE DEF x, y
<1>8. \E G \in SUBSET Flags : Later(v, x, G) /\ Later(w, y, G)
  BY <1>3, <1>4
<1> QED BY <1>5, <1>6, <1>7, <1>8 DEF x, y

\* A cycle of timer 2 is blind to timer 1, and so is the stage of phi2.
LEMMA StagesBlind ==
  ASSUME NEW v, Good(v), NEW w, Good(w), SameRest(v, w)
  PROVE  /\ Blind(v, T2Cycle(v), w, T2Cycle(w))
         /\ Blind(v, SrPhi2Stage(v), w, SrPhi2Stage(w))
<1> DEFINE x == SrT2Stage(v)
           y == SrT2Stage(w)
<1>1. SameSr(v, w)
  BY DEF SameRest
<1>2. Blind(v, SrPhi2Stage(v), w, SrPhi2Stage(w)) /\ Blind(v, x, w, y)
  BY <1>1, SrStagesOnly, OnlyBlind
<1>3. Good(x) /\ Good(y)
  BY SrT2StageGood
<1> HIDE DEF x, y
<1>4. SameRest(x, y)
  BY <1>2 DEF Blind
<1>5. Blind(x, T2Stage(x), y, T2Stage(y))
  <2> DEFINE p == T2Stage(x)
             q == T2Stage(y)
  <2>1. /\ x.t2 = y.t2 /\ x.acr = y.acr /\ x.sr = y.sr /\ x.pins = y.pins
    BY <1>4 DEF SameRest, SameSr
  <2>2. /\ \E F \in SUBSET Flags : Later(x, p, F) /\ Later(y, q, F)
        /\ p.t1 = x.t1 /\ q.t1 = y.t1 /\ p.t2 = q.t2
        /\ p.pins = x.pins /\ q.pins = y.pins /\ p.sr = q.sr
    BY <1>3, <2>1, T2StageLocal
  <2> HIDE DEF p, q
  <2>3. p.acr = x.acr /\ q.acr = y.acr
    BY <2>2 DEF Later
  <2>4. SameRest(p, q) /\ SamePulses(x, p) /\ SamePulses(y, q)
    BY <2>1, <2>2, <2>3 DEF SameRest, SameSr, SamePulses
  <2>5. Blind(x, p, y, q)
    BY <2>2, <2>4 DEF Blind
  <2> QED BY <2>5 DEF p, q
<1>6. Blind(v, T2Stage(x), w, T2Stage(y))
  BY <1>2, <1>5, BlindTwice
<1> QED BY <1>2, <1>6 DEF T2Cycle, x, y

\* The stage of phi2 leaves the events of timer 2 alone.
LEMMA SrPhi2KeepsPending ==
  ASSUME NEW v, Good(v)
  PROVE  SrPhi2Stage(v).sr.t2_pending = v.sr.t2_pending
<1>1. via_sr_event(v).sr.t2_pending = v.sr.t2_pending
  <2>1. SameShift(v, v)
    BY DEF SameShift
  <2> QED BY <2>1, EventAlike DEF Keeps
<1>2. v.sr.t2_pending \in 0 .. 2
  BY SrT2StageCases
<1> QED BY <1>1, <1>2, SrPhi2StageCases, DueKeeps

\* In the modes of phi2 timer 2 does not clock the shift register, so that the
\* two stages commute.
LEMMA T2StageCommutes ==
  ASSUME NEW v, Good(v)
  PROVE  T2Stage(SrPhi2Stage(v)) = SrPhi2Stage(T2Stage(v))
<1> DEFINE w == SrPhi2Stage(v)
           x == T2Stage(v)
           y == T2Stage(w)
           z == SrPhi2Stage(x)
<1>1. Good(w) /\ Good(x) /\ w.sr.t2_pending = v.sr.t2_pending
  BY SrPhi2StageGood, T2StageGood, SrPhi2KeepsPending
<1>2. SrOnly(v, w, v, w)
  BY SrStagesOnly DEF SameSr
<1>3. w.t1 = v.t1 /\ w.t2 = v.t2 /\ w.acr = v.acr
  BY <1>2 DEF SrOnly, Later
<1>4. CASE v.acr.mode \notin Phi2Modes
  <2>1. x.acr = v.acr
    BY <1>1, <1>3, T2StageLocal DEF Later
  <2> QED BY <1>1, <1>4, <2>1, SrPhi2StageCases
<1>5. CASE v.acr.mode \in Phi2Modes
  <2>1. ~via_t2_8bit(v)
    BY <1>5 DEF via_t2_8bit, Phi2Modes
  <2>2. /\ \E F \in SUBSET Flags : Later(v, x, F) /\ Later(w, y, F)
        /\ x.t1 = v.t1 /\ y.t1 = w.t1 /\ x.t2 = y.t2
        /\ x.pins = v.pins /\ y.pins = w.pins
        /\ x.sr = v.sr /\ y.sr = w.sr
    BY <1>1, <1>3, <2>1, T2StageLocal
  <2> HIDE DEF w, x, y
  <2>3. PICK F \in SUBSET Flags : Later(v, x, F) /\ Later(w, y, F)
    BY <2>2
  <2>4. SameSr(v, x)
    BY <2>2, <2>3 DEF SameSr, Later
  <2>5. SrOnly(v, w, x, z)
    BY <1>1, <2>4, SrStagesOnly DEF w
  <2> HIDE DEF z
  <2>6. PICK E \in SUBSET Flags : Later(v, w, E) /\ Later(x, z, E)
    BY <2>5 DEF SrOnly
  <2>7. Later(v, y, E \cup F) /\ Later(v, z, F \cup E)
    BY <2>3, <2>6, LaterTwice
  <2>8. E \cup F = F \cup E
    OBVIOUS
  <2>9. y.t1 = z.t1 /\ y.t2 = z.t2 /\ y.sr = z.sr /\ y.pins = z.pins
    BY <1>3, <2>2, <2>5 DEF SrOnly, SameSr
  <2>10. y = z
    BY <2>7, <2>8, <2>9, LaterEqual
  <2> QED BY <2>10 DEF w, x, y, z
<1> QED BY <1>4, <1>5

\* So does the whole cycle of timer 2.
LEMMA T2CycleCommutes ==
  ASSUME NEW v, Good(v)
  PROVE  T2Cycle(SrPhi2Stage(v)) = SrPhi2Stage(T2Cycle(v))
<1>1. SrT2Stage(SrPhi2Stage(v)) = SrPhi2Stage(SrT2Stage(v))
  BY SrStagesCommute
<1>2. T2Stage(SrPhi2Stage(SrT2Stage(v))) = SrPhi2Stage(T2Stage(SrT2Stage(v)))
  BY SrT2StageGood, T2StageCommutes
<1> QED BY <1>1, <1>2 DEF T2Cycle

-----------------------------------------------------------------------------
(* The stage of timer 1 *)

\* The stage looks at timer 1 and ACR, and touches nothing but timer 1 and the
\* interrupt logic.
LEMMA T1StageLocal ==
  ASSUME NEW v, Good(v), NEW w, Good(w), v.t1 = w.t1, v.acr = w.acr
  PROVE  LET x == T1Stage(v)
             y == T1Stage(w)
         IN /\ \E F \in SUBSET Flags : Later(v, x, F) /\ Later(w, y, F)
            /\ x.t1 = y.t1 /\ SameRest(v, x) /\ SameRest(w, y)
<1> DEFINE Under(t) == [t EXCEPT !.counter = Word - 1, !.reload = TRUE]
           Fired(t, b) == [Under(t) EXCEPT !.pb7 = ~@, !.running = b]
           Loaded(t) == [t EXCEPT !.counter = t.latch, !.reload = FALSE]
           Down(t) == [t EXCEPT !.counter = @ - 1]
           P(c, r) == [c EXCEPT !.t1 = r]
           R(c, r) == Raise(P(c, r), {"T1"})
           Becomes(t, b) == IF ~t.active THEN t
                            ELSE IF t.reload THEN Loaded(t)
                            ELSE IF t.counter > 0 THEN Down(t)
                            ELSE IF ~t.running THEN Under(t) ELSE Fired(t, b)
           Fires(t) == t.active /\ ~t.reload /\ ~(t.counter > 0) /\ t.running
           k == Becomes(v.t1, v.acr.freerun)
           fires == Fires(v.t1)
<1>1. ASSUME NEW c \in {v, w}
      PROVE  T1Stage(c) = IF fires THEN R(c, k) ELSE P(c, k)
  <2>1. c.t1 = v.t1 /\ c.acr.freerun = v.acr.freerun
    OBVIOUS
  <2>2. P(c, c.t1) = c
    <3>1. c \in Chip
      BY DEF Good
    <3> QED BY <3>1 DEF Chip
  <2>3. T1Stage(c) = IF ~c.t1.active THEN c
                     ELSE IF c.t1.reload THEN P(c, Loaded(c.t1))
                     ELSE IF c.t1.counter > 0 THEN P(c, Down(c.t1))
                     ELSE IF ~c.t1.running THEN P(c, Under(c.t1))
                     ELSE R(c, Fired(c.t1, c.acr.freerun))
    BY DEF T1Stage
  <2> HIDE DEF P, R, Under, Fired, Loaded, Down
  <2>4. T1Stage(c) = IF Fires(c.t1) THEN R(c, Becomes(c.t1, c.acr.freerun))
                     ELSE P(c, Becomes(c.t1, c.acr.freerun))
    BY <2>2, <2>3
  <2> HIDE DEF Becomes, Fires
  <2> QED BY <2>1, <2>4
<1> HIDE DEF Becomes, Fires, k, fires
<1>2. ASSUME NEW c, Good(c), NEW r
      PROVE  /\ P(c, r).t1 = r /\ SameRest(c, P(c, r))
             /\ P(c, r).pcr = c.pcr /\ P(c, r).irq = c.irq
             /\ R(c, r).t1 = r
  BY <1>2 DEF Good, Chip, SameRest, SameSr, Raise
<1>3. k \in Timer1
  <2>1. T1Stage(v).t1 = k
    BY <1>1, <1>2
  <2> QED BY <2>1, T1StageGood, Parts
<1>4. ASSUME NEW c, Good(c)
      PROVE  /\ Later(c, P(c, k), {}) /\ Later(c, R(c, k), {"T1"})
             /\ SameRest(c, R(c, k))
  <2>1. Good(P(c, k))
    BY <1>3, <1>4, WriteGood
  <2>2. /\ P(c, k).acr = c.acr /\ P(c, k).pcr = c.pcr /\ P(c, k).irq = c.irq
        /\ P(c, k).t2 = c.t2 /\ P(c, k).sr = c.sr /\ P(c, k).pins = c.pins
    BY <1>2, <1>4 DEF SameRest, SameSr
  <2> HIDE DEF P
  <2>3. Later(c, P(c, k), {})
    BY <1>4, <2>1, <2>2, LaterSame
  <2>4. {"T1"} \in SUBSET Flags
    BY DEF Flags
  <2>5. /\ Later(c, R(c, k), {"T1"})
        /\ R(c, k).t2 = P(c, k).t2 /\ R(c, k).sr = P(c, k).sr
        /\ R(c, k).pins = P(c, k).pins
    BY <1>4, <2>1, <2>2, <2>4, LaterRaise
  <2> HIDE DEF R
  <2>6. SameRest(c, R(c, k))
    BY <2>2, <2>5 DEF SameRest, SameSr, Later
  <2> QED BY <2>3, <2>5, <2>6
<1> HIDE DEF P, R
<1>5. {} \in SUBSET Flags /\ {"T1"} \in SUBSET Flags
  BY DEF Flags
<1>6. CASE fires
  <2>1. T1Stage(v) = R(v, k) /\ T1Stage(w) = R(w, k)
    BY <1>1, <1>6
  <2> QED BY <1>2, <1>4, <1>5, <2>1
<1>7. CASE ~fires
  <2>1. T1Stage(v) = P(v, k) /\ T1Stage(w) = P(w, k)
    BY <1>1, <1>7
  <2> QED BY <1>2, <1>4, <1>5, <2>1
<1> QED BY <1>6, <1>7

\* A stage that is blind to timer 1 commutes with that of timer 1.
LEMMA T1StageCommutes ==
  ASSUME NEW v, Good(v), NEW x, NEW y, Blind(v, x, T1Stage(v), y)
  PROVE  T1Stage(x) = y
<1> DEFINE w == T1Stage(v)
           z == T1Stage(x)
<1>1. PICK E \in SUBSET Flags : Later(v, x, E) /\ Later(w, y, E)
  BY DEF Blind
<1>2. x.t1 = v.t1 /\ y.t1 = w.t1 /\ SameRest(x, y)
  BY DEF Blind
<1>3. Good(x) /\ x.acr = v.acr
  BY <1>1 DEF Later
<1>4. PICK F \in SUBSET Flags : Later(v, w, F) /\ Later(x, z, F)
  BY <1>2, <1>3, T1StageLocal
<1>5. w.t1 = z.t1 /\ SameRest(x, z)
  BY <1>2, <1>3, T1StageLocal
<1> HIDE DEF w, z
<1>6. Later(v, y, F \cup E) /\ Later(v, z, E \cup F)
  BY <1>1, <1>4, LaterTwice
<1>7. E \cup F = F \cup E
  OBVIOUS
<1>8. z.t2 = y.t2 /\ z.sr = y.sr /\ z.pins = y.pins
  BY <1>2, <1>5 DEF SameRest, SameSr
<1>9. z = y
  BY <1>2, <1>5, <1>6, <1>7, <1>8, LaterEqual
<1> QED BY <1>9 DEF z

-----------------------------------------------------------------------------
(* Batches *)

\* The outputs that pulse.
NoPulse(v) == v.pins.ca2_pulse = 0 /\ v.pins.cb2_pulse = 0

\* A pulse ends in the first cycle of a batch; the others have none.
LEMMA PulseEnds ==
  ASSUME NEW v, Good(v)
  PROVE  /\ NoPulse(PulseStage(v))
         /\ NoPulse(v) => PulseStage(v) = v
<1> DEFINE p == [v.pins EXCEPT !.ca2 = @ \/ v.pins.ca2_pulse > 0, !.ca2_pulse = 0,
                               !.cb2 = @ \/ v.pins.cb2_pulse > 0, !.cb2_pulse = 0]
<1>1. v.pins \in Pins
  BY Parts
<1>2. p.ca2_pulse = 0 /\ p.cb2_pulse = 0
  BY <1>1 DEF Pins
<1>3. NoPulse(v) => p = v.pins
  <2> HAVE NoPulse(v)
  <2>1. (v.pins.ca2 \/ v.pins.ca2_pulse > 0) = v.pins.ca2
        /\ (v.pins.cb2 \/ v.pins.cb2_pulse > 0) = v.pins.cb2
    BY <1>1 DEF NoPulse, Pins
  <2> QED BY <1>1, <2>1 DEF NoPulse, Pins
<1>4. PulseStage(v) = [v EXCEPT !.pins = p]
  BY DEF PulseStage
<1> HIDE DEF p
<1>5. PulseStage(v).pins = p /\ [v EXCEPT !.pins = v.pins] = v
  BY <1>4 DEF Good, Chip
<1> QED BY <1>2, <1>3, <1>4, <1>5 DEF NoPulse

\* The stages of a cycle, as far as their order goes.
LEMMA StagesCommute ==
  ASSUME NEW v, Good(v)
  PROVE  /\ Good(T1Stage(v)) /\ Good(T2Cycle(v)) /\ Good(SrPhi2Stage(v))
         /\ T1Stage(T2Cycle(v)) = T2Cycle(T1Stage(v))
         /\ T1Stage(SrPhi2Stage(v)) = SrPhi2Stage(T1Stage(v))
         /\ T2Cycle(SrPhi2Stage(v)) = SrPhi2Stage(T2Cycle(v))
         /\ NoPulse(v) => /\ NoPulse(T1Stage(v)) /\ NoPulse(T2Cycle(v))
                          /\ NoPulse(SrPhi2Stage(v))
<1>1. Good(T1Stage(v)) /\ Good(T2Cycle(v)) /\ Good(SrPhi2Stage(v))
  BY T1StageGood, SrT2StageGood, T2StageGood, SrPhi2StageGood DEF T2Cycle
<1>2. SameRest(v, T1Stage(v))
  BY T1StageLocal
<1>3. /\ Blind(v, T2Cycle(v), T1Stage(v), T2Cycle(T1Stage(v)))
      /\ Blind(v, SrPhi2Stage(v), T1Stage(v), SrPhi2Stage(T1Stage(v)))
  BY <1>1, <1>2, StagesBlind
<1>4. /\ T1Stage(T2Cycle(v)) = T2Cycle(T1Stage(v))
      /\ T1Stage(SrPhi2Stage(v)) = SrPhi2Stage(T1Stage(v))
  BY <1>3, T1StageCommutes
<1>5. NoPulse(v) => /\ NoPulse(T1Stage(v)) /\ NoPulse(T2Cycle(v))
                    /\ NoPulse(SrPhi2Stage(v))
  BY <1>2, <1>3 DEF Blind, SamePulses, SameRest, SameSr, NoPulse
<1> QED BY <1>1, <1>4, <1>5, T2CycleCommutes

\* Two and three turns of the loops of via_update.
LEMMA TimesT1 ==
  ASSUME NEW v
  PROVE  /\ Times(T1Stage, 2, v) = T1Stage(T1Stage(v))
         /\ Times(T1Stage, 3, v) = T1Stage(T1Stage(T1Stage(v)))
<1> DEFINE F(c) == T1Stage(c)
           Go(n, g) == g = [k \in 0 .. n |-> IF k = 0 THEN v ELSE T1Stage(g[k - 1])]
           go(n) == CHOOSE g : Go(n, g)
<1>1. ASSUME NEW n \in 2 .. 3
      PROVE  go(n)[n] = IF n = 2 THEN F(F(v)) ELSE F(F(F(v)))
  <2> DEFINE f == [k \in 0 .. n |-> IF k = 0 THEN v ELSE IF k = 1 THEN F(v)
                                   ELSE IF k = 2 THEN F(F(v)) ELSE F(F(F(v)))]
  <2>1. Go(n, f)
    <3>1. \A k \in 0 .. n : f[k] = IF k = 0 THEN v ELSE F(f[k - 1])
      OBVIOUS
    <3>2. f = [k \in 0 .. n |-> f[k]]
      OBVIOUS
    <3> HIDE DEF f
    <3> QED BY <3>1, <3>2
  <2>2. Go(n, go(n))
    BY <2>1
  <2> HIDE DEF go
  <2>3. \A k \in 0 .. n : go(n)[k] = IF k = 0 THEN v ELSE F(go(n)[k - 1])
    BY <2>2
  <2>4. /\ go(n)[0] = v /\ go(n)[1] = F(go(n)[0]) /\ go(n)[2] = F(go(n)[1])
        /\ n = 3 => go(n)[3] = F(go(n)[2])
    BY <2>3
  <2> QED BY <2>4
<1> HIDE DEF go
<1>2. go(2)[2] = F(F(v)) /\ go(3)[3] = F(F(F(v)))
  BY <1>1
<1> QED BY <1>2 DEF Times, go

LEMMA TimesT2 ==
  ASSUME NEW v
  PROVE  /\ Times(T2Cycle, 2, v) = T2Cycle(T2Cycle(v))
         /\ Times(T2Cycle, 3, v) = T2Cycle(T2Cycle(T2Cycle(v)))
<1> DEFINE F(c) == T2Cycle(c)
           Go(n, g) == g = [k \in 0 .. n |-> IF k = 0 THEN v ELSE T2Cycle(g[k - 1])]
           go(n) == CHOOSE g : Go(n, g)
<1>1. ASSUME NEW n \in 2 .. 3
      PROVE  go(n)[n] = IF n = 2 THEN F(F(v)) ELSE F(F(F(v)))
  <2> DEFINE f == [k \in 0 .. n |-> IF k = 0 THEN v ELSE IF k = 1 THEN F(v)
                                   ELSE IF k = 2 THEN F(F(v)) ELSE F(F(F(v)))]
  <2>1. Go(n, f)
    <3>1. \A k \in 0 .. n : f[k] = IF k = 0 THEN v ELSE F(f[k - 1])
      OBVIOUS
    <3>2. f = [k \in 0 .. n |-> f[k]]
      OBVIOUS
    <3> HIDE DEF f
    <3> QED BY <3>1, <3>2
  <2>2. Go(n, go(n))
    BY <2>1
  <2> HIDE DEF go
  <2>3. \A k \in 0 .. n : go(n)[k] = IF k = 0 THEN v ELSE F(go(n)[k - 1])
    BY <2>2
  <2>4. /\ go(n)[0] = v /\ go(n)[1] = F(go(n)[0]) /\ go(n)[2] = F(go(n)[1])
        /\ n = 3 => go(n)[3] = F(go(n)[2])
    BY <2>3
  <2> QED BY <2>4
<1> HIDE DEF go
<1>2. go(2)[2] = F(F(v)) /\ go(3)[3] = F(F(F(v)))
  BY <1>1
<1> QED BY <1>2 DEF Times, go

LEMMA TimesSr ==
  ASSUME NEW v
  PROVE  /\ Times(SrPhi2Stage, 2, v) = SrPhi2Stage(SrPhi2Stage(v))
         /\ Times(SrPhi2Stage, 3, v) = SrPhi2Stage(SrPhi2Stage(SrPhi2Stage(v)))
<1> DEFINE F(c) == SrPhi2Stage(c)
           Go(n, g) == g = [k \in 0 .. n |-> IF k = 0 THEN v ELSE SrPhi2Stage(g[k - 1])]
           go(n) == CHOOSE g : Go(n, g)
<1>1. ASSUME NEW n \in 2 .. 3
      PROVE  go(n)[n] = IF n = 2 THEN F(F(v)) ELSE F(F(F(v)))
  <2> DEFINE f == [k \in 0 .. n |-> IF k = 0 THEN v ELSE IF k = 1 THEN F(v)
                                   ELSE IF k = 2 THEN F(F(v)) ELSE F(F(F(v)))]
  <2>1. Go(n, f)
    <3>1. \A k \in 0 .. n : f[k] = IF k = 0 THEN v ELSE F(f[k - 1])
      OBVIOUS
    <3>2. f = [k \in 0 .. n |-> f[k]]
      OBVIOUS
    <3> HIDE DEF f
    <3> QED BY <3>1, <3>2
  <2>2. Go(n, go(n))
    BY <2>1
  <2> HIDE DEF go
  <2>3. \A k \in 0 .. n : go(n)[k] = IF k = 0 THEN v ELSE F(go(n)[k - 1])
    BY <2>2
  <2>4. /\ go(n)[0] = v /\ go(n)[1] = F(go(n)[0]) /\ go(n)[2] = F(go(n)[1])
        /\ n = 3 => go(n)[3] = F(go(n)[2])
    BY <2>3
  <2> QED BY <2>4
<1> HIDE DEF go
<1>2. go(2)[2] = F(F(v)) /\ go(3)[3] = F(F(F(v)))
  BY <1>1
<1> QED BY <1>2 DEF Times, go

\* Two and three full steps.
LEMMA TimesStep ==
  ASSUME NEW v
  PROVE  /\ Times(via_step, 2, v) = via_step(via_step(v))
         /\ Times(via_step, 3, v) = via_step(via_step(via_step(v)))
<1> DEFINE F(c) == via_step(c)
           Go(n, g) == g = [k \in 0 .. n |-> IF k = 0 THEN v ELSE via_step(g[k - 1])]
           go(n) == CHOOSE g : Go(n, g)
<1>1. ASSUME NEW n \in 2 .. 3
      PROVE  go(n)[n] = IF n = 2 THEN F(F(v)) ELSE F(F(F(v)))
  <2> DEFINE f == [k \in 0 .. n |-> IF k = 0 THEN v ELSE IF k = 1 THEN F(v)
                                   ELSE IF k = 2 THEN F(F(v)) ELSE F(F(F(v)))]
  <2>1. Go(n, f)
    <3>1. \A k \in 0 .. n : f[k] = IF k = 0 THEN v ELSE F(f[k - 1])
      OBVIOUS
    <3>2. f = [k \in 0 .. n |-> f[k]]
      OBVIOUS
    <3> HIDE DEF f
    <3> QED BY <3>1, <3>2
  <2>2. Go(n, go(n))
    BY <2>1
  <2> HIDE DEF go
  <2>3. \A k \in 0 .. n : go(n)[k] = IF k = 0 THEN v ELSE F(go(n)[k - 1])
    BY <2>2
  <2>4. /\ go(n)[0] = v /\ go(n)[1] = F(go(n)[0]) /\ go(n)[2] = F(go(n)[1])
        /\ n = 3 => go(n)[3] = F(go(n)[2])
    BY <2>3
  <2> QED BY <2>4
<1> HIDE DEF go
<1>2. go(2)[2] = F(F(v)) /\ go(3)[3] = F(F(F(v)))
  BY <1>1
<1> QED BY <1>2 DEF Times, go

\* Two and three steps in the order of the cycles are two and three turns of
\* each loop.
LEMMA BatchGood ==
  ASSUME NEW v, Good(v)
  PROVE  LET u == PulseStage(v)
             T(c) == T1Stage(c)
             C(c) == T2Cycle(c)
             H(c) == SrPhi2Stage(c)
             S(c) == via_step(c)
         IN /\ S(S(v)) = H(H(C(C(T(T(u))))))
            /\ S(S(S(v))) = H(H(H(C(C(C(T(T(T(u)))))))))
<1> DEFINE u == PulseStage(v)
           T(c) == T1Stage(c)
           C(c) == T2Cycle(c)
           H(c) == SrPhi2Stage(c)
           S(c) == via_step(c)
           Ok(c) == Good(c) /\ NoPulse(c)
<1>1. Ok(u)
  BY PulseStageGood, PulseEnds
<1>2. S(v) = H(C(T(u)))
  BY DEF via_step, T2Cycle
<1>3. ASSUME NEW c, Ok(c)
      PROVE  /\ Ok(T(c)) /\ Ok(C(c)) /\ Ok(H(c))
             /\ T(C(c)) = C(T(c)) /\ T(H(c)) = H(T(c)) /\ C(H(c)) = H(C(c))
             /\ S(c) = H(C(T(c)))
  <2>1. PulseStage(c) = c
    BY <1>3, PulseEnds
  <2> QED BY <1>3, <2>1, StagesCommute DEF via_step, T2Cycle
<1> HIDE DEF u, T, C, H, S, Ok
<1>4. Ok(T(u)) /\ Ok(C(T(u))) /\ Ok(T(T(u))) /\ Ok(C(T(T(u))))
      /\ Ok(C(C(T(T(u))))) /\ Ok(H(C(C(T(T(u))))))
  BY <1>1, <1>3
<1>5. S(S(v)) = H(H(C(C(T(T(u))))))
  <2>1. S(S(v)) = H(C(T(H(C(T(u))))))
    BY <1>2, <1>3, <1>4
  <2>2. T(H(C(T(u)))) = H(C(T(T(u))))
    BY <1>3, <1>4
  <2>3. C(H(C(T(T(u))))) = H(C(C(T(T(u)))))
    BY <1>3, <1>4
  <2> QED BY <2>1, <2>2, <2>3
<1>6. S(S(S(v))) = H(H(H(C(C(C(T(T(T(u)))))))))
  <2> DEFINE x == C(C(T(T(u))))
  <2>1. Ok(x) /\ Ok(H(x)) /\ Ok(H(H(x)))
    BY <1>3, <1>4
  <2>2. S(S(S(v))) = H(C(T(H(H(x)))))
    BY <1>3, <1>5, <2>1
  <2>3. T(x) = C(C(T(T(T(u)))))
    BY <1>3, <1>4
  <2>4. T(H(H(x))) = H(H(T(x)))
    BY <1>3, <2>1
  <2>5. C(H(H(T(x)))) = H(H(C(T(x))))
    BY <1>3, <2>1
  <2> QED BY <2>2, <2>3, <2>4, <2>5
<1> QED BY <1>5, <1>6 DEF u, T, C, H, S

\* A batch of the historical core is as good as its cycles one by one, for
\* every width of the chip, every program and every state it can reach: no
\* order of the loops over timer 1, timer 2 and the shift register shows.
THEOREM BatchExact == Spec => []BatchIsExact
<1>1. LazyInv => BatchIsExact
  <2> SUFFICES ASSUME LazyInv PROVE BatchIsExact
    OBVIOUS
  <2>1. Good(via)
    BY DEF LazyInv, TypeOK, Good
  <2> DEFINE u == PulseStage(via)
             T(n, c) == Times(T1Stage, n, c)
             C(n, c) == Times(T2Cycle, n, c)
             H(n, c) == Times(SrPhi2Stage, n, c)
             S(n, c) == Times(via_step, n, c)
  <2>2. ASSUME NEW c
        PROVE  /\ T(2, c) = T1Stage(T1Stage(c))
               /\ T(3, c) = T1Stage(T1Stage(T1Stage(c)))
    BY TimesT1
  <2>3. ASSUME NEW c
        PROVE  /\ C(2, c) = T2Cycle(T2Cycle(c))
               /\ C(3, c) = T2Cycle(T2Cycle(T2Cycle(c)))
    BY TimesT2
  <2>4. ASSUME NEW c
        PROVE  /\ H(2, c) = SrPhi2Stage(SrPhi2Stage(c))
               /\ H(3, c) = SrPhi2Stage(SrPhi2Stage(SrPhi2Stage(c)))
    BY TimesSr
  <2>5. ASSUME NEW c
        PROVE  /\ S(2, c) = via_step(via_step(c))
               /\ S(3, c) = via_step(via_step(via_step(c)))
    BY TimesStep
  <2>6. BatchIsExact = \A n \in 2 .. 3 : H(n, C(n, T(n, u))) = S(n, via)
    BY DEF BatchIsExact, via_update
  <2> HIDE DEF T, C, H, S
  <2>7. H(2, C(2, T(2, u))) = S(2, via) /\ H(3, C(3, T(3, u))) = S(3, via)
    BY <2>1, <2>2, <2>3, <2>4, <2>5, BatchGood
  <2>8. \A n \in 2 .. 3 : H(n, C(n, T(n, u))) = S(n, via)
    <3>1. \A n \in 2 .. 3 : n = 2 \/ n = 3
      OBVIOUS
    <3> QED BY <2>7, <3>1
  <2> QED BY <2>6, <2>8
<1> QED
  BY <1>1, LazyInvariance, PTL

-----------------------------------------------------------------------------
(* A byte is shifted out bit by bit *)

\* The bits b after k rotations.
Turned(b, k) == [i \in 1 .. SrBits |-> IF i + k <= SrBits THEN b[i + k] ELSE b[i + k - SrBits]]

\* The last k levels l of CB2 were the first k bits of b.
Shown(l, b, k) == \A i \in 1 .. SrBits : i > SrBits - k => l[i] = {b[i + k - SrBits]}

\* A sequence under way has done k shifts: CB1 counts whole shifts, the other
\* clocks half-periods, of which the even ones shift.
Place(v, k) ==
  IF v.acr.mode = "out_cb1"
  THEN v.sr.t2_pending = 0 /\ v.sr.count = k /\ k < SrBits
  ELSE v.acr.mode \in HalfPeriodModes /\ (v.sr.count = 2 * k \/ v.sr.count = 2 * k - 1)
Reached(v, log, k) == Place(v, k) /\ v.sr.bits = Turned(log.byte, k) /\ Shown(log.line, log.byte, k)
ShiftInv ==
  srlog.whole /\ Synced.sr.active => \E k \in 0 .. SrBits : Reached(Synced, srlog, k)

\* No rotation, one more, and all of them.
LEMMA Turning ==
  ASSUME NEW b \in [1 .. SrBits -> BOOLEAN], NEW k \in 0 .. SrBits
  PROVE  /\ Turned(b, 0) = b /\ Turned(b, SrBits) = b
         /\ k < SrBits => ShiftLeft(Turned(b, k), Turned(b, k)[1]) = Turned(b, k + 1)
<1> USE SrBitsAssumption
<1>1. Turned(b, 0) = b
  BY DEF Turned
<1>2. Turned(b, SrBits) = b
  <2>1. \A i \in 1 .. SrBits : ~(i + SrBits <= SrBits) /\ i + SrBits - SrBits = i
    OBVIOUS
  <2>2. Turned(b, SrBits) = [i \in 1 .. SrBits |-> b[i]]
    BY <2>1 DEF Turned
  <2> QED BY <2>2
<1>3. ASSUME k < SrBits
      PROVE  ShiftLeft(Turned(b, k), Turned(b, k)[1]) = Turned(b, k + 1)
  <2>1. Turned(b, k)[1] = b[k + 1]
    BY <1>3 DEF Turned
  <2>2. ASSUME NEW i \in 1 .. SrBits
        PROVE  (IF i < SrBits THEN Turned(b, k)[i + 1] ELSE b[k + 1]) = Turned(b, k + 1)[i]
    <3>1. CASE i < SrBits
      <4>1. /\ i + 1 \in 1 .. SrBits /\ (i + 1) + k = i + (k + 1)
            /\ (i + 1) + k - SrBits = i + (k + 1) - SrBits
        BY <3>1
      <4> QED BY <3>1, <4>1 DEF Turned
    <3>2. CASE i = SrBits
      <4>1. ~(i + (k + 1) <= SrBits) /\ i + (k + 1) - SrBits = k + 1
        BY <3>2
      <4> QED BY <3>2, <4>1 DEF Turned
    <3> QED BY <3>1, <3>2
  <2> QED BY <2>1, <2>2 DEF ShiftLeft, Turned
<1> QED BY <1>1, <1>2, <1>3


\* The levels of CB2 after one more shift, and after all of them.
LEMMA Showing ==
  ASSUME NEW b \in [1 .. SrBits -> BOOLEAN], NEW k \in 0 .. SrBits,
         NEW log \in ShiftLog, Shown(log.line, b, k)
  PROVE  /\ k = SrBits => log.line = [i \in 1 .. SrBits |-> {b[i]}]
         /\ Shown(log.line, b, 0)
         /\ \A w : Good(w) /\ k < SrBits /\ w.pins.cb2 = b[k + 1]
                    => Shown(Put(log, w).line, b, k + 1)
<1> USE SrBitsAssumption
<1>1. ASSUME k = SrBits PROVE log.line = [i \in 1 .. SrBits |-> {b[i]}]
  <2>1. \A i \in 1 .. SrBits : i > SrBits - k /\ i + k - SrBits = i
    BY <1>1
  <2>2. \A i \in 1 .. SrBits : log.line[i] = {b[i]}
    BY <2>1 DEF Shown
  <2>3. log.line = [i \in 1 .. SrBits |-> log.line[i]]
    BY DEF ShiftLog
  <2> QED BY <2>2, <2>3
<1>2. Shown(log.line, b, 0)
  BY DEF Shown
<1>3. ASSUME NEW w, Good(w), k < SrBits, w.pins.cb2 = b[k + 1]
      PROVE  Shown(Put(log, w).line, b, k + 1)
  <2> DEFINE l == Put(log, w).line
  <2>1. l = [i \in 1 .. SrBits |-> IF i < SrBits THEN log.line[i + 1] ELSE {b[k + 1]}]
    <3>1. l = [i \in 1 .. SrBits |-> IF i < SrBits THEN log.line[i + 1] ELSE {w.pins.cb2}]
      BY <1>3, PutTyped
    <3> QED BY <1>3, <3>1
  <2> HIDE DEF l
  <2>2. ASSUME NEW i \in 1 .. SrBits, i > SrBits - (k + 1)
        PROVE  l[i] = {b[i + (k + 1) - SrBits]}
    <3>1. CASE i < SrBits
      <4>1. /\ i + 1 \in 1 .. SrBits /\ i + 1 > SrBits - k
            /\ (i + 1) + k - SrBits = i + (k + 1) - SrBits
        BY <2>2, <3>1
      <4>2. log.line[i + 1] = {b[(i + 1) + k - SrBits]}
        BY <4>1 DEF Shown
      <4> QED BY <2>1, <3>1, <4>1, <4>2
    <3>2. CASE i = SrBits
      <4>1. i + (k + 1) - SrBits = k + 1 /\ ~(i < SrBits)
        BY <3>2
      <4> QED BY <2>1, <4>1
    <3> QED BY <3>1, <3>2
  <2> QED BY <2>2 DEF Shown, l
<1> QED BY <1>1, <1>2, <1>3

\* One shift out, and one count.
LEMMA ShiftedOut ==
  ASSUME NEW v, Good(v), v.acr.mode \in OutModes
  PROVE  /\ Good(Shifted(v)) /\ Shifted(v).acr = v.acr
         /\ Shifted(v).sr.bits = ShiftLeft(v.sr.bits, v.sr.bits[1])
         /\ Shifted(v).sr.active = v.sr.active /\ Shifted(v).sr.count = v.sr.count
         /\ Shifted(v).sr.t2_pending = v.sr.t2_pending
         /\ Shifted(v).pins.cb2 = v.sr.bits[1]
<1>1. v.sr \in ShiftReg
  BY Parts
<1>2. Shifted(v).acr = v.acr
      /\ Shifted(v).sr = [v.sr EXCEPT !.bits = ShiftLeft(v.sr.bits, v.sr.bits[1])]
  BY DEF Shifted, Good, Chip
<1>3. Shifted(v).pins = [v.pins EXCEPT !.cb2 = v.sr.bits[1]] /\ v.pins \in Pins
  BY Parts DEF Shifted, Good, Chip
<1>4. Shifted(v).pins.cb2 = v.sr.bits[1]
  BY <1>3 DEF Pins
<1> QED BY <1>1, <1>2, <1>4, ShiftedGood DEF ShiftReg

\* A count, or the last one.
LEMMA CountedOut ==
  ASSUME NEW v, Good(v), NEW n \in 1 .. 2 * SrBits
  PROVE  LET w == Counted(v, n)
         IN /\ w.acr = v.acr /\ w.sr.bits = v.sr.bits /\ w.sr.t2_pending = v.sr.t2_pending
            /\ w.pins = v.pins
            /\ v.sr.count + 1 < n => w.sr.count = v.sr.count + 1 /\ w.sr.active = v.sr.active
            /\ ~(v.sr.count + 1 < n)
                 => w.sr.count = 0 /\ w.sr.active = (v.sr.active /\ v.acr.mode = "free")
<1> DEFINE up == [v.sr EXCEPT !.count = @ + 1]
           zero == [v.sr EXCEPT !.count = 0]
           stop == [v.sr EXCEPT !.count = 0, !.active = FALSE]
<1>1. v.sr \in ShiftReg /\ v.sr.active \in BOOLEAN
  BY Parts DEF ShiftReg
<1>2. /\ up.bits = v.sr.bits /\ up.t2_pending = v.sr.t2_pending
      /\ up.count = v.sr.count + 1 /\ up.active = v.sr.active
      /\ zero.bits = v.sr.bits /\ zero.t2_pending = v.sr.t2_pending
      /\ zero.count = 0 /\ zero.active = v.sr.active
      /\ stop.bits = v.sr.bits /\ stop.t2_pending = v.sr.t2_pending /\ stop.active = FALSE
      /\ stop.count = 0
  BY <1>1 DEF ShiftReg
<1>3. Counted(v, n) = IF v.sr.count + 1 < n THEN [v EXCEPT !.sr = up]
                      ELSE IF v.acr.mode = "free" THEN [v EXCEPT !.sr = zero]
                      ELSE Raise([v EXCEPT !.sr = stop], {"SR"})
  BY DEF Counted
<1> HIDE DEF up, zero, stop
<1>4. /\ \A x : [v EXCEPT !.sr = x].acr = v.acr /\ [v EXCEPT !.sr = x].sr = x
                /\ [v EXCEPT !.sr = x].pins = v.pins
      /\ Raise([v EXCEPT !.sr = stop], {"SR"}).acr = v.acr
      /\ Raise([v EXCEPT !.sr = stop], {"SR"}).sr = stop
      /\ Raise([v EXCEPT !.sr = stop], {"SR"}).pins = v.pins
  BY DEF Good, Chip, Raise
<1>5. CASE v.sr.count + 1 < n
  BY <1>2, <1>3, <1>4, <1>5
<1>6. CASE ~(v.sr.count + 1 < n) /\ v.acr.mode = "free"
  BY <1>1, <1>2, <1>3, <1>4, <1>6
<1>7. CASE ~(v.sr.count + 1 < n) /\ v.acr.mode # "free"
  BY <1>1, <1>2, <1>3, <1>4, <1>7
<1> QED BY <1>5, <1>6, <1>7

\* The same place in a sequence, on the same pin.
SameFlow(v, w) ==
  /\ w.acr = v.acr /\ w.sr.bits = v.sr.bits /\ w.sr.active = v.sr.active
  /\ w.sr.count = v.sr.count
Alike(v, w) == SameFlow(v, w) /\ w.pins.cb2 = v.pins.cb2

\* What a half-period of the chip's own clock does with a sequence.
Held(v) == v.acr.mode = "off" \/ ~v.sr.active
Pulls(v, w) ==
  /\ w.acr = v.acr /\ w.sr.active /\ w.sr.count = v.sr.count + 1
  /\ w.sr.bits = ShiftLeft(v.sr.bits, v.sr.bits[1]) /\ w.pins.cb2 = v.sr.bits[1]
Rests(v, w) ==
  /\ w.acr = v.acr /\ w.sr.bits = v.sr.bits /\ w.pins.cb2 = v.pins.cb2
  /\ v.sr.count + 1 < 2 * SrBits => w.sr.count = v.sr.count + 1 /\ w.sr.active
  /\ ~(v.sr.count + 1 < 2 * SrBits) => w.sr.count = 0 /\ w.sr.active = (v.acr.mode = "free")
Half(v, w) ==
  /\ Held(v) => Alike(v, w)
  /\ ~Held(v) /\ v.sr.count % 2 = 0 => Pulls(v, w)
  /\ ~Held(v) /\ v.sr.count % 2 # 0 => Rests(v, w)

LEMMA EventHalf ==
  ASSUME NEW v, Good(v)
  PROVE  LET w == via_sr_event(v)
         IN /\ Good(w) /\ w.acr = v.acr /\ w.sr.t2_pending = v.sr.t2_pending
            /\ ~v.sr.active => w = v
            /\ v.acr.mode \in HalfPeriodModes => Half(v, w)
<1> USE SrBitsAssumption
<1> DEFINE w == via_sr_event(v)
<1>0. v.sr \in ShiftReg /\ v.sr.count \in 0 .. 2 * SrBits - 1 /\ v.sr.active \in BOOLEAN
  BY Parts DEF ShiftReg
<1>1. SameShift(v, v)
  BY DEF SameShift
<1>2. w.acr = v.acr /\ w.sr.t2_pending = v.sr.t2_pending /\ Good(w)
  BY <1>1, EventAlike, SrEventGood DEF Later, Keeps
<1>3. Held(v) => w = v
  BY DEF via_sr_event, Held
<1>4. ASSUME v.acr.mode \in HalfPeriodModes, Held(v) PROVE Half(v, w)
  BY <1>3, <1>4 DEF Half, Alike, SameFlow
<1>5. ASSUME v.acr.mode \in HalfPeriodModes, ~Held(v) PROVE Half(v, w)
  <2>1. v.acr.mode \in OutModes /\ v.sr.active /\ v.acr.mode # "off"
    BY <1>5 DEF HalfPeriodModes, OutModes, Held
  <2> DEFINE u == IF v.sr.count % 2 = 0 THEN Shifted(v) ELSE v
  <2>2. w = Counted(u, 2 * SrBits)
    BY <2>1 DEF via_sr_event
  <2>3. /\ Good(u) /\ u.acr = v.acr /\ u.sr.count = v.sr.count /\ u.sr.active = v.sr.active
        /\ v.sr.count % 2 = 0 => u.sr.bits = ShiftLeft(v.sr.bits, v.sr.bits[1])
                                 /\ u.pins.cb2 = v.sr.bits[1]
        /\ v.sr.count % 2 # 0 => u.sr.bits = v.sr.bits /\ u.pins.cb2 = v.pins.cb2
    BY <2>1, ShiftedOut
  <2> HIDE DEF u
  <2>4. 2 * SrBits \in 1 .. 2 * SrBits
    OBVIOUS
  <2>5. /\ w.sr.bits = u.sr.bits /\ w.pins = u.pins
        /\ v.sr.count + 1 < 2 * SrBits => w.sr.count = v.sr.count + 1 /\ w.sr.active = v.sr.active
        /\ ~(v.sr.count + 1 < 2 * SrBits)
             => w.sr.count = 0 /\ w.sr.active = (v.sr.active /\ v.acr.mode = "free")
    BY <2>2, <2>3, <2>4, CountedOut
  <2>6. v.sr.count % 2 = 0 => v.sr.count + 1 < 2 * SrBits
    BY <1>0
  <2> HIDE DEF w
  <2>7. CASE v.sr.count % 2 = 0
    BY <1>2, <1>5, <2>1, <2>3, <2>5, <2>6, <2>7 DEF Half, Pulls, w
  <2>8. CASE v.sr.count % 2 # 0
    BY <1>2, <1>5, <2>1, <2>3, <2>5, <2>8 DEF Half, Rests, w
  <2> QED BY <2>7, <2>8
<1> QED BY <1>2, <1>3, <1>4, <1>5 DEF Held

\* In a cycle, timer 2 may deliver a half-period that was due, and phi2 one of
\* its own; nothing else moves a sequence.
Beats(v, w, x, y) ==
  /\ Good(x) /\ SameFlow(v, x) /\ Good(y) /\ y.acr = v.acr
  /\ Alike(x, y) \/ (v.sr.t2_pending # 0 /\ Alike(via_sr_event(x), y))
  /\ Alike(y, w) \/ (v.acr.mode \in Phi2Modes /\ Alike(via_sr_event(y), w))

LEMMA StepBeats ==
  ASSUME NEW v, Good(v)
  PROVE  /\ \E x, y : Beats(v, via_step(v), x, y)
         /\ via_step(v).acr = v.acr
         /\ v.acr.mode = "out_cb1" /\ v.sr.t2_pending = 0 => via_step(v).sr.t2_pending = 0
<1> DEFINE p == PulseStage(v)
           q == T1Stage(p)
           r == SrT2Stage(q)
           t == T2Stage(r)
           u == SrPhi2Stage(t)
<1>1. Good(p) /\ p.sr = v.sr /\ p.acr = v.acr
  BY PulseStageGood DEF PulseStage, Good, Chip
<1>2. Good(q) /\ q.sr = v.sr /\ q.acr = v.acr
  <2> HIDE DEF p
  <2>1. Good(q) /\ SameRest(p, q)
    BY <1>1, T1StageLocal, T1StageGood
  <2> QED BY <1>1, <2>1 DEF SameRest, SameSr
<1>3. /\ Good(r) /\ r.acr = v.acr
      /\ v.sr.t2_pending = 0 => r = q
      /\ \E x : Good(x) /\ SameFlow(v, x)
                /\ (r = x \/ (v.sr.t2_pending # 0 /\ r = via_sr_event(x)))
  <2> HIDE DEF q
  <2>1. q.sr.t2_pending \in 0 .. 2 /\ q.sr.delay \in 0 .. 3 /\ Good(r)
    BY <1>2, SrT2StageGood, SrT2StageCases
  <2>2. \A d \in 0 .. 3, n \in 0 .. 2 :
          Good(Due(q, d, n)) /\ Due(q, d, n).acr = q.acr /\ SameFlow(v, Due(q, d, n))
    BY <1>2, DueKeeps DEF Later, SameShift, SameFlow
  <2>3. CASE q.sr.t2_pending = 0
    <3>1. r = q
      BY <1>2, <2>3, SrT2StageCases
    <3>2. Good(q) /\ SameFlow(v, q)
      BY <1>2 DEF SameFlow
    <3> HIDE DEF r
    <3> QED BY <1>2, <3>1, <3>2
  <2>4. CASE q.sr.t2_pending = 1
    <3>1. r = via_sr_event(Due(q, q.sr.delay, 0)) /\ v.sr.t2_pending # 0
      BY <1>2, <2>4, SrT2StageCases
    <3>2. 0 \in 0 .. 2
      OBVIOUS
    <3>3. r.acr = Due(q, q.sr.delay, 0).acr
      BY <2>1, <2>2, <3>1, <3>2, EventHalf
    <3> HIDE DEF r
    <3> QED BY <1>2, <2>1, <2>2, <3>1, <3>2, <3>3
  <2>5. CASE q.sr.t2_pending = 2
    <3>1. r = Due(q, q.sr.delay, 1) /\ v.sr.t2_pending # 0 /\ 1 \in 0 .. 2
      BY <1>2, <2>5, SrT2StageCases
    <3> HIDE DEF r
    <3> QED BY <1>2, <2>1, <2>2, <3>1
  <2> QED BY <2>1, <2>3, <2>4, <2>5
<1>4. /\ Good(t) /\ t.acr = r.acr /\ Alike(r, t)
      /\ r.acr.mode = "out_cb1" => t.sr.t2_pending = r.sr.t2_pending
  <2> HIDE DEF r
  <2>1. PICK n \in Timer2, k \in 0 .. 2, fires \in BOOLEAN :
          /\ via_t2_8bit(r) \/ k = r.sr.t2_pending
          /\ t = IF fires THEN Raise(PutT2(r, n, k), {"T2"}) ELSE PutT2(r, n, k)
    <3>1. \E n \in Timer2, k \in 0 .. 2, fires \in BOOLEAN :
            /\ via_t2_8bit(r) \/ k = r.sr.t2_pending
            /\ \A c \in {r, r} :
                 T2Stage(c) = IF fires THEN Raise(PutT2(c, n, k), {"T2"}) ELSE PutT2(c, n, k)
      BY <1>3, T2StageForm
    <3> QED BY <3>1
  <2>2. t.sr = Pend(r.sr, k) /\ t.acr = r.acr /\ t.pins = r.pins /\ Good(t)
    <3>1. /\ Later(r, PutT2(r, n, k), {}) /\ Later(r, Raise(PutT2(r, n, k), {"T2"}), {"T2"})
          /\ PutT2(r, n, k).sr = Pend(r.sr, k) /\ PutT2(r, n, k).pins = r.pins
          /\ Raise(PutT2(r, n, k), {"T2"}).sr = Pend(r.sr, k)
          /\ Raise(PutT2(r, n, k), {"T2"}).pins = r.pins
      BY <1>3, PutT2Keeps
    <3> QED BY <2>1, <3>1 DEF Later
  <2>3. /\ t.sr.bits = r.sr.bits /\ t.sr.active = r.sr.active /\ t.sr.count = r.sr.count
        /\ t.sr.t2_pending = k
    BY <1>3, <2>2, Parts DEF Pend, ShiftReg
  <2>4. r.acr.mode = "out_cb1" => k = r.sr.t2_pending
    BY <2>1 DEF via_t2_8bit
  <2> HIDE DEF t
  <2> QED BY <2>2, <2>3, <2>4 DEF Alike, SameFlow
<1>5. /\ u.acr = t.acr
      /\ t.acr.mode = "out_cb1" => u = t
      /\ Alike(t, u) \/ (t.acr.mode \in Phi2Modes /\ u = via_sr_event(t))
  <2> HIDE DEF t
  <2>1. CASE t.acr.mode \notin Phi2Modes
    <3>1. u = t
      BY <1>4, <2>1, SrPhi2StageCases
    <3> QED BY <3>1 DEF Alike, SameFlow
  <2>2. CASE t.acr.mode \in Phi2Modes /\ t.sr.delay # 0
    <3>1. u = Due(t, t.sr.delay - 1, t.sr.t2_pending) /\ t.sr.delay - 1 \in 0 .. 3
      BY <1>4, <2>2, SrPhi2StageCases
    <3>2. SameShift(t, u) /\ Later(t, u, {})
      BY <1>4, <3>1, DueKeeps, SrT2StageCases
    <3>3. t.acr.mode # "out_cb1"
      BY <2>2 DEF Phi2Modes
    <3> QED BY <3>2, <3>3 DEF SameShift, Alike, SameFlow
  <2>3. CASE t.acr.mode \in Phi2Modes /\ t.sr.delay = 0
    <3>1. u = via_sr_event(t) /\ t.acr.mode # "out_cb1"
      BY <1>4, <2>3, SrPhi2StageCases DEF Phi2Modes
    <3>2. u.acr = t.acr
      BY <1>4, <3>1, EventHalf
    <3> QED BY <2>3, <3>1, <3>2
  <2> QED BY <2>1, <2>2, <2>3
<1>6. via_step(v) = u
  BY DEF via_step
<1> HIDE DEF p, q, r, t, u
<1>7. PICK x : Good(x) /\ SameFlow(v, x) /\ (r = x \/ (v.sr.t2_pending # 0 /\ r = via_sr_event(x)))
  BY <1>3
<1>8. Alike(x, t) \/ (v.sr.t2_pending # 0 /\ Alike(via_sr_event(x), t))
  BY <1>4, <1>7
<1>9. Alike(t, u) \/ (v.acr.mode \in Phi2Modes /\ Alike(via_sr_event(t), u))
  <2>1. t.acr = v.acr
    BY <1>3, <1>4
  <2>2. u = via_sr_event(t) => Alike(via_sr_event(t), u)
    BY DEF Alike, SameFlow
  <2> QED BY <1>5, <2>1, <2>2
<1>10. Beats(v, u, x, t)
  BY <1>3, <1>4, <1>7, <1>8, <1>9 DEF Beats
<1>11. ASSUME v.acr.mode = "out_cb1", v.sr.t2_pending = 0 PROVE u.sr.t2_pending = 0
  <2>1. r = q /\ r.acr = v.acr /\ t.acr = r.acr
    BY <1>3, <1>4, <1>11
  <2>2. r.sr.t2_pending = 0
    BY <1>2, <1>11, <2>1
  <2>3. u = t
    BY <1>5, <1>11, <2>1
  <2>4. t.sr.t2_pending = r.sr.t2_pending
    BY <1>4, <1>11, <2>1
  <2> QED BY <2>2, <2>3, <2>4
<1>12. u.acr = v.acr
  BY <1>3, <1>4, <1>5
<1>13. \E c, d : Beats(v, u, c, d)
  BY <1>10
<1> QED BY <1>6, <1>11, <1>12, <1>13

\* A sequence at rest stays at rest.
LEMMA StepRests ==
  ASSUME NEW v, Good(v), ~v.sr.active
  PROVE  ~via_step(v).sr.active
<1> DEFINE w == via_step(v)
<1>1. PICK x, y : Beats(v, w, x, y)
  BY StepBeats
<1> HIDE DEF w
<1>2. Good(x) /\ Good(y) /\ ~x.sr.active
  BY <1>1 DEF Beats, SameFlow
<1>3. ~y.sr.active
  BY <1>1, <1>2, EventHalf DEF Beats, Alike, SameFlow
<1>4. ~w.sr.active
  BY <1>1, <1>2, <1>3, EventHalf DEF Beats, Alike, SameFlow
<1> QED BY <1>4 DEF w

\* A sequence that CB1 clocks waits for CB1.
LEMMA StepWaits ==
  ASSUME NEW v, Good(v), v.acr.mode = "out_cb1", v.sr.t2_pending = 0
  PROVE  SameFlow(v, via_step(v)) /\ via_step(v).sr.t2_pending = 0
<1> DEFINE w == via_step(v)
<1>1. PICK x, y : Beats(v, w, x, y)
  BY StepBeats
<1>2. v.acr.mode \notin Phi2Modes /\ w.sr.t2_pending = 0
  BY StepBeats DEF Phi2Modes
<1> HIDE DEF w
<1>3. SameFlow(v, w)
  BY <1>1, <1>2 DEF Beats, Alike, SameFlow
<1> QED BY <1>2, <1>3 DEF w

\* A half-period takes a sequence that has done k shifts of b on.
Went(v, w, b, k) ==
  /\ w.acr = v.acr
  /\ \/ SameFlow(v, w) /\ w.pins.cb2 = v.pins.cb2
     \/ /\ v.sr.count = 2 * k /\ k < SrBits /\ w.sr.active /\ w.sr.count = 2 * k + 1
        /\ w.sr.bits = Turned(b, k + 1) /\ w.pins.cb2 = b[k + 1]
     \/ /\ v.sr.count = 2 * k - 1 /\ k < SrBits /\ w.sr.active /\ w.sr.count = 2 * k
        /\ w.sr.bits = Turned(b, k) /\ w.pins.cb2 = v.pins.cb2
     \/ /\ v.sr.count = 2 * k - 1 /\ k = SrBits /\ w.sr.count = 0
        /\ w.sr.bits = b /\ w.sr.active = (v.acr.mode = "free") /\ w.pins.cb2 = v.pins.cb2

LEMMA EventGoes ==
  ASSUME NEW v, Good(v), NEW w, Alike(via_sr_event(v), w), v.acr.mode \in HalfPeriodModes,
         NEW b \in [1 .. SrBits -> BOOLEAN], NEW k \in 0 .. SrBits,
         v.sr.active, v.sr.count = 2 * k \/ v.sr.count = 2 * k - 1, v.sr.bits = Turned(b, k)
  PROVE  Went(v, w, b, k)
<1> USE SrBitsAssumption
<1>0. v.sr.count \in 0 .. 2 * SrBits - 1 /\ w.acr = v.acr
  BY Parts, EventHalf DEF ShiftReg, Alike, SameFlow
<1>1. Half(v, via_sr_event(v))
  BY EventHalf
<1>2. CASE Held(v)
  BY <1>0, <1>1, <1>2 DEF Half, Alike, SameFlow, Went
<1>3. CASE ~Held(v) /\ v.sr.count % 2 = 0
  <2>1. v.sr.count = 2 * k /\ k < SrBits
    BY <1>0, <1>3
  <2>2. Pulls(v, via_sr_event(v))
    BY <1>1, <1>3 DEF Half
  <2>3. /\ ShiftLeft(Turned(b, k), Turned(b, k)[1]) = Turned(b, k + 1)
        /\ Turned(b, k)[1] = b[k + 1]
    <3>1. ShiftLeft(Turned(b, k), Turned(b, k)[1]) = Turned(b, k + 1)
      BY <2>1, Turning
    <3>2. 1 \in 1 .. SrBits /\ 1 + k <= SrBits /\ 1 + k = k + 1
      BY <2>1
    <3>3. Turned(b, k)[1] = b[k + 1]
      BY <3>2 DEF Turned
    <3> QED BY <3>1, <3>3
  <2>4. /\ w.sr.active /\ w.sr.count = 2 * k + 1
        /\ w.sr.bits = Turned(b, k + 1) /\ w.pins.cb2 = b[k + 1]
    BY <2>1, <2>2, <2>3 DEF Pulls, Alike, SameFlow
  <2> QED BY <1>0, <2>1, <2>4 DEF Went
<1>4. CASE ~Held(v) /\ v.sr.count % 2 # 0
  <2>1. v.sr.count = 2 * k - 1
    BY <1>0, <1>4
  <2>2. Rests(v, via_sr_event(v))
    BY <1>1, <1>4 DEF Half
  <2>3. w.sr.bits = Turned(b, k) /\ w.pins.cb2 = v.pins.cb2
    BY <2>2 DEF Rests, Alike, SameFlow
  <2>4. CASE k < SrBits
    <3>1. v.sr.count + 1 < 2 * SrBits /\ v.sr.count + 1 = 2 * k
      BY <2>1, <2>4
    <3>2. w.sr.active /\ w.sr.count = 2 * k
      BY <2>2, <3>1 DEF Rests, Alike, SameFlow
    <3> QED BY <1>0, <2>1, <2>3, <2>4, <3>2 DEF Went
  <2>5. CASE k = SrBits
    <3>1. ~(v.sr.count + 1 < 2 * SrBits)
      BY <2>1, <2>5
    <3>2. w.sr.active = (v.acr.mode = "free") /\ w.sr.count = 0
      BY <2>2, <3>1 DEF Rests, Alike, SameFlow
    <3>3. w.sr.bits = b
      BY <2>3, <2>5, Turning
    <3> QED BY <1>0, <2>1, <2>3, <2>5, <3>2, <3>3 DEF Went
  <2> QED BY <2>4, <2>5
<1> QED BY <1>2, <1>3, <1>4

\* Whether the clock of a cycle was seen to fall, by the count.
LEMMA Falling ==
  ASSUME NEW c \in 0 .. 2 * SrBits - 1
  PROVE  /\ (c - c) % (2 * SrBits) = 0
         /\ (c + 1 - c) % (2 * SrBits) = 1
         /\ (c + 2 - c) % (2 * SrBits) = 2
         /\ c # 0 => (0 - c) % (2 * SrBits) = 2 * SrBits - c
<1> USE SrBitsAssumption
<1> DEFINE M == 2 * SrBits
<1>1. M \in Nat /\ M >= 4
  OBVIOUS
<1> HIDE DEF M
<1>2. \A a \in 0 .. M - 1 : a % M = a /\ (a - M) % M = a
  BY <1>1
<1>3. c # 0 => M - c \in 0 .. M - 1 /\ (M - c) - M = 0 - c
  BY <1>1 DEF M
<1>4. /\ c - c = 0 /\ c + 1 - c = 1 /\ c + 2 - c = 2
      /\ 0 \in 0 .. M - 1 /\ 1 \in 0 .. M - 1 /\ 2 \in 0 .. M - 1
  BY <1>1
<1>5. 0 % M = 0 /\ 1 % M = 1 /\ 2 % M = 2
  BY <1>2, <1>4
<1>6. c # 0 => (0 - c) % M = M - c
  BY <1>2, <1>3
<1> QED BY <1>4, <1>5, <1>6 DEF M

\* What a cycle makes of a sequence that has done k shifts of b.
Passed(v, w, b, k) ==
  /\ w.acr = v.acr
  /\ \/ ~Falls(v, w) /\ SameFlow(v, w)
     \/ /\ Falls(v, w) /\ k < SrBits /\ w.pins.cb2 = b[k + 1] /\ w.sr.bits = Turned(b, k + 1)
        /\ w.sr.active /\ (w.sr.count = 2 * (k + 1) \/ w.sr.count = 2 * (k + 1) - 1)
     \/ /\ Falls(v, w) /\ k + 1 = SrBits /\ w.pins.cb2 = b[k + 1] /\ w.sr.bits = b
        /\ ~w.sr.active
     \/ /\ ~Falls(v, w) /\ k < SrBits /\ w.sr.active /\ w.sr.count = 2 * k /\ w.sr.bits = Turned(b, k)
     \/ /\ ~Falls(v, w) /\ k = SrBits /\ w.sr.count = 0 /\ w.sr.bits = b

LEMMA StepPasses ==
  ASSUME NEW v, Good(v), v.acr.mode \in HalfPeriodModes, v.sr.active,
         NEW b \in [1 .. SrBits -> BOOLEAN], NEW k \in 0 .. SrBits,
         v.sr.count = 2 * k \/ v.sr.count = 2 * k - 1, v.sr.bits = Turned(b, k)
  PROVE  Passed(v, via_step(v), b, k)
<1> USE SrBitsAssumption
<1> DEFINE w == via_step(v)
           c == v.sr.count
           d == (w.sr.count - c) % (2 * SrBits)
<1>0. c \in 0 .. 2 * SrBits - 1 /\ c \in Nat
  BY Parts DEF ShiftReg
<1>1. PICK x, y : Beats(v, w, x, y)
  BY StepBeats
<1>2. w.acr = v.acr
  BY StepBeats
<1>3. Falls(v, w) <=> (d = 2 \/ (d = 1 /\ c % 2 = 0))
  BY DEF Falls
<1> HIDE DEF w, c
<1>4. /\ Good(x) /\ Good(y) /\ x.acr = v.acr /\ y.acr = v.acr
      /\ x.sr.active /\ x.sr.bits = Turned(b, k) /\ x.sr.count = c
  BY <1>1 DEF Beats, SameFlow, c
<1>5. Went(x, y, b, k)
  <2>1. Alike(x, y) => Went(x, y, b, k)
    BY <1>4 DEF Went, Alike
  <2> QED BY <1>1, <1>4, <2>1, EventGoes DEF Beats, c
<1>6. c % 2 = 0 <=> c = 2 * k
  BY <1>0 DEF c
<1>7. /\ w.sr.count = c => d = 0
      /\ w.sr.count = c + 1 => d = 1
      /\ w.sr.count = c + 2 => d = 2
      /\ w.sr.count = 0 /\ c # 0 => d = 2 * SrBits - c
  <2>1. /\ (c - c) % (2 * SrBits) = 0
        /\ (c + 1 - c) % (2 * SrBits) = 1
        /\ (c + 2 - c) % (2 * SrBits) = 2
        /\ c # 0 => (0 - c) % (2 * SrBits) = 2 * SrBits - c
    BY <1>0, Falling
  <2>2. ASSUME w.sr.count = c PROVE d = 0
    BY <2>1, <2>2
  <2>3. ASSUME w.sr.count = c + 1 PROVE d = 1
    <3>1. w.sr.count - c = c + 1 - c
      BY <1>0, <2>3
    <3> QED BY <2>1, <3>1
  <2>4. ASSUME w.sr.count = c + 2 PROVE d = 2
    <3>1. w.sr.count - c = c + 2 - c
      BY <1>0, <2>4
    <3> QED BY <2>1, <3>1
  <2>5. ASSUME w.sr.count = 0, c # 0 PROVE d = 2 * SrBits - c
    BY <2>1, <2>5
  <2> QED BY <2>2, <2>3, <2>4, <2>5
<1> HIDE DEF d
<1>8. SameFlow(v, w) => Passed(v, w, b, k)
  BY <1>2, <1>3, <1>7 DEF SameFlow, Passed, c
<1>9. ASSUME Alike(y, w) PROVE Passed(v, w, b, k)
  <2>1. w.sr.count = y.sr.count /\ w.sr.bits = y.sr.bits /\ w.sr.active = y.sr.active
        /\ w.pins.cb2 = y.pins.cb2
    BY <1>9 DEF Alike, SameFlow
  <2>2. CASE SameFlow(x, y)
    BY <1>1, <1>8, <1>9, <2>2 DEF Beats, Alike, SameFlow
  <2>3. CASE /\ c = 2 * k /\ k < SrBits /\ y.sr.active /\ y.sr.count = 2 * k + 1
             /\ y.sr.bits = Turned(b, k + 1) /\ y.pins.cb2 = b[k + 1]
    <3>1. Falls(v, w) /\ w.sr.count = 2 * (k + 1) - 1
      BY <1>3, <1>6, <1>7, <2>1, <2>3
    <3> QED BY <1>2, <2>1, <2>3, <3>1 DEF Passed
  <2>4. CASE /\ c = 2 * k - 1 /\ k < SrBits /\ y.sr.active /\ y.sr.count = 2 * k
             /\ y.sr.bits = Turned(b, k)
    <3>1. ~Falls(v, w)
      BY <1>0, <1>3, <1>6, <1>7, <2>1, <2>4
    <3> QED BY <1>2, <2>1, <2>4, <3>1 DEF Passed
  <2>5. CASE c = 2 * k - 1 /\ k = SrBits /\ y.sr.count = 0 /\ y.sr.bits = b
    <3>1. ~Falls(v, w)
      <4>1. c # 0 /\ 2 * SrBits - c = 1 /\ c # 2 * k
        BY <2>5
      <4>2. d = 1
        BY <1>7, <2>1, <2>5, <4>1
      <4> QED BY <1>3, <1>6, <4>1, <4>2
    <3> QED BY <1>2, <2>1, <2>5, <3>1 DEF Passed
  <2> QED BY <1>4, <1>5, <2>2, <2>3, <2>4, <2>5 DEF Went
<1>10. ASSUME v.acr.mode \in Phi2Modes /\ Alike(via_sr_event(y), w) PROVE Passed(v, w, b, k)
  <2>1. v.acr.mode # "free" /\ v.acr.mode # "off"
    BY <1>10 DEF Phi2Modes
  <2>2. ASSUME NEW j \in 0 .. SrBits, y.sr.active, y.sr.count = 2 * j \/ y.sr.count = 2 * j - 1,
               y.sr.bits = Turned(b, j)
        PROVE  Went(y, w, b, j)
    BY <1>4, <1>10, <2>2, EventGoes
  <2>3. CASE SameFlow(x, y)
    <3>1. y.sr.active /\ y.sr.count = c /\ y.sr.bits = Turned(b, k)
      BY <1>4, <2>3 DEF SameFlow
    <3>2. Went(y, w, b, k)
      BY <2>2, <3>1 DEF c
    <3>3. CASE SameFlow(y, w)
      BY <1>1, <1>8, <2>3, <3>3 DEF Beats, SameFlow
    <3>4. CASE /\ c = 2 * k /\ k < SrBits /\ w.sr.active /\ w.sr.count = 2 * k + 1
               /\ w.sr.bits = Turned(b, k + 1) /\ w.pins.cb2 = b[k + 1]
      <4>1. Falls(v, w) /\ w.sr.count = 2 * (k + 1) - 1
        BY <1>3, <1>6, <1>7, <3>4
      <4> QED BY <1>2, <3>4, <4>1 DEF Passed
    <3>5. CASE /\ c = 2 * k - 1 /\ k < SrBits /\ w.sr.active /\ w.sr.count = 2 * k
               /\ w.sr.bits = Turned(b, k)
      <4>1. ~Falls(v, w)
        BY <1>0, <1>3, <1>6, <1>7, <3>5
      <4> QED BY <1>2, <3>5, <4>1 DEF Passed
    <3>6. CASE c = 2 * k - 1 /\ k = SrBits /\ w.sr.count = 0 /\ w.sr.bits = b
      <4>1. ~Falls(v, w)
        BY <1>0, <1>3, <1>6, <1>7, <3>6
      <4> QED BY <1>2, <3>6, <4>1 DEF Passed
    <3> QED BY <3>1, <3>2, <3>3, <3>4, <3>5, <3>6 DEF Went
  <2>4. CASE /\ c = 2 * k /\ k < SrBits /\ y.sr.active /\ y.sr.count = 2 * k + 1
             /\ y.sr.bits = Turned(b, k + 1) /\ y.pins.cb2 = b[k + 1]
    <3>1. k + 1 \in 0 .. SrBits /\ y.sr.count = 2 * (k + 1) - 1 /\ y.sr.count # 2 * (k + 1)
      <4>1. k \in Nat /\ k < SrBits /\ y.sr.count = 2 * k + 1
        BY <2>4
      <4>2. k + 1 \in 0 .. SrBits
        BY <4>1
      <4> QED BY <4>1, <4>2
    <3>2. Went(y, w, b, k + 1)
      BY <2>2, <2>4, <3>1
    <3>3. CASE SameFlow(y, w) /\ w.pins.cb2 = y.pins.cb2
      <4>1. Falls(v, w) /\ w.sr.count = 2 * (k + 1) - 1 /\ w.sr.active /\ w.sr.bits = y.sr.bits
        BY <1>3, <1>6, <1>7, <2>4, <3>3 DEF SameFlow
      <4> QED BY <1>2, <2>4, <3>3, <4>1 DEF Passed
    <3>4. CASE /\ k + 1 < SrBits /\ w.sr.active /\ w.sr.count = 2 * (k + 1)
               /\ w.sr.bits = Turned(b, k + 1) /\ w.pins.cb2 = y.pins.cb2
      <4>1. Falls(v, w)
        BY <1>3, <1>7, <2>4, <3>4
      <4> QED BY <1>2, <2>4, <3>4, <4>1 DEF Passed
    <3>5. CASE /\ k + 1 = SrBits /\ w.sr.count = 0 /\ w.sr.bits = b
               /\ w.sr.active = (y.acr.mode = "free") /\ w.pins.cb2 = y.pins.cb2
      <4>1. Falls(v, w)
        BY <1>3, <1>7, <2>4, <3>5
      <4> QED BY <1>2, <1>4, <2>1, <2>4, <3>5, <4>1 DEF Passed
    <3> QED BY <3>1, <3>2, <3>3, <3>4, <3>5 DEF Went
  <2>5. CASE /\ c = 2 * k - 1 /\ k < SrBits /\ y.sr.active /\ y.sr.count = 2 * k
             /\ y.sr.bits = Turned(b, k)
    <3>1. Went(y, w, b, k) /\ y.sr.count # 2 * k - 1
      BY <2>2, <2>5
    <3>2. CASE SameFlow(y, w)
      <4>1. /\ w.sr.active /\ w.sr.count = 2 * k /\ w.sr.bits = Turned(b, k)
        BY <2>5, <3>2 DEF SameFlow
      <4>2. ~Falls(v, w)
        BY <1>0, <1>3, <1>6, <1>7, <2>5, <4>1
      <4> QED BY <1>2, <2>5, <4>1, <4>2 DEF Passed
    <3>3. CASE /\ w.sr.active /\ w.sr.count = 2 * k + 1
               /\ w.sr.bits = Turned(b, k + 1) /\ w.pins.cb2 = b[k + 1]
      <4>1. Falls(v, w) /\ w.sr.count = 2 * (k + 1) - 1
        BY <1>3, <1>7, <2>5, <3>3
      <4> QED BY <1>2, <2>5, <3>3, <4>1 DEF Passed
    <3> QED BY <3>1, <3>2, <3>3 DEF Went
  <2>6. CASE /\ c = 2 * k - 1 /\ k = SrBits /\ y.sr.count = 0 /\ y.sr.bits = b
             /\ y.sr.active = (x.acr.mode = "free")
    <3>1. ~y.sr.active
      BY <1>4, <2>1, <2>6
    <3>2. via_sr_event(y) = y
      BY <1>4, <3>1, EventHalf
    <3>3. w.sr.count = 0 /\ w.sr.bits = b
      BY <1>10, <2>6, <3>2 DEF Alike, SameFlow
    <3>4. ~Falls(v, w)
      BY <1>0, <1>3, <1>6, <1>7, <2>6, <3>3
    <3> QED BY <1>2, <2>6, <3>3, <3>4 DEF Passed
  <2> QED BY <1>4, <1>5, <2>3, <2>4, <2>5, <2>6 DEF Went
<1>11. Passed(v, w, b, k)
  BY <1>1, <1>9, <1>10 DEF Beats
<1> QED BY <1>11 DEF w

\* One more level on CB2, and all of them.
LEMMA ShowsNext ==
  ASSUME NEW log \in ShiftLog, NEW k \in 0 .. SrBits, Shown(log.line, log.byte, k),
         NEW w, Good(w), k < SrBits, w.pins.cb2 = log.byte[k + 1]
  PROVE  /\ Shown(Put(log, w).line, log.byte, k + 1)
         /\ Put(log, w) \in ShiftLog /\ Put(log, w).byte = log.byte
<1>1. log.byte \in [1 .. SrBits -> BOOLEAN]
  BY DEF ShiftLog
<1>2. Put(log, w) \in ShiftLog /\ Put(log, w).byte = log.byte
  BY PutTyped
<1>3. Shown(Put(log, w).line, log.byte, k + 1)
  BY <1>1, Showing
<1> QED BY <1>2, <1>3

LEMMA ShownAll ==
  ASSUME NEW log \in ShiftLog, Shown(log.line, log.byte, SrBits)
  PROVE  log.line = [i \in 1 .. SrBits |-> {log.byte[i]}]
<1>1. SrBits \in 0 .. SrBits /\ log.byte \in [1 .. SrBits -> BOOLEAN]
  BY SrBitsAssumption DEF ShiftLog
<1> QED BY <1>1, Showing


\* What a cycle makes of the byte that is followed.
Ended(w, log, new) == new.line = [i \in 1 .. SrBits |-> {log.byte[i]}] /\ w.sr.bits = log.byte

LEMMA StepFollows ==
  ASSUME NEW v, Good(v), v.sr.active, NEW log \in ShiftLog, NEW k \in 0 .. SrBits,
         Reached(v, log, k), NEW new,
         new = IF Falls(v, via_step(v)) THEN Put(log, via_step(v)) ELSE log
  PROVE  LET w == via_step(v)
         IN IF w.sr.active THEN \E j \in 0 .. SrBits : Reached(w, new, j) ELSE Ended(w, log, new)
<1> USE SrBitsAssumption
<1> DEFINE w == via_step(v)
           b == log.byte
<1>1. Good(w) /\ w.acr = v.acr /\ b \in [1 .. SrBits -> BOOLEAN]
  BY StepGood, StepBeats DEF ShiftLog
<1>2. /\ v.sr.bits = Turned(b, k) /\ Shown(log.line, b, k)
      /\ v.sr.count \in 0 .. 2 * SrBits - 1
  BY Parts DEF Reached, ShiftReg
<1>3. CASE v.acr.mode = "out_cb1"
  <2>1. SameFlow(v, w) /\ w.sr.t2_pending = 0
    BY <1>3, StepWaits DEF Reached, Place
  <2>2. ~Falls(v, w)
    <3>1. (w.sr.count - v.sr.count) % (2 * SrBits) = 0
      BY <1>2, <2>1, Falling DEF SameFlow
    <3> QED BY <3>1 DEF Falls
  <2>3. new = log
    BY <2>2
  <2> HIDE DEF w
  <2>4. Reached(w, new, k) /\ w.sr.active
    BY <1>3, <2>1, <2>3 DEF Reached, Place, SameFlow
  <2> QED BY <2>4 DEF w
<1>4. CASE v.acr.mode # "out_cb1"
  <2>1. v.acr.mode \in HalfPeriodModes /\ (v.sr.count = 2 * k \/ v.sr.count = 2 * k - 1)
    BY <1>4 DEF Reached, Place
  <2>2. Passed(v, w, b, k)
    BY <1>1, <1>2, <2>1, StepPasses
  <2>3. /\ Falls(v, w) => new = Put(log, w)
        /\ ~Falls(v, w) => new = log
    OBVIOUS
  <2> HIDE DEF w
  <2>4. ASSUME NEW j \in 0 .. SrBits, w.sr.active, w.sr.count = 2 * j \/ w.sr.count = 2 * j - 1,
               w.sr.bits = Turned(b, j), new.byte = b, Shown(new.line, b, j)
        PROVE  Reached(w, new, j)
    BY <1>1, <1>4, <2>1, <2>4 DEF Reached, Place
  <2>5. Falls(v, w) /\ k < SrBits /\ w.pins.cb2 = b[k + 1]
           => Shown(new.line, b, k + 1) /\ new.byte = b
    <3>1. ASSUME Falls(v, w), k < SrBits, w.pins.cb2 = b[k + 1]
          PROVE  Shown(Put(log, w).line, b, k + 1) /\ Put(log, w).byte = b
      BY <1>1, <1>2, <3>1, ShowsNext
    <3> QED BY <2>3, <3>1
  <2>6. CASE ~Falls(v, w) /\ SameFlow(v, w)
    <3>1. Reached(w, new, k) /\ w.sr.active
      BY <1>2, <2>1, <2>3, <2>4, <2>6 DEF SameFlow
    <3> QED BY <3>1 DEF w
  <2>7. CASE /\ Falls(v, w) /\ k < SrBits /\ w.pins.cb2 = b[k + 1] /\ w.sr.bits = Turned(b, k + 1)
             /\ w.sr.active /\ (w.sr.count = 2 * (k + 1) \/ w.sr.count = 2 * (k + 1) - 1)
    <3>1. k + 1 \in 0 .. SrBits
      BY <2>7
    <3>2. Reached(w, new, k + 1)
      BY <2>4, <2>5, <2>7, <3>1
    <3> QED BY <2>7, <3>1, <3>2 DEF w
  <2>8. CASE /\ Falls(v, w) /\ k + 1 = SrBits /\ w.pins.cb2 = b[k + 1] /\ w.sr.bits = b
             /\ ~w.sr.active
    <3>1. k < SrBits /\ Shown(new.line, b, SrBits)
      BY <2>5, <2>8
    <3>2. new \in ShiftLog /\ new.byte = b
      <4>1. k < SrBits /\ w.pins.cb2 = log.byte[k + 1] /\ Shown(log.line, log.byte, k)
        BY <1>2, <2>8
      <4>2. Put(log, w) \in ShiftLog /\ Put(log, w).byte = b
        BY <1>1, <4>1, ShowsNext
      <4> QED BY <2>3, <2>8, <4>2
    <3>3. new.line = [i \in 1 .. SrBits |-> {b[i]}]
      <4> HIDE DEF b
      <4>1. Shown(new.line, new.byte, SrBits)
        BY <3>1, <3>2
      <4> QED BY <3>2, <4>1, ShownAll
    <3> QED BY <2>8, <3>3 DEF Ended, w
  <2>9. CASE ~Falls(v, w) /\ k < SrBits /\ w.sr.active /\ w.sr.count = 2 * k /\ w.sr.bits = Turned(b, k)
    <3>1. Reached(w, new, k)
      BY <1>2, <2>3, <2>4, <2>9
    <3> QED BY <2>9, <3>1 DEF w
  <2>10. CASE ~Falls(v, w) /\ k = SrBits /\ w.sr.count = 0 /\ w.sr.bits = b
    <3>1. log.line = [i \in 1 .. SrBits |-> {b[i]}] /\ Shown(log.line, b, 0) /\ Turned(b, 0) = b
      <4>1. Shown(log.line, log.byte, SrBits)
        BY <1>2, <2>10
      <4>2. log.line = [i \in 1 .. SrBits |-> {b[i]}]
        BY <4>1, ShownAll
      <4>3. Shown(log.line, b, 0)
        BY SMT DEF Shown
      <4>4. Turned(b, 0) = b
        BY <1>1, Turning
      <4> QED BY <4>2, <4>3, <4>4
    <3>2. CASE w.sr.active
      <4>1. 0 \in 0 .. SrBits /\ w.sr.count = 2 * 0
        BY <2>10
      <4>2. Reached(w, new, 0)
        BY <2>3, <2>4, <2>10, <3>1, <3>2, <4>1
      <4> QED BY <3>2, <4>1, <4>2 DEF w
    <3>3. CASE ~w.sr.active
      BY <2>3, <2>10, <3>1, <3>3 DEF Ended, w
    <3> QED BY <3>2, <3>3
  <2> QED BY <2>2, <2>6, <2>7, <2>8, <2>9, <2>10 DEF Passed
<1> QED BY <1>3, <1>4

\* What a call may do to a sequence under way: nothing to its count, or clock
\* it at CB1.
Kept(v, w) ==
  w.sr.active /\ w.sr.count = v.sr.count /\ w.sr.t2_pending = v.sr.t2_pending

LEMMA CallCases ==
  ASSUME NEW v, Good(v), v.sr.active, NEW p \in Program, NEW w, Called(v, w, p)
  PROVE  Kept(v, w) \/ (v.acr.mode \in Cb1Modes /\ w = via_do_shift(v))
<1>0. \A x : x.acr = v.acr /\ x.sr = v.sr => Kept(v, x)
  BY DEF Kept
<1>1. ASSUME NEW x, x \in Chip, NEW F
      PROVE  /\ Lower(x, F).acr = x.acr /\ Lower(x, F).sr = x.sr
             /\ Raise(x, F).acr = x.acr /\ Raise(x, F).sr = x.sr
  BY <1>1 DEF Lower, Raise, Chip
<1>2. v \in Chip /\ v.sr \in ShiftReg
  BY Parts DEF Good
<1>3. \A F : Good(Lower(v, F))
  BY LowerGood
<1>4. CASE PortAccess(v, w)
  <2>1. ASSUME NEW x, x \in Chip
        PROVE  /\ via_ca2_port_access(x).acr = x.acr /\ via_ca2_port_access(x).sr = x.sr
               /\ via_cb2_port_access(x).acr = x.acr /\ via_cb2_port_access(x).sr = x.sr
    BY <2>1 DEF via_ca2_port_access, via_cb2_port_access, Chip
  <2> QED BY <1>0, <1>1, <1>2, <1>3, <1>4, <2>1
       DEF PortAccess, read_ORB, write_ORB, access_ORA, Good
<1>5. CASE T1Access(v, w, p.bytes)
  <2>1. ASSUME NEW x, NEW F
        PROVE  /\ [v EXCEPT !.t1 = x].acr = v.acr /\ [v EXCEPT !.t1 = x].sr = v.sr
               /\ Lower([v EXCEPT !.t1 = x], F).acr = v.acr
               /\ Lower([v EXCEPT !.t1 = x], F).sr = v.sr
    BY <1>2 DEF Chip, Lower
  <2>2. ASSUME w = read_T1CL(v) PROVE Kept(v, w)
    BY <1>0, <1>1, <1>2, <2>2 DEF read_T1CL
  <2>3. ASSUME NEW c, w = write_T1LL(v, c) PROVE Kept(v, w)
    BY <1>0, <2>1, <2>3 DEF write_T1LL
  <2>4. ASSUME NEW c, w = write_T1CH(v, c) PROVE Kept(v, w)
    BY <1>0, <2>1, <2>4 DEF write_T1CH
  <2>5. ASSUME NEW c, w = write_T1LH(v, c) PROVE Kept(v, w)
    BY <1>0, <2>1, <2>5 DEF write_T1LH
  <2> QED BY <1>5, <2>2, <2>3, <2>4, <2>5 DEF T1Access
<1>6. CASE T2Access(v, w, p.bytes)
  <2>1. ASSUME NEW x, NEW F
        PROVE  /\ [v EXCEPT !.t2 = x].acr = v.acr /\ [v EXCEPT !.t2 = x].sr = v.sr
               /\ Lower([v EXCEPT !.t2 = x], F).acr = v.acr
               /\ Lower([v EXCEPT !.t2 = x], F).sr = v.sr
    BY <1>2 DEF Chip, Lower
  <2>2. ASSUME w = read_T2CL(v) PROVE Kept(v, w)
    BY <1>0, <1>1, <1>2, <2>2 DEF read_T2CL
  <2>3. ASSUME NEW c, w = write_T2CL(v, c) PROVE Kept(v, w)
    BY <1>0, <2>1, <2>3 DEF write_T2CL
  <2>4. ASSUME NEW c, w = write_T2CH(v, c) PROVE Kept(v, w)
    BY <1>0, <2>1, <2>4 DEF write_T2CH
  <2> QED BY <1>6, <2>2, <2>3, <2>4 DEF T2Access
<1>7. ASSUME NEW x, x \in Chip, x.sr \in ShiftReg, x.sr.active,
             x.sr.count = v.sr.count, x.sr.t2_pending = v.sr.t2_pending
      PROVE  Kept(v, via_sr_access(x))
  <2> DEFINE on == [x.sr EXCEPT !.active = TRUE]
  <2>1. on.active /\ on.count = x.sr.count /\ on.t2_pending = x.sr.t2_pending
    BY <1>7 DEF ShiftReg
  <2>2. via_sr_access(x) \in {x, [x EXCEPT !.sr = on]}
    <3>1. CASE x.acr.mode = "off"
      BY <3>1 DEF via_sr_access
    <3>2. CASE x.acr.mode = "free"
      BY <3>2 DEF via_sr_access
    <3>3. CASE x.acr.mode # "off" /\ x.acr.mode # "free"
      BY <1>7, <3>3 DEF via_sr_access
    <3> QED BY <3>1, <3>2, <3>3
  <2> HIDE DEF on
  <2>3. [x EXCEPT !.sr = on].sr = on
    BY <1>7 DEF Chip
  <2> QED BY <1>7, <2>1, <2>2, <2>3 DEF Kept
<1>8. CASE SrAccess(v, w)
  <2>1. CASE w = read_SR(v)
    <3>1. Lower(v, {"SR"}).sr = v.sr /\ Lower(v, {"SR"}) \in Chip
      BY <1>1, <1>2, <1>3 DEF Good
    <3> QED BY <1>2, <1>7, <2>1, <3>1 DEF read_SR
  <2>2. CASE \E bits \in [1 .. SrBits -> BOOLEAN] : w = write_SR(v, bits)
    <3>1. PICK bits \in [1 .. SrBits -> BOOLEAN] : w = write_SR(v, bits)
      BY <2>2
    <3> DEFINE s == [v.sr EXCEPT !.bits = bits]
               x == [v EXCEPT !.sr = s]
    <3>2. s \in ShiftReg /\ s.active = v.sr.active /\ s.count = v.sr.count
          /\ s.t2_pending = v.sr.t2_pending
      BY <1>2 DEF ShiftReg
    <3>3. Good(x) /\ x.sr = s
      <4> HIDE DEF s
      <4> QED BY <1>2, <3>2, WriteGood DEF Chip
    <3>4. Good(Lower(x, {"SR"})) /\ Lower(x, {"SR"}).sr = s
      <4> HIDE DEF x
      <4> QED BY <1>1, <3>3, LowerGood DEF Good
    <3>5. w = via_sr_access(Lower(x, {"SR"}))
      BY <3>1 DEF write_SR
    <3> HIDE DEF x, s
    <3> QED BY <1>7, <3>2, <3>4, <3>5 DEF Good
  <2>3. CASE w = via_shift_clock(v)
    BY <1>0, <2>3 DEF via_shift_clock
  <2> QED BY <1>8, <2>1, <2>2, <2>3 DEF SrAccess
<1>10. ASSUME NEW a \in p.acr, w = write_ACR(v, a) PROVE Kept(v, w)
  <2> DEFINE s == [v.sr EXCEPT !.active = @ \/ a.mode = "free",
                            !.delay = IF a.mode \in Phi2Modes /\ v.acr.mode \notin Phi2Modes
                                      THEN 3 ELSE @]
  <2>1. /\ s.count = v.sr.count /\ s.t2_pending = v.sr.t2_pending
        /\ s.active = (v.sr.active \/ a.mode = "free")
    BY <1>2 DEF ShiftReg
  <2>2. w.sr = s
    BY <1>1, <1>2, <1>10 DEF write_ACR, Chip, Lower
  <2> HIDE DEF s
  <2> QED BY <2>1, <2>2 DEF Kept
<1>11. ASSUME NEW c, w = write_PCR(v, c) PROVE Kept(v, w)
  BY <1>0, <1>2, <1>11 DEF write_PCR, Chip
<1>12. CASE IrqAccess(v, w, p.flags)
  BY <1>0, <1>1, <1>2, <1>12 DEF IrqAccess, write_IFR, write_IER, Chip
<1>13. CASE LineChange(v, w, p.flags)
  <2>1. ASSUME NEW x, x \in Chip, NEW z
        PROVE  /\ [x EXCEPT !.pins = z].acr = x.acr /\ [x EXCEPT !.pins = z].sr = x.sr
               /\ \A F : /\ Raise([x EXCEPT !.pins = z], F).acr = x.acr
                         /\ Raise([x EXCEPT !.pins = z], F).sr = x.sr
    BY <2>1 DEF Raise, Chip
  <2>2. ASSUME NEW x, x \in Chip, NEW b \in BOOLEAN
        PROVE  /\ via_set_ca1(x, b).acr = x.acr /\ via_set_ca1(x, b).sr = x.sr
               /\ via_set_cb1(x, b).acr = x.acr /\ via_set_cb1(x, b).sr = x.sr
               /\ via_set_ca2_input(x, b).acr = x.acr /\ via_set_ca2_input(x, b).sr = x.sr
               /\ via_set_cb2_input(x, b).acr = x.acr /\ via_set_cb2_input(x, b).sr = x.sr
    BY <2>1, <2>2 DEF via_set_ca1, via_set_cb1, via_set_ca2_input, via_set_cb2_input
  <2>3. via_set_cb1(v, FALSE) \in Chip
    <3>1. LineChange(v, via_set_cb1(v, FALSE), {})
      BY DEF LineChange
    <3> QED BY <3>1, LineChangeGood DEF Good
  <2>4. CASE w = via_trigger_cb1(v)
    <3> DEFINE y == via_set_cb1(v, FALSE)
    <3>1. y \in Chip /\ y.acr = v.acr /\ y.sr = v.sr
      BY <1>2, <2>2, <2>3
    <3>2. w = via_set_cb1(y, TRUE)
      BY <2>4 DEF via_trigger_cb1
    <3> HIDE DEF y
    <3>3. w.acr = y.acr /\ w.sr = y.sr
      BY <2>2, <3>1, <3>2
    <3> QED BY <1>0, <3>1, <3>3
  <2>5. ASSUME NEW f, w = via_trigger(v, f) PROVE Kept(v, w)
    BY <1>0, <1>1, <1>2, <2>5 DEF via_trigger
  <2>6. ASSUME NEW c \in BOOLEAN, \/ w = via_set_ca1(v, c) \/ w = via_set_ca2_input(v, c)
                                  \/ w = via_set_cb1(v, c) \/ w = via_set_cb2_input(v, c)
        PROVE  Kept(v, w)
    BY <1>0, <1>2, <2>2, <2>6
  <2> QED BY <1>13, <2>4, <2>5, <2>6 DEF LineChange
<1>14. CASE w = via_pb6_pulse(v)
  <2>1. \A x : [v EXCEPT !.t2 = x].acr = v.acr /\ [v EXCEPT !.t2 = x].sr = v.sr
               /\ \A F : Raise([v EXCEPT !.t2 = x], F).acr = v.acr
                         /\ Raise([v EXCEPT !.t2 = x], F).sr = v.sr
    BY <1>2 DEF Chip, Raise
  <2> QED BY <1>0, <1>14, <2>1 DEF via_pb6_pulse, T2Count16
<1>15. w = v => Kept(v, w)
  BY DEF Kept
<1> QED BY <1>4, <1>5, <1>6, <1>8, <1>10, <1>11, <1>12, <1>13, <1>14, <1>15 DEF Called

\* A clock at CB1 shifts and counts.
LEMMA ClockFollows ==
  ASSUME NEW v, Good(v), v.acr.mode = "out_cb1", v.sr.active, NEW log \in ShiftLog,
         NEW k \in 0 .. SrBits, Reached(v, log, k)
  PROVE  LET w == via_do_shift(v)
         IN /\ w.acr = v.acr /\ w.sr.count # v.sr.count
            /\ IF w.sr.active THEN Reached(w, Put(log, w), k + 1) /\ k + 1 \in 0 .. SrBits
               ELSE Ended(w, log, Put(log, w))
<1> USE SrBitsAssumption
<1> DEFINE u == Shifted(v)
           w == via_do_shift(v)
           b == log.byte
<1>1. b \in [1 .. SrBits -> BOOLEAN] /\ Good(w) /\ v.sr.active \in BOOLEAN
  BY SrEventGood, Parts DEF ShiftLog, ShiftReg
<1>2. /\ v.sr.t2_pending = 0 /\ v.sr.count = k /\ k < SrBits
      /\ v.sr.bits = Turned(b, k) /\ Shown(log.line, b, k)
  BY DEF Reached, Place
<1>3. Turned(b, k)[1] = b[k + 1]
  <2>1. 1 \in 1 .. SrBits /\ 1 + k <= SrBits /\ 1 + k = k + 1
    BY <1>2
  <2> QED BY <2>1 DEF Turned
<1>4. /\ Good(u) /\ u.acr = v.acr /\ u.sr.bits = Turned(b, k + 1) /\ u.sr.count = k
      /\ u.sr.active = v.sr.active /\ u.sr.t2_pending = 0 /\ u.pins.cb2 = b[k + 1]
  <2>1. v.acr.mode \in OutModes
    BY DEF OutModes
  <2>2. ShiftLeft(Turned(b, k), Turned(b, k)[1]) = Turned(b, k + 1)
    BY <1>1, <1>2, Turning
  <2>3. ShiftLeft(v.sr.bits, v.sr.bits[1]) = Turned(b, k + 1) /\ v.sr.bits[1] = b[k + 1]
    BY <1>2, <1>3, <2>2
  <2>4. /\ Good(Shifted(v)) /\ Shifted(v).acr = v.acr
        /\ Shifted(v).sr.bits = ShiftLeft(v.sr.bits, v.sr.bits[1])
        /\ Shifted(v).sr.active = v.sr.active /\ Shifted(v).sr.count = v.sr.count
        /\ Shifted(v).sr.t2_pending = v.sr.t2_pending
        /\ Shifted(v).pins.cb2 = v.sr.bits[1]
    BY <2>1, ShiftedOut
  <2> QED BY <1>2, <2>3, <2>4
<1> HIDE DEF u
<1>5. /\ w.acr = v.acr /\ w.sr.bits = u.sr.bits /\ w.sr.t2_pending = 0 /\ w.pins = u.pins
      /\ (k + 1 < SrBits => w.sr.count = k + 1 /\ w.sr.active)
      /\ (~(k + 1 < SrBits) => w.sr.count = 0 /\ ~w.sr.active)
  <2>1. SrBits \in 1 .. 2 * SrBits /\ w = Counted(u, SrBits)
    BY DEF via_do_shift, u
  <2> HIDE DEF w
  <2>2. u.acr.mode # "free" /\ u.sr.count = k
    BY <1>4
  <2>3. /\ w.acr = u.acr /\ w.sr.bits = u.sr.bits /\ w.sr.t2_pending = u.sr.t2_pending
        /\ w.pins = u.pins
        /\ (u.sr.count + 1 < SrBits => /\ w.sr.count = u.sr.count + 1
                                      /\ w.sr.active = u.sr.active)
        /\ (~(u.sr.count + 1 < SrBits)
              => /\ w.sr.count = 0
                 /\ w.sr.active = (u.sr.active /\ u.acr.mode = "free"))
    <3> DEFINE c == Counted(u, SrBits)
    <3>1. /\ c.acr = u.acr /\ c.sr.bits = u.sr.bits /\ c.sr.t2_pending = u.sr.t2_pending
          /\ c.pins = u.pins
          /\ (u.sr.count + 1 < SrBits => /\ c.sr.count = u.sr.count + 1
                                        /\ c.sr.active = u.sr.active)
          /\ (~(u.sr.count + 1 < SrBits)
                => /\ c.sr.count = 0
                   /\ c.sr.active = (u.sr.active /\ u.acr.mode = "free"))
      BY <1>4, <2>1, CountedOut
    <3> HIDE DEF c
    <3>2. w = c
      BY <2>1 DEF c
    <3> QED BY <3>1, <3>2
  <2>4. CASE k + 1 < SrBits
    BY <1>4, <2>2, <2>3, <2>4
  <2>5. CASE ~(k + 1 < SrBits)
    BY <1>4, <2>2, <2>3, <2>5
  <2> QED BY <2>4, <2>5
<1> HIDE DEF w
<1>6. k + 1 \in 0 .. SrBits /\ w.sr.count # v.sr.count
  BY <1>2, <1>5
<1>7. Shown(Put(log, w).line, b, k + 1) /\ Put(log, w).byte = b /\ Put(log, w) \in ShiftLog
  <2>1. w.pins.cb2 = log.byte[k + 1]
    BY <1>4, <1>5
  <2> QED BY <1>1, <1>2, <2>1, ShowsNext
<1>8. ASSUME w.sr.active PROVE Reached(w, Put(log, w), k + 1)
  <2>1. k + 1 < SrBits /\ w.sr.count = k + 1
    BY <1>5, <1>8
  <2> QED BY <1>4, <1>5, <1>7, <2>1 DEF Reached, Place
<1>9. ASSUME ~w.sr.active PROVE Ended(w, log, Put(log, w))
  <2>1. ~(k + 1 < SrBits)
    BY <1>5, <1>9
  <2>2. k + 1 = SrBits
    BY <1>2, <2>1
  <2>3. w.sr.bits = b
    BY <1>1, <1>4, <1>5, <2>2, Turning
  <2>4. Shown(Put(log, w).line, Put(log, w).byte, SrBits)
    BY <1>7, <2>2
  <2>5. Put(log, w).line = [i \in 1 .. SrBits |-> {b[i]}]
    BY <1>7, <2>4, ShownAll
  <2> QED BY <2>3, <2>5 DEF Ended
<1> QED BY <1>5, <1>6, <1>8, <1>9 DEF w

\* A cycle, skipped or not, is a step of the synced chip.
LEMMA TickIsStep ==
  ASSUME LazyInv, SkipTick \/ FullTick
  PROVE  /\ Good(Synced) /\ Synced' = via_step(Synced)
         /\ srlog' = IF srlog.whole /\ Falls(Synced, Synced') THEN Put(srlog, Synced') ELSE srlog
<1>1. Good(via) /\ Good(Synced) /\ pending \in Nat
  BY SyncedGood
<1>2. CASE FullTick
  BY <1>1, <1>2 DEF FullTick, Synced, via_sync, LogTick
<1>3. CASE SkipTick
  <2>1. pending + 1 <= via_quiet(via)
    <3>1. pending + quiet <= via_quiet(via) /\ quiet \in Nat /\ quiet > 0
      BY <1>1, <1>3 DEF SkipTick, LazyInv, SkippedCyclesAreQuiet, TypeOK, Words
    <3>2. via_quiet(via) \in Nat
      BY <1>1, QuietBounds DEF Words
    <3> QED BY <1>1, <3>1, <3>2
  <2>2. via_sync(via, pending + 1) = via_step(via_sync(via, pending))
    BY <1>1, <2>1, SyncStep
  <2>3. via' = via /\ pending' = pending + 1 /\ LogTick(via, via)
    BY <1>3 DEF SkipTick
  <2>4. \A n : via_sync(via, n).sr = via.sr
    BY <1>1 DEF via_sync, Good, Chip
  <2>5. Synced.sr = via.sr /\ Synced'.sr = via.sr
    BY <2>3, <2>4 DEF Synced
  <2>6. (via.sr.count - via.sr.count) % (2 * SrBits) = 0
    <3>1. via.sr.count \in 0 .. 2 * SrBits - 1
      BY <1>1, Parts DEF ShiftReg
    <3> QED BY <3>1, Falling
  <2>7. ~Falls(via, via) /\ ~Falls(Synced, Synced')
    BY <2>5, <2>6 DEF Falls
  <2>8. srlog' = srlog
    BY <2>3, <2>7 DEF LogTick
  <2> QED BY <1>1, <2>2, <2>3, <2>7, <2>8 DEF Synced
<1> QED BY <1>2, <1>3

\* What a step makes of the byte that is followed.
LEMMA ShiftStep ==
  ASSUME LazyInv, ShiftInv, [Next]_vars
  PROVE  /\ ShiftInv'
         /\ srlog.whole /\ Synced.sr.active /\ ~Synced'.sr.active => Ended(Synced', srlog, srlog')
<1> DEFINE v == Synced
           w == Synced'
           Ends == srlog.whole /\ v.sr.active /\ ~w.sr.active => Ended(w, srlog, srlog')
           Goes == srlog'.whole /\ w.sr.active => \E k \in 0 .. SrBits : Reached(w, srlog', k)
<1>0. ShiftInv' <=> Goes
  BY DEF ShiftInv
<1>1. Good(via) /\ Good(v) /\ srlog \in ShiftLog /\ srlog.whole \in BOOLEAN
  BY SyncedGood DEF LazyInv, TypeOK, ShiftLog
<1>2. ASSUME srlog.whole, v.sr.active
      PROVE  \E k \in 0 .. SrBits : Reached(v, srlog, k)
  BY <1>2 DEF ShiftInv
<1>3. CASE SkipTick \/ FullTick
  <2>1. /\ w = via_step(v)
        /\ srlog' = IF srlog.whole /\ Falls(v, w) THEN Put(srlog, w) ELSE srlog
    BY <1>3, TickIsStep
  <2>2. ~v.sr.active => ~w.sr.active
    BY <1>1, <2>1, StepRests
  <2>3. Good(w)
    BY <1>1, <2>1, StepGood
  <2>4. srlog'.whole = srlog.whole
    BY <1>1, <2>1, <2>3, BegunTyped, PutTyped
  <2>5. ASSUME srlog.whole, v.sr.active
        PROVE  IF w.sr.active THEN \E j \in 0 .. SrBits : Reached(w, srlog', j)
               ELSE Ended(w, srlog, srlog')
    <3>1. PICK k \in 0 .. SrBits : Reached(v, srlog, k)
      BY <1>2, <2>5
    <3>2. srlog' = IF Falls(v, via_step(v)) THEN Put(srlog, via_step(v)) ELSE srlog
      BY <2>1, <2>5
    <3> QED BY <1>1, <2>1, <2>5, <3>1, <3>2, StepFollows
  <2> HIDE DEF v, w
  <2>6. Goes /\ Ends
    BY <2>2, <2>4, <2>5
  <2> QED BY <1>0, <2>6 DEF v, w
<1>4. CASE Call
  <2>1. w = via' /\ Called(v, w, prog) /\ LogCall(v, w) /\ prog \in Program
    <3>1. Synced' = via' /\ Called(Synced, via', prog) /\ LogCall(Synced, via')
      BY <1>4 DEF Call, Synced, via_sync
    <3> QED BY <3>1, ProgramsAssumption DEF LazyInv, TypeOK
  <2>2. Good(w) /\ w.sr.active \in BOOLEAN /\ v.sr.active \in BOOLEAN
        /\ w.sr.bits \in [1 .. SrBits -> BOOLEAN]
    <3>1. Good(w)
      BY <1>1, <2>1, CalledGood
    <3> QED BY <1>1, <3>1, Parts DEF ShiftReg
  <2>3. v.sr.active => Kept(v, w) \/ (v.acr.mode \in Cb1Modes /\ w = via_do_shift(v))
    BY <1>1, <2>1, CallCases
  <2>4. srlog' = IF ~v.sr.active /\ w.sr.active
                 THEN IF Fresh(w) THEN Begun(w) ELSE Lost
                 ELSE IF ~srlog.whole \/ ~v.sr.active THEN srlog
                 ELSE IF Cb1Clocks(v, w) THEN Put(srlog, w)
                 ELSE IF Follows(v, w) /\ w.sr.bits = v.sr.bits THEN srlog
                 ELSE Lost
    BY <2>1 DEF LogCall, Begun
  <2>5. ASSUME v.sr.active, srlog.whole, v.acr.mode \in Cb1Modes, w = via_do_shift(v)
        PROVE  Goes /\ Ends
    <3>1. PICK k \in 0 .. SrBits : Reached(v, srlog, k)
      BY <1>2, <2>5
    <3>2. v.acr.mode = "out_cb1"
      BY <2>5, <3>1 DEF Reached, Place, HalfPeriodModes, Cb1Modes
    <3>3. /\ w.acr = v.acr /\ w.sr.count # v.sr.count
          /\ IF w.sr.active THEN Reached(w, Put(srlog, w), k + 1) /\ k + 1 \in 0 .. SrBits
             ELSE Ended(w, srlog, Put(srlog, w))
      BY <1>1, <2>5, <3>1, <3>2, ClockFollows
    <3> HIDE DEF v, w
    <3>4. srlog' = Put(srlog, w)
      BY <2>4, <2>5, <3>2, <3>3 DEF Cb1Clocks
    <3> QED BY <3>3, <3>4
  <2> HIDE DEF v, w
  <2>6. ASSUME ~v.sr.active, w.sr.active PROVE Goes
    <3>1. CASE Fresh(w)
      <4>1. srlog' = Begun(w) /\ srlog'.byte = w.sr.bits
        BY <2>2, <2>4, <2>6, <3>1, BegunTyped, PutTyped
      <4>2. Turned(w.sr.bits, 0) = w.sr.bits /\ 0 \in 0 .. SrBits /\ 0 < SrBits /\ 0 = 2 * 0
        BY <2>2, Turning, SrBitsAssumption
      <4>3. Shown(srlog'.line, w.sr.bits, 0)
        BY SrBitsAssumption DEF Shown
      <4>4. Place(w, 0)
        BY <3>1, <4>2 DEF Fresh, Place, OutModes, HalfPeriodModes
      <4> QED BY <4>1, <4>2, <4>3, <4>4 DEF Reached
    <3>2. CASE ~Fresh(w)
      BY <2>4, <2>6, <3>2, BegunTyped, PutTyped
    <3> QED BY <3>1, <3>2
  <2>7. ASSUME v.sr.active, srlog.whole, Kept(v, w) PROVE Goes /\ Ends
    <3>1. PICK k \in 0 .. SrBits : Reached(v, srlog, k)
      BY <1>2, <2>7 DEF v
    <3>2. ~Cb1Clocks(v, w) /\ w.sr.active
      BY <2>7 DEF Cb1Clocks, Kept
    <3>3. CASE Follows(v, w) /\ w.sr.bits = v.sr.bits
      <4>1. srlog' = srlog
        BY <2>4, <2>7, <3>2, <3>3
      <4>2. Place(w, k)
        BY <2>7, <3>1, <3>3 DEF Kept, Reached, Place, Follows, HalfPeriodModes
      <4>3. Reached(w, srlog', k)
        BY <3>1, <3>3, <4>1, <4>2 DEF Reached
      <4> QED BY <3>2, <4>3
    <3>4. CASE ~(Follows(v, w) /\ w.sr.bits = v.sr.bits)
      BY <2>4, <2>7, <3>2, <3>4, BegunTyped, PutTyped
    <3> QED BY <3>3, <3>4
  <2>8. ASSUME v.sr.active, ~srlog.whole PROVE Goes /\ Ends
    BY <2>4, <2>8
  <2>9. Goes /\ Ends
    BY <2>2, <2>3, <2>5, <2>6, <2>7, <2>8 DEF v, w
  <2> QED BY <1>0, <2>9 DEF v, w
<1>5. CASE cpu_reset
  <2>1. w.sr = v.sr /\ w.acr = v.acr /\ srlog' = srlog
    BY <1>1, <1>5 DEF cpu_reset, Unheard, Synced, via_sync, Good, Chip
  <2> HIDE DEF v, w
  <2>2. \A k \in 0 .. SrBits : Reached(v, srlog, k) => Reached(w, srlog', k)
    BY <2>1 DEF Reached, Place
  <2>3. Goes /\ Ends
    BY <1>2, <2>1, <2>2
  <2> QED BY <1>0, <2>3 DEF v, w
<1>6. CASE UNCHANGED vars
  BY <1>6 DEF vars, ShiftInv, Synced
<1> QED BY <1>3, <1>4, <1>5, <1>6 DEF Next

\* A byte that is shifted out is put on CB2 bit by bit, the highest first,
\* whether T2, phi2 or CB1 clocks it, however many of its cycles are skipped,
\* and whatever becomes of the mode in the middle of it as long as the clock
\* stays the chip's own or stays CB1 (via_sr_event, via_do_shift,
\* via_sr_access).
THEOREM ShiftOutComplete == Spec => ShiftOutIsComplete
<1>1. Init => ShiftInv
  BY BegunTyped DEF Init, ShiftInv
<1>2. LazyInv /\ ShiftInv /\ [Next]_vars
        => ShiftInv' /\ [srlog.whole /\ Synced.sr.active /\ ~Synced'.sr.active
                            => /\ srlog'.line = [i \in 1 .. SrBits |-> {srlog.byte[i]}]
                               /\ Synced'.sr.bits = srlog.byte]_vars
  BY ShiftStep DEF Ended
<1> QED BY <1>1, <1>2, LazyInvariance, PTL DEF Spec, ShiftOutIsComplete
=============================================================================
