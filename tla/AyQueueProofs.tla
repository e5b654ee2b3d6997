--------------------------- MODULE AyQueueProofs ---------------------------
(***************************************************************************)
(* Proofs about the two consumers of the sound.  First AyQueue, for every  *)
(* size of the ring and of a buffer, any registers and any values.  Then   *)
(* AviRecorder, for every size of its ring, of a drain, of a frame's sound *)
(* and of an image.                                                        *)
(***************************************************************************)
EXTENDS AyQueue, AviRecorder, SequenceTheorems, FiniteSetTheorems, WellFoundedInduction, TLAPS

USE DEF cpuVars, modeVars, audioVars

-----------------------------------------------------------------------------
(* The inductive invariant *)

\* Around the ring the tail, the next event to replay, the head that the
\* audio thread saw and the head come in this order, and a slot is filled only
\* when one more is free.
RingInv ==
  /\ gpc \in {"head", "span"} => ev = evq_tail
  /\ gpc \in {"span", "render"} =>
       /\ Dist(evq_tail, ev) <= Dist(evq_tail, head)
       /\ Dist(evq_tail, head) <= Dist(evq_tail, evq_head)
  /\ wpc \in {"fill", "publish"} => Succ(evq_head) # evq_tail
  /\ held # {} => gpc = "mirror"

SpanInv ==
  /\ gpc = "render" => span.start <= span.end
  /\ BufferReplaysAll

\* The write that is under way.
Writing(r) == wpc \in {"seed", "check", "fill", "publish"} /\ wev.reg = r

WriteInv ==
  /\ \A r \in Regs : Writing(r) => wev.val = registers[r]
  /\ wpc = "publish" => evq[evq_head] = wev

\* Slot s is still to be replayed, and it is the last of register r.
Pending(s) == Dist(Position, s) < Dist(Position, evq_head)
Last(s, r) ==
  /\ Pending(s) /\ evq[s].reg = r
  /\ \A t \in Slots : Pending(t) /\ evq[t].reg = r
       => Dist(Position, t) <= Dist(Position, s)

Waiting(r) == Writing(r) \/ \E s \in Slots : Pending(s) /\ evq[s].reg = r

\* The last event of a register carries its value; a register without event is
\* heard as it is, and so is what the immediate path is about to store.
CatchInv ==
  ~lost => \A r \in Regs :
    /\ \A s \in Slots : Last(s, r) => Writing(r) \/ evq[s].val = registers[r]
    /\ Waiting(r) \/ play[r] = registers[r]
    /\ gpc = "mirror" =>
         \A v \in Vals : <<r, v>> \in held => Waiting(r) \/ v = registers[r]

AyInv == TypeOK /\ RingInv /\ SpanInv /\ WriteInv /\ CatchInv

-----------------------------------------------------------------------------
(* Arithmetic on the ring *)

\* The next slot is a slot.
LEMMA SuccType == ASSUME NEW a \in Slots PROVE Succ(a) \in Slots
BY SizeAssumption DEF Slots, Succ

\* A distance is less than the size, and zero only from a slot to itself.
LEMMA DistType ==
  ASSUME NEW a \in Slots, NEW b \in Slots
  PROVE  Dist(a, b) \in Slots /\ (Dist(a, b) = 0 <=> a = b)
BY SizeAssumption DEF Slots, Dist

\* Two slots at the same distance are the same.
LEMMA DistInjective ==
  ASSUME NEW a \in Slots, NEW b \in Slots, NEW c \in Slots,
         Dist(a, b) = Dist(a, c)
  PROVE  b = c
BY SizeAssumption DEF Slots, Dist

\* Publishing a slot adds it at the end.
LEMMA DistPublish ==
  ASSUME NEW a \in Slots, NEW b \in Slots, Succ(b) # a
  PROVE  Dist(a, Succ(b)) = Dist(a, b) + 1
BY SizeAssumption DEF Slots, Succ, Dist

\* Replaying a slot takes it away at the front and keeps the order.
LEMMA DistReplay ==
  ASSUME NEW a \in Slots, NEW s \in Slots
  PROVE  Dist(Succ(a), s) = IF s = a THEN Size - 1 ELSE Dist(a, s) - 1
BY SizeAssumption DEF Slots, Succ, Dist

\* Distances add up along the ring.
LEMMA DistSum ==
  ASSUME NEW a \in Slots, NEW b \in Slots, NEW c \in Slots,
         Dist(a, b) <= Dist(a, c)
  PROVE  Dist(b, c) = Dist(a, c) - Dist(a, b)
BY SizeAssumption DEF Slots, Dist

\* A slot k steps on, short of b, is not b.
LEMMA AtBefore ==
  ASSUME NEW a \in Slots, NEW b \in Slots, NEW k \in Slots, k < Dist(a, b)
  PROVE  At(a, k) # b /\ At(a, k) \in Slots
BY SizeAssumption DEF Slots, Dist, At

\* The offset of an event is that of a sample of the buffer.
LEMMA OffsetInBuffer ==
  ASSUME NEW c \in Cycles, span \in [start : Cycles, end : Cycles],
         span.start <= span.end
  PROVE  Offset(c) <= Samples - 1
<1> DEFINE length == span.end - span.start
           rel == IF c > span.start THEN c - span.start ELSE 0
           o == (rel * Samples) \div length
<1>1. length \in Nat /\ rel \in Nat /\ Samples \in Nat /\ Samples >= 1
  BY MaxCycleAssumption, SamplesAssumption DEF Cycles
<1>2. rel * Samples \in Nat
  BY <1>1
<1>3. length # 0 => o \in Int
  <2> DEFINE n == rel * Samples
  <2>1. n \in Nat
    BY <1>2
  <2> HIDE DEF n, rel
  <2>2. length # 0 => n \div length \in Int
    BY <1>1, <2>1
  <2> QED BY <2>2 DEF n
<1>4. Offset(c) = IF length = 0 THEN 0 ELSE IF o >= Samples THEN Samples - 1 ELSE o
  BY DEF Offset
<1> HIDE DEF o, length
<1>5. CASE length = 0
  BY <1>1, <1>4, <1>5
<1>6. CASE length # 0 /\ o >= Samples
  BY <1>1, <1>4, <1>6
<1>7. CASE length # 0 /\ ~(o >= Samples)
  <2>1. Offset(c) = o
    BY <1>4, <1>7
  <2>2. o \in Int
    BY <1>3, <1>7
  <2> QED BY <1>1, <1>7, <2>1, <2>2
<1> QED BY <1>5, <1>6, <1>7

-----------------------------------------------------------------------------
(* The steps, one lemma per part of the invariant *)

\* ay_init establishes the invariant.
LEMMA InitAy == Init => AyInv
<1> SUFFICES ASSUME Init PROVE AyInv
  OBVIOUS
<1>1. 0 \in Slots /\ 0 \in Cycles /\ 0 \in 0 .. Samples
  BY SizeAssumption, MaxCycleAssumption, SamplesAssumption DEF Slots, Cycles
<1>2. NoEvent \in Event
  BY <1>1, ZeroAssumption DEF NoEvent, Event
<1>3. TypeOK
  BY <1>1, <1>2, ZeroAssumption DEF Init, TypeOK, NoSpan
<1>4. RingInv /\ SpanInv /\ WriteInv
  BY DEF Init, RingInv, SpanInv, BufferReplaysAll, WriteInv, Writing
<1>5. CatchInv
  <2>1. \A s \in Slots : ~Pending(s)
    BY <1>1, DistType DEF Init, Pending, Position, Slots
  <2> QED BY <2>1 DEF Init, CatchInv, Last
<1> QED BY <1>3, <1>4, <1>5 DEF AyInv

\* Every step keeps the types.
LEMMA TypeStep == TypeOK /\ Next => TypeOK'
<1> SUFFICES ASSUME TypeOK, Next PROVE TypeOK'
  OBVIOUS
<1>0. 0 \in Slots /\ 0 \in Cycles /\ 0 \in 0 .. Samples
  BY SizeAssumption, MaxCycleAssumption, SamplesAssumption DEF Slots, Cycles
<1>e. NoEvent \in Event
  BY <1>0, ZeroAssumption DEF NoEvent, Event
<1>1. ASSUME NEW r \in Regs, NEW v \in Vals, WriteRegister(r, v) PROVE TypeOK'
  BY <1>1 DEF TypeOK, WriteRegister, Event
<1>2. CASE seed_play
  BY <1>2 DEF TypeOK, seed_play
<1>3. CASE CheckRoom
  BY <1>3, <1>e DEF TypeOK, CheckRoom
<1>4. CASE FillSlot
  BY <1>4 DEF TypeOK, FillSlot
<1>5. CASE PublishHead
  BY <1>5, SuccType DEF TypeOK, PublishHead
<1>6. CASE StampCycle
  BY <1>6, <1>e DEF TypeOK, StampCycle, Event
<1>7. CASE CpuTime
  BY <1>7 DEF TypeOK, CpuTime
<1>8. CASE GenerateBegin
  BY <1>8 DEF TypeOK, GenerateBegin
<1>9. CASE mirror_main_to_play
  <2> USE DEF TypeOK
  <2>1. CASE left = {} /\ held = {} /\ gpc' = "idle" /\ UNCHANGED <<left, held, play>>
    BY <1>9, <2>1 DEF mirror_main_to_play
  <2>2. ASSUME NEW r \in left, held' = {<<r, registers[r]>>}, left' = left \ {r},
               UNCHANGED <<gpc, play>>
        PROVE  TypeOK'
    BY <1>9, <2>2 DEF mirror_main_to_play
  <2>3. ASSUME NEW c \in held, play' = [play EXCEPT ![c[1]] = c[2]], held' = {},
               UNCHANGED <<gpc, left>>
        PROVE  TypeOK'
    <3>1. c[1] \in Regs /\ c[2] \in Vals
      OBVIOUS
    <3>2. play' \in [Regs -> Vals]
      BY <2>3, <3>1
    <3> QED BY <1>9, <2>3, <3>2 DEF mirror_main_to_play
  <2> QED BY <1>9, <2>1, <2>2, <2>3 DEF mirror_main_to_play
<1>10. CASE LoadHead
  BY <1>10 DEF TypeOK, LoadHead
<1>11. CASE LoadSpan
  <2>1. evq[ev].cycle \in Cycles
    BY DEF TypeOK, Event
  <2>2. span' \in [start : Cycles, end : Cycles]
    BY <1>11, <2>1 DEF TypeOK, LoadSpan
  <2> QED BY <1>11, <1>0, <2>2 DEF TypeOK, LoadSpan
<1>12. CASE ReplayEvent
  <2>1. evq[ev].reg \in Regs /\ evq[ev].val \in Vals /\ Succ(ev) \in Slots
    BY SuccType DEF TypeOK, Event
  <2> QED BY <1>12, <2>1 DEF TypeOK, ReplayEvent
<1>13. CASE ProduceSample
  <2>1. i' \in 0 .. Samples
    BY <1>13, SamplesAssumption DEF TypeOK, ProduceSample
  <2> QED BY <1>13, <2>1 DEF TypeOK, ProduceSample
<1>14. CASE ReleaseSlots
  BY <1>14, <1>0 DEF TypeOK, ReleaseSlots, NoSpan
<1> QED
  BY <1>1, <1>2, <1>3, <1>4, <1>5, <1>6, <1>7, <1>8, <1>9, <1>10, <1>11,
     <1>12, <1>13, <1>14 DEF Next, WriteStep, ay_generate, GenerateStep

\* Every step keeps the order of the indices.
LEMMA RingStep == TypeOK /\ RingInv /\ SpanInv /\ Next => RingInv'
<1> SUFFICES ASSUME TypeOK, RingInv, SpanInv, Next PROVE RingInv'
  OBVIOUS
<1>0. /\ evq_head \in Slots /\ evq_tail \in Slots /\ ev \in Slots /\ head \in Slots
  BY DEF TypeOK
<1>d. \A a, b \in Slots : Dist(a, b) \in 0 .. Size - 1 /\ (Dist(a, b) = 0 <=> a = b)
  BY DistType DEF Slots
<1>1. CASE \E r \in Regs, v \in Vals : WriteRegister(r, v)
  BY <1>1 DEF RingInv, WriteRegister
<1>2. CASE seed_play
  BY <1>2 DEF RingInv, seed_play
<1>3. CASE CheckRoom
  BY <1>3 DEF RingInv, CheckRoom
<1>4. CASE FillSlot
  BY <1>4 DEF RingInv, FillSlot
<1>5. CASE PublishHead
  <2>1. Dist(evq_tail, evq_head') = Dist(evq_tail, evq_head) + 1
    BY <1>0, <1>5, DistPublish DEF PublishHead, RingInv
  <2>2. Dist(evq_tail, evq_head) \in Int /\ Dist(evq_tail, head) \in Int
    BY <1>0, <1>d
  <2> QED BY <1>5, <2>1, <2>2 DEF RingInv, PublishHead
<1>6. CASE StampCycle
  BY <1>6 DEF RingInv, StampCycle
<1>7. CASE CpuTime
  BY <1>7 DEF RingInv, CpuTime
<1>8. CASE GenerateBegin
  BY <1>8 DEF RingInv, GenerateBegin
<1>9. CASE mirror_main_to_play
  BY <1>9 DEF RingInv, mirror_main_to_play
<1>10. CASE LoadHead
  <2>1. Dist(evq_tail, evq_tail) = 0 /\ Dist(evq_tail, evq_head) \in 0 .. Size - 1
    BY <1>0, <1>d
  <2> QED BY <1>10, <2>1, SizeAssumption DEF RingInv, LoadHead
<1>11. CASE LoadSpan
  BY <1>11 DEF RingInv, LoadSpan
<1>12. CASE ReplayEvent
  <2>1. ev # head
    BY <1>12 DEF ReplayEvent, Due
  <2>2. Dist(evq_tail, ev) <= Dist(evq_tail, head)
    BY <1>12 DEF RingInv, ReplayEvent
  <2>3. Dist(evq_tail, Succ(ev)) <= Dist(evq_tail, head)
    BY <1>0, <2>1, <2>2, SizeAssumption DEF Dist, Succ, Slots
  <2> QED BY <1>12, <2>3 DEF RingInv, ReplayEvent
<1>13. CASE ProduceSample
  BY <1>13 DEF RingInv, ProduceSample
<1>14. CASE ReleaseSlots
  <2>1. Dist(evq_tail, head) <= Dist(evq_tail, evq_head)
    BY <1>14 DEF RingInv, ReleaseSlots
  <2>2. Succ(evq_head) # evq_tail => Succ(evq_head) # head
    BY <1>0, <2>1, SizeAssumption DEF Dist, Succ, Slots
  <2> QED BY <1>14, <2>2 DEF RingInv, ReleaseSlots
<1> QED
  BY <1>1, <1>2, <1>3, <1>4, <1>5, <1>6, <1>7, <1>8, <1>9, <1>10, <1>11,
     <1>12, <1>13, <1>14 DEF Next, WriteStep, ay_generate, GenerateStep

\* Every step keeps the span in order and replays all of a buffer: a sample is
\* the last one only when no event is due later.
LEMMA SpanStep == TypeOK /\ RingInv /\ SpanInv /\ Next => SpanInv'
<1> SUFFICES ASSUME TypeOK, RingInv, SpanInv, Next PROVE SpanInv'
  OBVIOUS
<1> USE DEF SpanInv, BufferReplaysAll
<1>1. CASE UNCHANGED audioVars
  BY <1>1
<1>2. CASE GenerateBegin \/ mirror_main_to_play \/ LoadHead \/ ReleaseSlots
  BY <1>2 DEF GenerateBegin, mirror_main_to_play, LoadHead, ReleaseSlots
<1>3. CASE LoadSpan
  <2>1. cur_cycle \in Nat /\ last_gen_cycle \in Nat /\ evq[ev].cycle \in Nat
    BY MaxCycleAssumption DEF TypeOK, Event, Cycles
  <2>2. span'.start <= span'.end
    BY <1>3, <2>1 DEF LoadSpan
  <2> QED BY <1>3, <2>2, SamplesAssumption DEF LoadSpan
<1>4. CASE ReplayEvent
  BY <1>4, SamplesAssumption DEF ReplayEvent, TypeOK
<1>5. CASE ProduceSample
  <2>1. evq[ev].cycle \in Cycles
    BY DEF TypeOK, Event
  <2>2. span \in [start : Cycles, end : Cycles] /\ span.start <= span.end
    BY <1>5 DEF TypeOK, ProduceSample
  <2>3. Offset(evq[ev].cycle) <= Samples - 1
    BY <2>1, <2>2, OffsetInBuffer
  <2>4. i' = Samples => i = Samples - 1
    BY <1>5, SamplesAssumption DEF ProduceSample, TypeOK
  <2>5. i' = Samples => ev = head
    BY <1>5, <2>3, <2>4 DEF ProduceSample, Due
  <2> QED BY <1>5, <2>2, <2>5 DEF ProduceSample
<1> QED
  BY <1>1, <1>2, <1>3, <1>4, <1>5 DEF Next, WriteStep, ay_generate, GenerateStep,
     WriteRegister, seed_play, CheckRoom, FillSlot, PublishHead, StampCycle, CpuTime

\* Every step keeps the write under way equal to its register and to its slot.
LEMMA WriteStepInv == TypeOK /\ WriteInv /\ Next => WriteInv'
<1> SUFFICES ASSUME TypeOK, WriteInv, Next PROVE WriteInv'
  OBVIOUS
<1> USE DEF WriteInv, Writing
<1>1. ASSUME NEW r \in Regs, NEW v \in Vals, WriteRegister(r, v) PROVE WriteInv'
  BY <1>1 DEF WriteRegister, TypeOK
<1>2. CASE seed_play
  BY <1>2 DEF seed_play
<1>3. CASE CheckRoom
  BY <1>3 DEF CheckRoom
<1>4. CASE FillSlot
  BY <1>4 DEF FillSlot, TypeOK
<1>5. CASE PublishHead \/ StampCycle \/ CpuTime
  BY <1>5 DEF PublishHead, StampCycle, CpuTime
<1>6. CASE ay_generate
  <2>1. UNCHANGED <<cpuVars, evq, evq_head>>
    BY <1>6 DEF ay_generate, GenerateStep, GenerateBegin, mirror_main_to_play,
       LoadHead, LoadSpan, ReplayEvent, ProduceSample, ReleaseSlots
  <2> QED BY <2>1
<1> QED
  BY <1>1, <1>2, <1>3, <1>4, <1>5, <1>6 DEF Next, WriteStep

\* A step that leaves the pending events, the write under way and the shadow
\* alone keeps what they say of the registers.
LEMMA CatchFrame ==
  ASSUME CatchInv,
         lost' = lost, registers' = registers, evq' = evq,
         evq_head' = evq_head, Position' = Position, play' = play,
         \A r \in Regs : Writing(r)' <=> Writing(r),
         gpc' = "mirror" => held' = {} \/ (gpc = "mirror" /\ held' = held)
  PROVE  CatchInv'
<1>1. \A s \in Slots : Pending(s)' <=> Pending(s)
  BY DEF Pending, Dist
<1>2. \A s \in Slots, r \in Regs : Last(s, r)' <=> Last(s, r)
  BY <1>1 DEF Last, Dist
<1>3. \A r \in Regs : Waiting(r)' <=> Waiting(r)
  BY <1>1 DEF Waiting
<1> QED BY <1>2, <1>3 DEF CatchInv

\* Every step keeps what the pending events say of the registers.
LEMMA CatchStep ==
  TypeOK /\ RingInv /\ SpanInv /\ WriteInv /\ CatchInv /\ Next => CatchInv'
<1> SUFFICES ASSUME TypeOK, RingInv, SpanInv, WriteInv, CatchInv, Next PROVE CatchInv'
  OBVIOUS
<1>0. /\ evq_head \in Slots /\ evq_tail \in Slots /\ ev \in Slots /\ head \in Slots
      /\ Position \in Slots
  BY DEF TypeOK, Position
<1>d. \A a, b \in Slots : Dist(a, b) \in Int
  BY DistType DEF Slots
<1>1. ASSUME NEW r \in Regs, NEW v \in Vals, WriteRegister(r, v) PROVE CatchInv'
  <2>1. \A s \in Slots : Pending(s)' <=> Pending(s)
    BY <1>1 DEF WriteRegister, Pending, Dist, Position
  <2>2. \A s \in Slots, q \in Regs : Last(s, q)' <=> Last(s, q)
    BY <1>1, <2>1 DEF WriteRegister, Last, Dist, Position
  <2>3. \A q \in Regs : ~Writing(q) /\ (Writing(q)' <=> q = r)
    BY <1>1 DEF WriteRegister, Writing
  <2>4. \A q \in Regs : Waiting(q)' <=> (q = r \/ Waiting(q))
    BY <1>1, <2>1, <2>3 DEF WriteRegister, Waiting
  <2>5. \A q \in Regs : q # r => registers'[q] = registers[q]
    BY <1>1 DEF WriteRegister, TypeOK
  <2>6. lost' = lost /\ play' = play /\ held' = held /\ gpc' = gpc /\ evq' = evq
    BY <1>1 DEF WriteRegister
  <2> QED BY <2>2, <2>3, <2>4, <2>5, <2>6 DEF CatchInv
<1>2. CASE seed_play
  <2>1. \A s \in Slots : Pending(s)' <=> Pending(s)
    BY <1>2 DEF seed_play, Pending, Dist, Position
  <2>2. \A s \in Slots, q \in Regs : Last(s, q)' <=> Last(s, q)
    BY <1>2, <2>1 DEF seed_play, Last, Dist, Position
  <2>3. \A q \in Regs : Writing(q)' <=> Writing(q)
    BY <1>2 DEF seed_play, Writing
  <2>4. \A q \in Regs : Waiting(q)' <=> Waiting(q)
    BY <1>2, <2>1, <2>3 DEF seed_play, Waiting
  <2>5. play' = play \/ play' = registers
    BY <1>2 DEF seed_play
  <2>6. /\ lost' = lost /\ registers' = registers /\ held' = held /\ gpc' = gpc
        /\ evq' = evq
    BY <1>2 DEF seed_play
  <2> QED BY <2>2, <2>3, <2>4, <2>5, <2>6 DEF CatchInv
<1>3. CASE CheckRoom
  <2>1. CASE lost'
    BY <2>1 DEF CatchInv
  <2>2. CASE ~lost'
    <3>1. wpc' = "fill" /\ wev' = wev /\ lost' = lost
      BY <1>3, <2>2 DEF CheckRoom
    <3>2. \A r \in Regs : Writing(r)' <=> Writing(r)
      BY <1>3, <3>1 DEF CheckRoom, Writing
    <3>3. Position' = Position
      BY <1>3 DEF CheckRoom, Position
    <3> QED BY <1>3, <3>1, <3>2, <3>3, CatchFrame DEF CheckRoom
  <2> QED BY <2>1, <2>2
<1>4. CASE FillSlot
  <2>1. \A s \in Slots : Pending(s)' <=> Pending(s)
    BY <1>4 DEF FillSlot, Pending, Dist, Position
  <2>2. ~Pending(evq_head)
    BY <1>0, <1>d DEF Pending
  <2>3. \A s \in Slots : Pending(s) => evq'[s] = evq[s]
    BY <1>4, <2>2 DEF FillSlot, TypeOK
  <2>4. Position' = Position
    BY <1>4 DEF FillSlot, Position
  <2>5. \A s \in Slots, q \in Regs : Last(s, q)' <=> Last(s, q)
    BY <2>1, <2>3, <2>4 DEF Last, Dist
  <2>6. \A q \in Regs : Writing(q)' <=> Writing(q)
    BY <1>4 DEF FillSlot, Writing
  <2>7. \A q \in Regs : Waiting(q)' <=> Waiting(q)
    BY <2>1, <2>3, <2>6 DEF Waiting
  <2>8. \A s \in Slots, q \in Regs : Last(s, q) => evq'[s] = evq[s]
    BY <2>3 DEF Last
  <2>9. /\ lost' = lost /\ registers' = registers /\ held' = held /\ gpc' = gpc
        /\ play' = play
    BY <1>4 DEF FillSlot
  <2> QED BY <2>5, <2>6, <2>7, <2>8, <2>9 DEF CatchInv
<1>5. CASE PublishHead
  <2> DEFINE h == evq_head
  <2>1. Dist(evq_tail, Succ(h)) = Dist(evq_tail, h) + 1
    BY <1>0, <1>5, DistPublish DEF PublishHead, RingInv
  <2>2. /\ Position' = Position
        /\ Dist(Position, Succ(h)) = Dist(Position, h) + 1
    <3>1. Position' = Position
      BY <1>5 DEF PublishHead, Position
    <3>2. CASE gpc # "render"
      BY <2>1, <3>1, <3>2 DEF Position
    <3>3. CASE gpc = "render"
      <4>1. Succ(h) # ev
        BY <1>0, <1>5, <3>3, SizeAssumption DEF PublishHead, RingInv, Dist, Succ, Slots
      <4> QED BY <1>0, <3>1, <3>3, <4>1, DistPublish DEF Position
    <3> QED BY <3>2, <3>3
  <2>3. \A s \in Slots : Pending(s)' <=> (Pending(s) \/ s = h)
    <3> SUFFICES ASSUME NEW s \in Slots PROVE Pending(s)' <=> (Pending(s) \/ s = h)
      OBVIOUS
    <3>1. Pending(s)' <=> Dist(Position, s) < Dist(Position, h) + 1
      BY <1>5, <2>2 DEF PublishHead, Pending, Dist
    <3>2. Dist(Position, s) = Dist(Position, h) => s = h
      BY <1>0, DistInjective
    <3> QED BY <1>0, <1>d, <3>1, <3>2 DEF Pending
  <2>4. evq' = evq /\ evq[h] = wev /\ \A q \in Regs : Writing(q) <=> wev.reg = q
    BY <1>5 DEF PublishHead, WriteInv, Writing
  <2>5. \A q \in Regs : ~Writing(q)'
    BY <1>5 DEF PublishHead, Writing
  <2>6. \A s \in Slots, q \in Regs : Last(s, q)' /\ q # wev.reg => Last(s, q)
    BY <2>2, <2>3, <2>4 DEF Last, Dist
  <2>7. \A s \in Slots, q \in Regs : Last(s, q)' /\ q = wev.reg => s = h
    <3> SUFFICES ASSUME NEW s \in Slots, NEW q \in Regs, Last(s, q)', q = wev.reg
                 PROVE  s = h
      OBVIOUS
    <3>1. Dist(Position, h) <= Dist(Position, s)
      BY <1>0, <2>2, <2>3, <2>4 DEF Last, Dist
    <3>2. Pending(s) \/ s = h
      BY <2>3 DEF Last
    <3> QED BY <1>0, <1>d, <3>1, <3>2 DEF Pending
  <2>8. \A q \in Regs : Waiting(q) => Waiting(q)'
    BY <1>0, <2>3, <2>4 DEF Waiting
  <2>9. /\ lost' = lost /\ registers' = registers /\ held' = held /\ gpc' = gpc
        /\ play' = play
    BY <1>5 DEF PublishHead
  <2>10. \A q \in Regs : q = wev.reg => wev.val = registers[q]
    BY <2>4 DEF WriteInv
  <2> QED BY <2>4, <2>5, <2>6, <2>7, <2>8, <2>9, <2>10 DEF CatchInv
<1>6. CASE StampCycle \/ CpuTime
  <2>1. \A r \in Regs : Writing(r)' <=> Writing(r)
    BY <1>6 DEF StampCycle, CpuTime, Writing
  <2>2. Position' = Position
    BY <1>6 DEF StampCycle, CpuTime, Position
  <2> QED BY <1>6, <2>1, <2>2, CatchFrame DEF StampCycle, CpuTime
<1>7. CASE GenerateBegin \/ LoadHead \/ LoadSpan \/ ProduceSample \/ ReleaseSlots
  <2> USE DEF GenerateBegin, LoadHead, LoadSpan, ProduceSample, ReleaseSlots
  <2>1. \A r \in Regs : Writing(r)' <=> Writing(r)
    BY <1>7 DEF Writing
  <2>2. Position' = Position
    BY <1>7 DEF Position, RingInv, SpanInv, BufferReplaysAll
  <2>3. gpc' = "mirror" => held' = {}
    BY <1>7 DEF RingInv
  <2> QED BY <1>7, <2>1, <2>2, <2>3, CatchFrame
<1>8. CASE mirror_main_to_play
  <2>1. /\ Position' = Position
        /\ \A q \in Regs : Writing(q)' <=> Writing(q)
        /\ UNCHANGED <<lost, registers, evq, evq_head>>
    BY <1>8 DEF mirror_main_to_play, Position, Writing
  <2>2. \A s \in Slots : Pending(s)' <=> Pending(s)
    BY <2>1 DEF Pending, Dist
  <2>3. \A s \in Slots, q \in Regs : Last(s, q)' <=> Last(s, q)
    BY <2>1, <2>2 DEF Last, Dist
  <2>4. \A q \in Regs : Waiting(q)' <=> Waiting(q)
    BY <2>1, <2>2 DEF Waiting
  <2>5. CASE gpc' = "idle" /\ UNCHANGED <<left, held, play>>
    BY <2>1, <2>3, <2>4, <2>5 DEF CatchInv
  <2>6. ASSUME NEW r \in left, held' = {<<r, registers[r]>>}, UNCHANGED <<gpc, play>>
        PROVE  CatchInv'
    <3>1. \A q \in Regs, v \in Vals : <<q, v>> \in held' => v = registers[q]
      BY <2>6
    <3> QED BY <2>1, <2>3, <2>4, <2>6, <3>1 DEF CatchInv
  <2>7. ASSUME NEW c \in held, play' = [play EXCEPT ![c[1]] = c[2]], held' = {},
               UNCHANGED <<gpc, left>>
        PROVE  CatchInv'
    <3>1. c[1] \in Regs /\ c[2] \in Vals /\ c = <<c[1], c[2]>>
      BY DEF TypeOK
    <3>2. gpc = "mirror"
      BY <1>8 DEF mirror_main_to_play
    <3>3. ~lost => Waiting(c[1]) \/ c[2] = registers[c[1]]
      BY <3>1, <3>2 DEF CatchInv
    <3>4. \A q \in Regs : play'[q] = IF q = c[1] THEN c[2] ELSE play[q]
      BY <2>7, <3>1 DEF TypeOK
    <3> QED BY <2>1, <2>3, <2>4, <2>7, <3>3, <3>4 DEF CatchInv
  <2> QED BY <1>8, <2>5, <2>6, <2>7 DEF mirror_main_to_play
<1>9. CASE ReplayEvent
  <2>1. /\ Position = ev /\ Position' = Succ(ev) /\ ev # evq_head
    <3>1. gpc = "render" /\ gpc' = "render" /\ ev' = Succ(ev) /\ ev # head
      BY <1>9 DEF ReplayEvent, Due
    <3>2. ev # evq_head
      <4>1. Dist(evq_tail, ev) <= Dist(evq_tail, head)
            /\ Dist(evq_tail, head) <= Dist(evq_tail, evq_head)
        BY <3>1 DEF RingInv
      <4>2. ev = evq_head => Dist(evq_tail, ev) = Dist(evq_tail, head)
        BY <1>0, <1>d, <4>1
      <4> QED BY <1>0, <3>1, <4>2, DistInjective
    <3> QED BY <3>1, <3>2 DEF Position
  <2>2. \A s \in Slots : Dist(Succ(ev), s) = IF s = ev THEN Size - 1 ELSE Dist(ev, s) - 1
    BY <1>0, DistReplay
  <2>3. \A s \in Slots : Pending(s)' <=> Pending(s) /\ s # ev
    <3> SUFFICES ASSUME NEW s \in Slots PROVE Pending(s)' <=> Pending(s) /\ s # ev
      OBVIOUS
    <3>1. Pending(s)' <=> Dist(Succ(ev), s) < Dist(Succ(ev), evq_head)
      BY <1>9, <2>1 DEF ReplayEvent, Pending, Dist
    <3>2. Dist(ev, evq_head) < Size /\ Dist(ev, s) \in Int /\ Dist(ev, evq_head) \in Int
      BY <1>0, DistType, SizeAssumption DEF Slots
    <3> QED BY <1>0, <2>1, <2>2, <3>1, <3>2, SizeAssumption DEF Pending
  <2>4. Pending(ev)
    <3>1. Dist(ev, ev) = 0 /\ Dist(ev, evq_head) \in Nat /\ Dist(ev, evq_head) # 0
      BY <1>0, <2>1, DistType DEF Slots
    <3> QED BY <2>1, <3>1 DEF Pending
  <2>5. /\ lost' = lost /\ registers' = registers /\ evq' = evq /\ gpc' # "mirror"
        /\ \A q \in Regs : Writing(q)' <=> Writing(q)
    BY <1>9 DEF ReplayEvent, Writing
  <2>6. \A s \in Slots, q \in Regs : Last(s, q)' => Last(s, q)
    <3> SUFFICES ASSUME NEW s \in Slots, NEW q \in Regs, Last(s, q)' PROVE Last(s, q)
      OBVIOUS
    <3>1. Pending(s) /\ s # ev /\ evq[s].reg = q
      BY <2>3, <2>5 DEF Last
    <3>2. ASSUME NEW t \in Slots, Pending(t), evq[t].reg = q
          PROVE  Dist(ev, t) <= Dist(ev, s)
      <4>1. CASE t = ev
        BY <1>0, <4>1, DistType, SizeAssumption DEF Slots
      <4>2. CASE t # ev
        <5>1. Dist(Succ(ev), t) <= Dist(Succ(ev), s)
          BY <2>1, <2>3, <2>5, <3>2, <4>2 DEF Last, Dist
        <5> QED BY <1>0, <1>d, <2>2, <3>1, <4>2, <5>1
      <4> QED BY <4>1, <4>2
    <3> QED BY <2>1, <3>1, <3>2 DEF Last
  <2>7. \A q \in Regs : Waiting(q)' \/ ~Waiting(q) \/ (evq[ev].reg = q /\ Last(ev, q))
    <3> SUFFICES ASSUME NEW q \in Regs, ~Waiting(q)', Waiting(q)
                 PROVE  evq[ev].reg = q /\ Last(ev, q)
      OBVIOUS
    <3>1. ~Writing(q)
      BY <2>5 DEF Waiting
    <3>2. \A s \in Slots : Pending(s) /\ evq[s].reg = q => s = ev
      BY <2>3, <2>5 DEF Waiting
    <3>3. evq[ev].reg = q
      BY <3>1, <3>2 DEF Waiting
    <3> QED BY <1>0, <1>d, <2>1, <2>4, <3>2, <3>3 DEF Last
  <2>8. \A q \in Regs : play'[q] = IF q = evq[ev].reg THEN evq[ev].val ELSE play[q]
    <3>1. evq[ev].reg \in Regs
      BY <1>0 DEF TypeOK, Event
    <3> QED BY <1>9, <3>1 DEF ReplayEvent, TypeOK
  <2>9. ASSUME NEW q \in Regs, ~lost PROVE Waiting(q)' \/ play'[q] = registers[q]
    <3>1. CASE ~Waiting(q)
      <4>1. evq[ev].reg # q
        BY <1>0, <2>4, <3>1 DEF Waiting
      <4> QED BY <2>8, <2>9, <3>1, <4>1 DEF CatchInv
    <3>2. CASE evq[ev].reg = q /\ Last(ev, q)
      <4>1. Writing(q) \/ evq[ev].val = registers[q]
        BY <1>0, <2>9, <3>2 DEF CatchInv
      <4> QED BY <2>5, <2>8, <3>2, <4>1 DEF Waiting
    <3> QED BY <2>7, <3>1, <3>2
  <2> QED BY <2>5, <2>6, <2>9 DEF CatchInv
<1> QED
  BY <1>1, <1>2, <1>3, <1>4, <1>5, <1>6, <1>7, <1>8, <1>9 DEF Next, WriteStep,
     ay_generate, GenerateStep

\* The invariant holds of every reachable state.
THEOREM AyInvariance == Spec => []AyInv
<1>1. AyInv /\ [Next]_vars => AyInv'
  <2>1. AyInv /\ Next => AyInv'
    BY TypeStep, RingStep, SpanStep, WriteStepInv, CatchStep DEF AyInv
  <2>2. AyInv /\ UNCHANGED vars => AyInv'
    <3> SUFFICES ASSUME AyInv, UNCHANGED vars PROVE AyInv'
      OBVIOUS
    <3>1. TypeOK' /\ RingInv' /\ SpanInv' /\ WriteInv'
      BY DEF AyInv, vars, TypeOK, RingInv, SpanInv, WriteInv, Writing,
         BufferReplaysAll, Dist
    <3>2. CatchInv'
      <4>1. Position' = Position /\ \A r \in Regs : Writing(r)' <=> Writing(r)
        BY DEF vars, Position, Writing
      <4> QED BY <4>1, CatchFrame DEF AyInv, vars, RingInv
    <3> QED BY <3>1, <3>2 DEF AyInv
  <2> QED BY <2>1, <2>2
<1> QED BY <1>1, InitAy, PTL DEF Spec

-----------------------------------------------------------------------------
(* Results *)

\* The variables of the ring and of both threads keep their types.
THEOREM AyTypeCorrect == Spec => []TypeOK
<1>1. AyInv => TypeOK
  BY DEF AyInv
<1> QED BY <1>1, AyInvariance, PTL

\* ay_generate never reads a slot that ay_write_data_timed is filling.
THEOREM SlotOwnership == Spec => []SlotsAreOwned
<1>1. AyInv => SlotsAreOwned
  <2> SUFFICES ASSUME AyInv, wpc \in {"fill", "publish"}, gpc \in {"span", "render"},
                      NEW k \in 0 .. Size - 1, k < Dist(Position, head)
               PROVE  At(Position, k) # evq_head
    BY DEF SlotsAreOwned
  <2>1. /\ evq_head \in Slots /\ evq_tail \in Slots /\ ev \in Slots /\ head \in Slots
    BY DEF AyInv, TypeOK
  <2>2. Position = ev
    BY DEF AyInv, RingInv, Position
  <2>3. Dist(ev, head) <= Dist(ev, evq_head)
    BY <2>1, SizeAssumption DEF AyInv, RingInv, Dist, Slots
  <2>4. k < Dist(ev, evq_head) /\ k \in Slots
    BY <2>1, <2>2, <2>3, DistType, SizeAssumption DEF Slots
  <2> QED BY <2>1, <2>2, <2>4, AtBefore
<1> QED BY <1>1, AyInvariance, PTL

\* A buffer replays every event of its snapshot, for every length of a buffer
\* and every span.
THEOREM BufferComplete == Spec => []BufferReplaysAll
<1>1. AyInv => BufferReplaysAll
  BY DEF AyInv, SpanInv
<1> QED BY <1>1, AyInvariance, PTL

\* When nothing is under way, what is heard is what the program wrote.
THEOREM CatchUp == Spec => []PlaybackCatchesUp
<1>1. AyInv => PlaybackCatchesUp
  <2> SUFFICES ASSUME AyInv, wpc = "idle", gpc = "idle", evq_head = evq_tail, ~lost
               PROVE  play = registers
    BY DEF PlaybackCatchesUp
  <2>1. \A s \in Slots : ~Pending(s)
    BY SMTT(20), DistType DEF Pending, Position, AyInv, TypeOK, Slots
  <2>2. \A r \in Regs : ~Waiting(r)
    BY <2>1 DEF Waiting, Writing
  <2>3. \A r \in Regs : play[r] = registers[r]
    BY <2>2 DEF AyInv, CatchInv
  <2> QED BY <2>3 DEF AyInv, TypeOK
<1> QED BY <1>1, AyInvariance, PTL

\* The two together, for every length of the ring, of a buffer and of a span.
THEOREM PlaybackComplete == Spec => []PlaybackIsComplete
<1>1. BufferReplaysAll /\ PlaybackCatchesUp => PlaybackIsComplete
  BY DEF PlaybackIsComplete
<1> QED BY <1>1, BufferComplete, CatchUp, PTL

-----------------------------------------------------------------------------
(* Refinement of SoundReplay *)

Notes == Regs \X Vals
Note(e) == <<e.reg, e.val>>
Writes == wpc \in {"seed", "check", "fill", "publish"}

\* The queue holds one write per slot from the next one to replay to the head.
LEMMA QueuedType ==
  ASSUME TypeOK
  PROVE  /\ Queued \in Seq(Notes)
         /\ Len(Queued) = Dist(Position, evq_head)
         /\ Len(Queued) \in Nat
         /\ \A k \in 1 .. Len(Queued) : Queued[k] = Note(evq[At(Position, k - 1)])
<1> DEFINE n == Dist(Position, evq_head)
<1>1. Position \in Slots /\ evq_head \in Slots
  BY DEF TypeOK, Position
<1>2. n \in Slots /\ n \in Nat
  BY <1>1, DistType DEF Slots
<1>3. \A k \in 1 .. n : At(Position, k - 1) \in Slots
  BY <1>1, <1>2, SizeAssumption DEF Slots, At
<1>4. \A s \in Slots : Note(evq[s]) \in Notes
  BY DEF TypeOK, Event, Note, Notes
<1>5. Queued = [k \in 1 .. n |-> Note(evq[At(Position, k - 1)])]
  BY DEF Queued, Note
<1> HIDE DEF n
<1>6. Queued \in [1 .. n -> Notes]
  BY <1>3, <1>4, <1>5
<1>7. Queued \in Seq(Notes) /\ Len(Queued) = n
  BY <1>2, <1>6
<1> QED BY <1>2, <1>5, <1>7 DEF n

\* The write under way is a note.
LEMMA WevNote == TypeOK => <<wev.reg, wev.val>> \in Notes
BY DEF TypeOK, Event, Notes

\* A step that leaves the slots and their order alone leaves the queue alone.
LEMMA QueuedFrame ==
  ASSUME Position' = Position, evq_head' = evq_head, evq' = evq
  PROVE  Queued' = Queued
BY DEF Queued, Dist, At

\* A step that leaves everything SoundReplay talks about alone is a stutter.
LEMMA ReplayStutter ==
  ASSUME Queued' = Queued, Writes' <=> Writes,
         UNCHANGED <<wev, registers, play, held, lost>>
  PROVE  UNCHANGED Replay!vars
BY DEF Replay!vars, Unheard, Writes

\* Filling the slot at the head touches none that is queued.
LEMMA QueuedFill ==
  ASSUME TypeOK, FillSlot
  PROVE  Queued' = Queued
<1>1. Position \in Slots /\ evq_head \in Slots /\ Position' = Position
      /\ evq_head' = evq_head /\ evq' = [evq EXCEPT ![evq_head] = wev]
  BY DEF TypeOK, Position, FillSlot, audioVars
<1>2. \A k \in 1 .. Dist(Position, evq_head) :
        evq'[At(Position, k - 1)] = evq[At(Position, k - 1)]
  <2> SUFFICES ASSUME NEW k \in 1 .. Dist(Position, evq_head)
               PROVE  evq'[At(Position, k - 1)] = evq[At(Position, k - 1)]
    OBVIOUS
  <2>1. k - 1 \in Slots /\ k - 1 < Dist(Position, evq_head)
    BY <1>1, DistType, SizeAssumption DEF Slots
  <2>2. At(Position, k - 1) # evq_head /\ At(Position, k - 1) \in Slots
    BY <1>1, <2>1, AtBefore
  <2> QED BY <1>1, <2>2 DEF TypeOK
<1>3. Queued' = [k \in 1 .. Dist(Position, evq_head) |->
                   Note(evq'[At(Position, k - 1)])]
  BY <1>1 DEF Queued, Note, Dist, At
<1>4. Queued = [k \in 1 .. Dist(Position, evq_head) |->
                  Note(evq[At(Position, k - 1)])]
  BY DEF Queued, Note
<1> QED BY <1>2, <1>3, <1>4

\* Publishing the slot makes the write under way the last one of the queue.
LEMMA QueuedPublish ==
  ASSUME TypeOK, RingInv, WriteInv, PublishHead
  PROVE  Queued' = Append(Queued, <<wev.reg, wev.val>>)
<1> DEFINE n == Dist(Position, evq_head)
           w == <<wev.reg, wev.val>>
<1>1. /\ Position \in Slots /\ evq_head \in Slots /\ Position' = Position
      /\ evq_head' = Succ(evq_head) /\ evq' = evq /\ evq[evq_head] = wev
  BY DEF TypeOK, Position, PublishHead, audioVars, WriteInv
<1>2. Succ(evq_head) # Position
  BY SizeAssumption DEF RingInv, PublishHead, Position, Dist, Succ, Slots, TypeOK
<1>3. Dist(Position, Succ(evq_head)) = n + 1 /\ n \in Nat
  BY <1>1, <1>2, DistPublish, DistType DEF Slots
<1>4. At(Position, n) = evq_head
  BY <1>1, SizeAssumption DEF At, Dist, Slots
<1>5. /\ Queued \in Seq(Notes) /\ Len(Queued) = n
      /\ \A k \in 1 .. n : Queued[k] = Note(evq[At(Position, k - 1)])
  BY QueuedType
<1>6. Queued' = [k \in 1 .. n + 1 |-> Note(evq[At(Position, k - 1)])]
  BY <1>1, <1>3 DEF Queued, Note, Dist, At
<1>7. w \in Notes /\ Note(evq[evq_head]) = w
  BY <1>1, WevNote DEF Note
<1> HIDE DEF n, w
<1>8. /\ Append(Queued, w) \in Seq(Notes)
      /\ Len(Append(Queued, w)) = n + 1
      /\ \A k \in 1 .. n : Append(Queued, w)[k] = Queued[k]
      /\ Append(Queued, w)[n + 1] = w
  BY <1>5, <1>7, AppendProperties
<1>9. Queued' \in Seq(Notes) /\ Len(Queued') = n + 1
  <2>1. \A k \in 1 .. n + 1 : Queued'[k] \in Notes
    <3> SUFFICES ASSUME NEW k \in 1 .. n + 1 PROVE Queued'[k] \in Notes
      OBVIOUS
    <3>1. CASE k = n + 1
      BY <1>3, <1>4, <1>6, <1>7, <3>1
    <3>2. CASE k # n + 1
      <4>1. k \in 1 .. n
        BY <1>3, <3>2
      <4>2. Queued'[k] = Queued[k]
        BY <1>5, <1>6, <4>1
      <4> QED BY <1>5, <4>1, <4>2
    <3> QED BY <3>1, <3>2
  <2>2. DOMAIN Queued' = 1 .. n + 1 /\ Queued' = [k \in 1 .. n + 1 |-> Queued'[k]]
    BY <1>6
  <2>3. n + 1 \in Nat
    BY <1>3
  <2>4. Queued' \in [1 .. n + 1 -> Notes]
    BY <2>1, <2>2
  <2> QED BY <2>3, <2>4
<1>10. \A k \in 1 .. n + 1 : Queued'[k] = Append(Queued, w)[k]
  <2> SUFFICES ASSUME NEW k \in 1 .. n + 1 PROVE Queued'[k] = Append(Queued, w)[k]
    OBVIOUS
  <2>1. CASE k = n + 1
    BY <1>3, <1>4, <1>6, <1>7, <1>8, <2>1
  <2>2. CASE k # n + 1
    <3>1. k \in 1 .. n
      BY <1>3, <2>2
    <3> QED BY <1>5, <1>6, <1>8, <3>1
  <2> QED BY <2>1, <2>2
<1> QED BY <1>8, <1>9, <1>10, SeqEqual DEF w

\* A write that finds the ring full is the newest one, and it goes.
LEMMA LoseStep ==
  ASSUME TypeOK, wpc = "check", wpc' = "idle", lost' = TRUE, Queued' = Queued,
         UNCHANGED <<registers, play, held>>
  PROVE  Replay!Lose
<1> DEFINE w == <<wev.reg, wev.val>>
<1>1. Queued \in Seq(Notes) /\ w \in Notes
  BY QueuedType, WevNote
<1>2. Unheard = Append(Queued, w) /\ Unheard' = Queued
  BY DEF Unheard
<1> HIDE DEF w
<1>3. /\ Append(Queued, w) \in Seq(Notes) /\ Append(Queued, w) # <<>>
      /\ Len(Append(Queued, w)) = Len(Queued) + 1
      /\ \A k \in 1 .. Len(Queued) : Append(Queued, w)[k] = Queued[k]
  BY <1>1, AppendProperties
<1>4. SubSeq(Append(Queued, w), 1, Len(Queued)) = Queued
  <2> DEFINE a == Append(Queued, w)
             n == Len(Queued)
  <2>1. n \in Nat /\ 1 \in Int /\ n \in Int
    BY <1>1
  <2>2. \A k \in 1 .. n : a[k] \in Notes /\ a[k] = Queued[k]
    BY <1>1, <1>3
  <2> HIDE DEF a
  <2>3. /\ SubSeq(a, 1, n) \in Seq(Notes)
        /\ Len(SubSeq(a, 1, n)) = IF 1 <= n THEN n - 1 + 1 ELSE 0
        /\ \A k \in 1 .. n - 1 + 1 : SubSeq(a, 1, n)[k] = a[1 + k - 1]
    BY <2>1, <2>2, SubSeqProperties
  <2>4. Len(SubSeq(a, 1, n)) = n /\ \A k \in 1 .. n : SubSeq(a, 1, n)[k] = Queued[k]
    BY <2>1, <2>2, <2>3
  <2>5. SubSeq(a, 1, n) = Queued
    BY <1>1, <2>3, <2>4, SeqEqual
  <2> QED BY <2>5 DEF a
<1>5. Len(Unheard) - 1 = Len(Queued)
  BY <1>1, <1>2, <1>3
<1>6. Unheard' = Replay!Front(Unheard) /\ Unheard # <<>>
  BY <1>2, <1>3, <1>4, <1>5 DEF Replay!Front
<1> QED BY <1>6 DEF Replay!Lose

\* Replaying an event takes the oldest write.
LEMMA ReplayStep ==
  ASSUME TypeOK, RingInv, ReplayEvent
  PROVE  Replay!Replay
<1> DEFINE n == Dist(ev, evq_head)
           w == <<wev.reg, wev.val>>
           q == [k \in 1 .. n - 1 |-> Note(evq[At(Succ(ev), k - 1)])]
<1>0. /\ ev \in Slots /\ evq_head \in Slots /\ evq_tail \in Slots
      /\ head \in Slots /\ ev # head /\ gpc = "render" /\ ev' = Succ(ev)
      /\ UNCHANGED <<gpc, evq, evq_head, registers, wpc, wev, held, lost>>
      /\ play' = [play EXCEPT ![evq[ev].reg] = evq[ev].val]
  BY DEF TypeOK, ReplayEvent, Due
<1>1. Position = ev /\ Position' = Succ(ev)
  BY <1>0 DEF Position
<1>2. n \in Nat /\ n >= 1
  <2>1. ev # evq_head
    BY <1>0, SizeAssumption DEF RingInv, Dist, Slots
  <2> QED BY <1>0, <2>1, DistType DEF Slots
<1>3. Dist(Succ(ev), evq_head) = n - 1
  BY <1>0, <1>2, DistReplay, DistType
<1>4. /\ Queued \in Seq(Notes) /\ Len(Queued) = n
      /\ \A k \in 1 .. n : Queued[k] = Note(evq[At(ev, k - 1)])
  BY <1>1, QueuedType
<1>5. Queued' = q
  <2>1. Queued' = [k \in 1 .. Dist(Succ(ev), evq_head) |->
                     Note(evq[At(Succ(ev), k - 1)])]
    BY <1>0, <1>1 DEF Queued, Note, Dist, At
  <2> QED BY <1>3, <2>1
<1>6. \A k \in 1 .. n - 1 : At(Succ(ev), k - 1) = At(ev, k)
  <2> SUFFICES ASSUME NEW k \in 1 .. n - 1 PROVE At(Succ(ev), k - 1) = At(ev, k)
    OBVIOUS
  <2>1. n \in 0 .. Size - 1
    BY <1>0, DistType DEF Slots
  <2> HIDE DEF n
  <2>2. k \in Nat /\ k >= 1 /\ k < Size
    BY <2>1, SizeAssumption
  <2> QED BY <1>0, <2>2, SizeAssumption DEF At, Succ, Slots
<1>7. At(ev, 0) = ev
  BY <1>0, SizeAssumption DEF At, Slots
<1>8. w \in Notes
  BY WevNote
<1> HIDE DEF n, w
<1>9. Queued # <<>> /\ Head(Queued) = Note(evq[ev])
  <2>1. 1 \in 1 .. n /\ Head(Queued) = Queued[1]
    BY <1>2, <1>4
  <2>2. Queued[1] = Note(evq[At(ev, 1 - 1)])
    BY <1>4, <2>1
  <2> QED BY <1>2, <1>4, <1>7, <2>1, <2>2
<1>10. Tail(Queued) = q
  <2>1. /\ Tail(Queued) \in Seq(Notes) /\ Len(Tail(Queued)) = n - 1
        /\ \A k \in 1 .. n - 1 : Tail(Queued)[k] = Queued[k + 1]
    BY <1>4, <1>9, HeadTailProperties
  <2>2. \A k \in 1 .. n - 1 : Tail(Queued)[k] = Note(evq[At(Succ(ev), k - 1)])
    <3> SUFFICES ASSUME NEW k \in 1 .. n - 1
                 PROVE  Tail(Queued)[k] = Note(evq[At(Succ(ev), k - 1)])
      OBVIOUS
    <3>1. k + 1 \in 1 .. n /\ (k + 1) - 1 = k
      BY <1>2
    <3>2. Queued[k + 1] = Note(evq[At(ev, k)])
      BY <1>4, <3>1
    <3> QED BY <1>6, <2>1, <3>2
  <2>3. Tail(Queued) = [k \in 1 .. n - 1 |-> Tail(Queued)[k]]
    BY <2>1, LenProperties
  <2> QED BY <2>2, <2>3
<1> HIDE DEF q
<1>11. /\ Unheard # <<>> /\ Head(Unheard) = Note(evq[ev])
       /\ Unheard' = Tail(Unheard)
  <2>1. CASE Writes
    <3>1. Unheard = Append(Queued, w) /\ Unheard' = Append(Queued', w)
      BY <1>0, <2>1 DEF Unheard, Writes, w
    <3>2. /\ Append(Queued, w) # <<>>
          /\ Head(Append(Queued, w)) = Head(Queued)
          /\ Tail(Append(Queued, w)) = Append(Tail(Queued), w)
      BY <1>4, <1>8, <1>9, AppendProperties, HeadTailAppend
    <3> QED BY <1>5, <1>9, <1>10, <3>1, <3>2
  <2>2. CASE ~Writes
    <3>1. Unheard = Queued /\ Unheard' = Queued'
      BY <1>0, <2>2 DEF Unheard, Writes
    <3> QED BY <1>5, <1>9, <1>10, <3>1
  <2> QED BY <2>1, <2>2
<1>12. play' = [play EXCEPT ![Head(Unheard)[1]] = Head(Unheard)[2]]
  <2>1. Note(evq[ev])[1] = evq[ev].reg /\ Note(evq[ev])[2] = evq[ev].val
    BY DEF Note
  <2> QED BY <1>0, <1>11, <2>1
<1> QED BY <1>0, <1>11, <1>12 DEF Replay!Replay

\* Giving the slots back moves the tail to where the replay is.
LEMMA QueuedRelease ==
  ASSUME RingInv, SpanInv,
         GenerateBegin \/ LoadHead \/ LoadSpan \/ ProduceSample \/ ReleaseSlots
  PROVE  Queued' = Queued
<1>1. evq_head' = evq_head /\ evq' = evq
  BY DEF GenerateBegin, LoadHead, LoadSpan, ProduceSample, ReleaseSlots
<1>2. Position' = Position
  BY DEF GenerateBegin, LoadHead, LoadSpan, ProduceSample, ReleaseSlots, RingInv,
     SpanInv, BufferReplaysAll, Position
<1> QED BY <1>1, <1>2, QueuedFrame

\* ay_init is a start of the replay.
LEMMA ReplayInit == Init => Replay!Init
<1> SUFFICES ASSUME Init PROVE Replay!Init
  OBVIOUS
<1>1. TypeOK
  BY InitAy DEF AyInv
<1>2. Len(Queued) = 0
  <2>1. Position = evq_head /\ Position \in Slots
    BY <1>1 DEF Init, Position, TypeOK
  <2> QED BY <1>1, <2>1, QueuedType, DistType
<1>3. Queued = <<>>
  BY <1>1, <1>2, QueuedType
<1>4. Unheard = <<>>
  BY <1>3 DEF Unheard, Init
<1> QED BY <1>1, <1>4 DEF Init, Replay!Init, TypeOK

\* Every step of the ring is a step of the replay, or none.
LEMMA ReplayNext == AyInv /\ [Next]_vars => [Replay!Next]_Replay!vars
<1> SUFFICES ASSUME AyInv, [Next]_vars
             PROVE  Replay!Next \/ UNCHANGED Replay!vars
  OBVIOUS
<1>0. TypeOK /\ RingInv /\ SpanInv /\ WriteInv
  BY DEF AyInv
<1>1. ASSUME NEW r \in Regs, NEW v \in Vals, WriteRegister(r, v)
      PROVE  Replay!Write(r, v)
  <2>1. Queued' = Queued
    BY <1>1, QueuedFrame DEF WriteRegister, Position
  <2>2. Unheard = Queued /\ Unheard' = Append(Queued', <<r, v>>)
    BY <1>1 DEF WriteRegister, Unheard
  <2> QED BY <1>1, <2>1, <2>2 DEF WriteRegister, Replay!Write
<1>2. CASE seed_play
  <2>1. Queued' = Queued
    BY <1>2, QueuedFrame DEF seed_play, Position
  <2>2. Unheard' = Unheard
    BY <1>2, <2>1 DEF seed_play, Unheard
  <2>3. CASE seeded
    BY <1>2, <2>2, <2>3 DEF seed_play, Replay!vars
  <2>4. CASE ~seeded
    <3>1. Replay!CopyAll
      BY <1>2, <2>2, <2>4 DEF seed_play, Replay!CopyAll
    <3> QED BY <3>1 DEF Replay!Next
  <2> QED BY <2>3, <2>4
<1>3. CASE CheckRoom
  <2>1. Queued' = Queued
    BY <1>3, QueuedFrame DEF CheckRoom, Position
  <2>2. CASE Succ(evq_head) = evq_tail
    <3>1. Replay!Lose
      BY <1>0, <1>3, <2>1, <2>2, LoseStep DEF CheckRoom
    <3> QED BY <3>1 DEF Replay!Next
  <2>3. CASE Succ(evq_head) # evq_tail
    BY <1>3, <2>1, <2>3, ReplayStutter DEF CheckRoom, Writes
  <2> QED BY <2>2, <2>3
<1>4. CASE FillSlot
  <2>1. Queued' = Queued
    BY <1>0, <1>4, QueuedFill
  <2> QED BY <1>4, <2>1, ReplayStutter DEF FillSlot, Writes
<1>5. CASE PublishHead
  <2>1. Queued' = Append(Queued, <<wev.reg, wev.val>>)
    BY <1>0, <1>5, QueuedPublish
  <2>2. Unheard' = Unheard
    BY <1>5, <2>1 DEF PublishHead, Unheard
  <2> QED BY <1>5, <2>2 DEF PublishHead, Replay!vars
<1>6. CASE StampCycle
  <2>1. Queued' = Queued
    BY <1>6, QueuedFrame DEF StampCycle, Position
  <2>2. Unheard' = Unheard
    BY <1>6, <2>1 DEF StampCycle, Unheard
  <2> QED BY <1>6, <2>2 DEF StampCycle, Replay!vars
<1>7. CASE CpuTime
  <2>1. Queued' = Queued
    BY <1>7, QueuedFrame DEF CpuTime, Position
  <2> QED BY <1>7, <2>1, ReplayStutter DEF CpuTime, Writes
<1>8. CASE mirror_main_to_play
  <2>1. Queued' = Queued
    <3>1. gpc = "mirror" /\ gpc' \in {"mirror", "idle"}
      BY <1>8 DEF mirror_main_to_play
    <3>2. evq_head' = evq_head /\ evq' = evq /\ evq_tail' = evq_tail
      BY <1>8 DEF mirror_main_to_play
    <3> QED BY <3>1, <3>2, QueuedFrame DEF Position
  <2>2. Unheard' = Unheard
    BY <1>8, <2>1 DEF mirror_main_to_play, Unheard
  <2>3. UNCHANGED <<registers, lost>>
    BY <1>8 DEF mirror_main_to_play
  <2>4. CASE UNCHANGED <<held, play>>
    BY <2>2, <2>3, <2>4 DEF Replay!vars
  <2>5. ASSUME NEW r \in left, held = {}, held' = {<<r, registers[r]>>},
               UNCHANGED play
        PROVE  Replay!ReadOne(r) /\ r \in Regs
    BY <1>0, <2>2, <2>3, <2>5 DEF Replay!ReadOne, TypeOK
  <2>6. ASSUME NEW c \in held, play' = [play EXCEPT ![c[1]] = c[2]], held' = {}
        PROVE  Replay!StoreOne
    BY <2>2, <2>3, <2>6 DEF Replay!StoreOne
  <2> QED BY <1>8, <2>4, <2>5, <2>6 DEF mirror_main_to_play, Replay!Next
<1>9. CASE ReplayEvent
  <2>1. Replay!Replay
    BY <1>0, <1>9, ReplayStep
  <2> QED BY <2>1 DEF Replay!Next
<1>10. CASE GenerateBegin \/ LoadHead \/ LoadSpan \/ ProduceSample \/ ReleaseSlots
  <2>1. Queued' = Queued
    BY <1>0, <1>10, QueuedRelease
  <2>2. UNCHANGED <<wpc, wev, registers, play, held, lost>>
    BY <1>10 DEF GenerateBegin, LoadHead, LoadSpan, ProduceSample, ReleaseSlots
  <2> QED BY <2>1, <2>2, ReplayStutter DEF Writes
<1>11. CASE UNCHANGED vars
  <2>1. Queued' = Queued
    BY <1>11, QueuedFrame DEF vars, Position
  <2> QED BY <1>11, <2>1, ReplayStutter DEF vars, Writes
<1>12. ASSUME NEW r \in Regs, NEW v \in Vals, WriteRegister(r, v) PROVE Replay!Next
  BY <1>1, <1>12 DEF Replay!Next
<1> QED
  BY <1>2, <1>3, <1>4, <1>5, <1>6, <1>7, <1>8, <1>9, <1>10, <1>11, <1>12
  DEF Next, WriteStep, ay_generate, GenerateStep

\* The lock-free ring implements the replay that audio.h promises, for every
\* size of the ring and of a buffer and any number of registers: every queued
\* write is heard once, in order, and only the newest one may be lost.
THEOREM RingImplementsReplay == Spec => ImplementsReplay
<1>1. Init => Replay!Init
  BY ReplayInit
<1>2. AyInv /\ [Next]_vars => [Replay!Next]_Replay!vars
  BY ReplayNext
<1> QED
  BY <1>1, <1>2, AyInvariance, PTL DEF Spec, ImplementsReplay, Replay!Spec

-----------------------------------------------------------------------------
(* Values that are computed step by step *)

\* What holds at zero and is kept by a step holds of every number.
LEMMA Steps ==
  ASSUME NEW S, 0 \in S, \A k \in Nat : k \in S => k + 1 \in S
  PROVE  Nat \subseteq S
<1>1. PICK R : R = OpToRel(<, Nat)
  OBVIOUS
<1>2. IsWellFoundedOn(R, Nat)
  BY <1>1, NatLessThanWellFounded
<1>3. SUFFICES ASSUME Nat \ S # {} PROVE FALSE
  OBVIOUS
<1>4. PICK x \in Nat \ S : \A y \in Nat \ S : ~(<<y, x>> \in R)
  BY <1>2, <1>3, WFMin
<1>5. \A y \in Nat \ S : ~(y < x)
  BY <1>1, <1>4 DEF OpToRel
<1>6. x # 0
  OBVIOUS
<1>7. x - 1 \in Nat /\ x - 1 < x /\ (x - 1) + 1 = x
  BY <1>6
<1>8. x - 1 \in S
  BY <1>5, <1>7
<1> QED BY <1>7, <1>8

\* Each value from the one before.
StepsIn(T, L, F) == F \in [1 .. L -> [T -> T]]
Runs(g, T, L, c, F) ==
  g \in [0 .. L -> T] /\ g[0] = c /\ \A n \in 1 .. L : g[n] = F[n][g[n - 1]]

\* Steps given one by one have a function that goes by them.
LEMMA Iterates ==
  ASSUME NEW T, NEW L \in Nat, NEW c \in T, NEW F, StepsIn(T, L, F)
  PROVE  \E g : Runs(g, T, L, c, F)
<1> DEFINE P(k) == \E g : Runs(g, T, k, c, F)
           S == {k \in Nat : k <= L => P(k)}
<1>0. F \in [1 .. L -> [T -> T]]
  BY DEF StepsIn
<1>1. 0 \in S
  <2>1. [n \in 0 .. 0 |-> c] \in [0 .. 0 -> T] /\ [n \in 0 .. 0 |-> c][0] = c
    OBVIOUS
  <2>2. 1 .. 0 = {}
    OBVIOUS
  <2>3. P(0)
    BY <2>1, <2>2 DEF Runs
  <2> QED BY <2>3
<1>2. ASSUME NEW k \in Nat, k \in S PROVE k + 1 \in S
  <2>1. SUFFICES ASSUME k + 1 <= L PROVE P(k + 1)
    OBVIOUS
  <2>2. PICK g : Runs(g, T, k, c, F)
    BY <1>2, <2>1
  <2>3. PICK h : h = [n \in 0 .. k + 1 |-> IF n = k + 1 THEN F[k + 1][g[k]] ELSE g[n]]
    OBVIOUS
  <2>4. F[k + 1] \in [T -> T] /\ g[k] \in T
    BY <1>0, <2>1, <2>2 DEF Runs
  <2>5. h \in [0 .. k + 1 -> T]
    BY <2>2, <2>3, <2>4 DEF Runs
  <2>6. h[0] = c
    BY <2>2, <2>3 DEF Runs
  <2>7. ASSUME NEW n \in 1 .. k + 1 PROVE h[n] = F[n][h[n - 1]]
    <3>1. n - 1 \in 0 .. k /\ h[n - 1] = g[n - 1]
      BY <2>3
    <3>2. CASE n = k + 1
      <4>1. h[n] = F[n][g[n - 1]]
        BY <2>3, <3>2
      <4> QED BY <3>1, <4>1
    <3>3. CASE n # k + 1
      <4>1. n \in 1 .. k /\ h[n] = g[n]
        BY <2>3, <3>3
      <4> QED BY <2>2, <3>1, <4>1 DEF Runs
    <3> QED BY <3>2, <3>3
  <2> QED BY <2>5, <2>6, <2>7 DEF Runs
<1> HIDE DEF P
<1>3. Nat \subseteq S
  BY <1>1, <1>2, Steps
<1>4. P(L)
  BY <1>3
<1> QED BY <1>4 DEF P

\* Two that start alike and go on alike are the same.
GoAlike(L, g, h) == g[0] = h[0] /\ \A n \in 1 .. L : g[n - 1] = h[n - 1] => g[n] = h[n]
Alike(L, g, h) == \A n \in 0 .. L : g[n] = h[n]

\* Functions that go alike from equal beginnings are the same.
LEMMA Agree == ASSUME NEW L \in Nat, NEW g, NEW h, GoAlike(L, g, h) PROVE Alike(L, g, h)
<1> DEFINE S == {k \in Nat : k <= L => g[k] = h[k]}
<1>1. 0 \in S
  BY DEF GoAlike
<1>2. ASSUME NEW k \in Nat, k \in S PROVE k + 1 \in S
  <2>1. SUFFICES ASSUME k + 1 <= L PROVE g[k + 1] = h[k + 1]
    OBVIOUS
  <2>2. k + 1 \in 1 .. L /\ (k + 1) - 1 = k /\ g[k] = h[k]
    BY <1>2, <2>1
  <2> QED BY <2>2 DEF GoAlike
<1>3. Nat \subseteq S
  BY <1>1, <1>2, Steps
<1> QED BY <1>3 DEF Alike

-----------------------------------------------------------------------------
(* The header *)

\* What the fields are called.
Names == {"length", "avih", "avih_size", "usec", "max_bps", "padding", "flags",
          "total_frames", "initial", "streams", "suggested", "width",
          "height", "r0", "r1", "r2", "r3", "strh", "strh_size", "type",
          "handler", "priority", "language", "scale", "rate", "start",
          "quality", "sample_size", "left", "top", "right", "bottom", "strf",
          "strf_size", "size", "planes", "bits", "compression", "image",
          "xppm", "yppm", "used", "important", "tag", "channels",
          "per_second", "bytes_per_second", "align", "extra", "LIST", "strl",
          "video_length", "video_suggested", "audio_length",
          "audio_suggested", "hdrl", "RIFF", "riff_size", "AVI", "movi_size",
          "movi"}

Fields == [name : Names, w : Nat, says : Nat]

\* The widths, added up.
Adds(g, fs) == g = [n \in 0 .. Len(fs) |-> IF n = 0 THEN 0 ELSE g[n - 1] + fs[n].w]
Sums(g, fs) ==
  /\ g \in [0 .. Len(fs) -> Nat]
  /\ g[0] = 0
  /\ \A n \in 1 .. Len(fs) : g[n] = g[n - 1] + fs[n].w

\* The width is the last of the partial sums.
LEMMA AddsUp ==
  ASSUME NEW fs \in Seq(Fields)
  PROVE  \E g : Sums(g, fs) /\ Width(fs) = g[Len(fs)]
<1>0. PICK L : L = Len(fs)
  OBVIOUS
<1>1. L \in Nat /\ \A n \in 1 .. L : fs[n].w \in Nat
  <2>1. \A n \in 1 .. L : fs[n] \in Fields
    BY <1>0, ElementOfSeq
  <2> QED BY <1>0, <2>1 DEF Fields
<1>2. PICK F : F = [n \in 1 .. L |-> [t \in Nat |-> t + fs[n].w]]
  OBVIOUS
<1>3. StepsIn(Nat, L, F)
  <2>1. \A n \in 1 .. L : [t \in Nat |-> t + fs[n].w] \in [Nat -> Nat]
    BY <1>1
  <2> QED BY <1>2, <2>1 DEF StepsIn
<1>4. PICK g : Runs(g, Nat, L, 0, F)
  BY <1>1, <1>3, Iterates
<1>5. Sums(g, fs)
  <2>1. ASSUME NEW n \in 1 .. L PROVE g[n] = g[n - 1] + fs[n].w
    <3>1. n - 1 \in 0 .. L /\ g[n - 1] \in Nat
      BY <1>1, <1>4 DEF Runs
    <3> QED BY <1>2, <1>4, <3>1 DEF Runs
  <2> QED BY <1>0, <1>4, <2>1 DEF Runs, Sums
<1>6. Adds(g, fs)
  <2>1. \A n \in 0 .. L : g[n] = IF n = 0 THEN 0 ELSE g[n - 1] + fs[n].w
    BY <1>0, <1>1, <1>5 DEF Sums
  <2>2. g = [n \in 0 .. L |-> g[n]]
    BY <1>0, <1>5 DEF Sums
  <2> QED BY <1>0, <2>1, <2>2 DEF Adds
<1>7. PICK h : h = CHOOSE f : Adds(f, fs)
  OBVIOUS
<1>8. Adds(h, fs)
  BY <1>6, <1>7
<1>9. h[0] = 0 /\ \A n \in 1 .. L : h[n] = h[n - 1] + fs[n].w
  <2>1. \A n \in 0 .. L : h[n] = IF n = 0 THEN 0 ELSE h[n - 1] + fs[n].w
    BY <1>0, <1>8 DEF Adds
  <2>2. 0 \in 0 .. L /\ \A n \in 1 .. L : n \in 0 .. L /\ n # 0
    BY <1>1
  <2> QED BY <2>1, <2>2
<1>10. GoAlike(L, h, g)
  BY <1>0, <1>5, <1>9 DEF Sums, GoAlike
<1>11. h[L] = g[L]
  BY <1>1, <1>10, Agree DEF Alike
<1>12. Width(fs) = h[L]
  BY <1>0, <1>7 DEF Width, Adds
<1> QED BY <1>0, <1>5, <1>11, <1>12

\* A width is a number.
LEMMA WidthType == ASSUME NEW fs \in Seq(Fields) PROVE Width(fs) \in Nat
<1>1. PICK g : Sums(g, fs) /\ Width(fs) = g[Len(fs)]
  BY AddsUp
<1>2. Len(fs) \in Nat
  OBVIOUS
<1> QED BY <1>1, <1>2 DEF Sums

\* Two sequences, one after the other.
LEMMA WidthConcat ==
  ASSUME NEW a \in Seq(Fields), NEW b \in Seq(Fields)
  PROVE  a \o b \in Seq(Fields) /\ Width(a \o b) = Width(a) + Width(b)
<1>1. PICK m, k : m = Len(a) /\ k = Len(b)
  OBVIOUS
<1>2. m \in Nat /\ k \in Nat
  BY <1>1
<1>3. PICK c : c = a \o b
  OBVIOUS
<1>4. /\ c \in Seq(Fields) /\ Len(c) = m + k
      /\ \A z \in 1 .. m + k : c[z] = IF z <= m THEN a[z] ELSE b[z - m]
  BY <1>1, <1>3, ConcatProperties
<1>5. PICK f, g, h : /\ Sums(f, a) /\ Width(a) = f[m]
                     /\ Sums(g, b) /\ Width(b) = g[k]
                     /\ Sums(h, c) /\ Width(c) = h[m + k]
  BY <1>1, <1>4, AddsUp
<1>6. PICK j : j = [n \in 0 .. m + k |-> IF n <= m THEN f[n] ELSE f[m] + g[n - m]]
  OBVIOUS
<1>7. f[m] \in Nat /\ g[0] = 0 /\ g[k] \in Nat
  <2>1. m \in 0 .. m /\ k \in 0 .. k
    BY <1>2
  <2>2. f \in [0 .. m -> Nat] /\ g \in [0 .. k -> Nat] /\ g[0] = 0
    BY <1>1, <1>5 DEF Sums
  <2> QED BY <2>1, <2>2
<1>8. ASSUME NEW n \in 1 .. m + k PROVE j[n] = j[n - 1] + c[n].w
  <2>1. CASE n <= m
    <3>1. f[n] = f[n - 1] + a[n].w
      BY <1>1, <1>5, <2>1 DEF Sums
    <3>2. c[n] = a[n] /\ j[n] = f[n] /\ j[n - 1] = f[n - 1]
      BY <1>2, <1>4, <1>6, <2>1
    <3> QED BY <3>1, <3>2
  <2>2. CASE n > m
    <3>1. n - m \in 1 .. k /\ (n - m) - 1 = (n - 1) - m
      BY <1>2, <2>2
    <3>2. PICK q : q = n - m
      OBVIOUS
    <3>3. g[q] = g[q - 1] + b[q].w
      BY <1>1, <1>5, <3>1, <3>2 DEF Sums
    <3>4. c[n] = b[q] /\ j[n] = f[m] + g[q]
      BY <1>2, <1>4, <1>6, <2>2, <3>2
    <3>5. j[n - 1] = f[m] + g[q - 1]
      <4>1. CASE n - 1 <= m
        <5>1. n - 1 = m /\ q - 1 = 0
          BY <1>2, <2>2, <3>2, <4>1
        <5> QED BY <1>2, <1>6, <1>7, <5>1
      <4>2. CASE n - 1 > m
        BY <1>2, <1>6, <3>1, <3>2, <4>2
      <4> QED BY <1>2, <4>1, <4>2
    <3>6. g[q - 1] \in Nat /\ b[q].w \in Nat
      <4>1. b[q] \in Fields
        BY <1>1, <3>1, <3>2, ElementOfSeq
      <4>2. q - 1 \in 0 .. k
        BY <1>2, <3>1, <3>2
      <4>3. g[q - 1] \in Nat
        BY <1>1, <1>5, <4>2 DEF Sums
      <4> QED BY <4>1, <4>3 DEF Fields
    <3> QED BY <1>7, <3>3, <3>4, <3>5, <3>6
  <2> QED BY <1>2, <2>1, <2>2
<1>9. GoAlike(m + k, h, j)
  <2>1. h[0] = 0 /\ \A n \in 1 .. m + k : h[n] = h[n - 1] + c[n].w
    BY <1>4, <1>5 DEF Sums
  <2>2. j[0] = 0
    BY <1>2, <1>5, <1>6 DEF Sums
  <2> QED BY <1>8, <2>1, <2>2 DEF GoAlike
<1>10. m + k \in Nat /\ h[m + k] = j[m + k]
  BY <1>2, <1>9, Agree DEF Alike
<1>11. j[m + k] = f[m] + g[k]
  <2>1. CASE k = 0
    BY <1>2, <1>6, <1>7, <2>1
  <2>2. CASE k # 0
    <3>1. m + k \in 0 .. m + k /\ ~(m + k <= m) /\ (m + k) - m = k
      BY <1>2, <2>2
    <3> QED BY <1>6, <3>1
  <2> QED BY <2>1, <2>2
<1> QED BY <1>3, <1>4, <1>5, <1>10, <1>11

\* A field alone.
LEMMA WidthOne ==
  ASSUME NEW f \in Fields
  PROVE  <<f>> \in Seq(Fields) /\ Width(<<f>>) = f.w
<1>1. <<f>> \in Seq(Fields) /\ Len(<<f>>) = 1 /\ <<f>>[1] = f
  OBVIOUS
<1>2. PICK g : Sums(g, <<f>>) /\ Width(<<f>>) = g[1]
  BY <1>1, AddsUp
<1>3. g[1] = g[0] + f.w /\ g[0] = 0
  BY <1>1, <1>2 DEF Sums
<1>4. f.w \in Nat
  BY DEF Fields
<1> QED BY <1>1, <1>2, <1>3, <1>4

\* Fields of one width.
LEMMA WidthAll ==
  ASSUME NEW fs \in Seq(Fields), NEW w \in {2, 4}, \A z \in 1 .. Len(fs) : fs[z].w = w
  PROVE  Width(fs) = w * Len(fs)
<1>1. PICK L : L = Len(fs)
  OBVIOUS
<1>2. L \in Nat
  BY <1>1
<1>3. PICK g : Sums(g, fs) /\ Width(fs) = g[L]
  BY <1>1, AddsUp
<1>4. PICK j : j = [n \in 0 .. L |-> w * n]
  OBVIOUS
<1>5. GoAlike(L, g, j)
  <2>1. g[0] = 0 /\ \A n \in 1 .. L : g[n] = g[n - 1] + w
    BY <1>1, <1>3 DEF Sums
  <2>2. j[0] = 0
    BY <1>2, <1>4
  <2>3. ASSUME NEW n \in 1 .. L PROVE j[n] = j[n - 1] + w
    <3>1. n \in 0 .. L /\ n - 1 \in 0 .. L
      BY <1>2
    <3>2. w * n = w * (n - 1) + w
      OBVIOUS
    <3> QED BY <1>4, <3>1, <3>2
  <2> QED BY <2>1, <2>2, <2>3 DEF GoAlike
<1>6. g[L] = j[L]
  BY <1>2, <1>5, Agree DEF Alike
<1> QED BY <1>1, <1>2, <1>3, <1>4, <1>6

\* Where a field of some name is.
PosIn(fs, name) == {Width(SubSeq(fs, 1, z - 1)) : z \in {j \in DOMAIN fs : fs[j].name = name}}

\* It stays there when more is written.
LEMMA PosFirst ==
  ASSUME NEW a \in Seq(Fields), NEW b \in Seq(Fields), NEW name, NEW p \in PosIn(a, name)
  PROVE  p \in PosIn(a \o b, name)
<1>1. PICK z \in DOMAIN a : a[z].name = name /\ p = Width(SubSeq(a, 1, z - 1))
  BY DEF PosIn
<1>2. PICK c : c = a \o b
  OBVIOUS
<1>3. z \in 1 .. Len(a) /\ z \in DOMAIN c /\ c[z] = a[z]
  BY <1>2, ConcatProperties
<1>4. SubSeq(c, 1, z - 1) = SubSeq(a, 1, z - 1)
  BY <1>2, <1>3, SubSeqOfConcat1
<1> QED BY <1>1, <1>2, <1>3, <1>4 DEF PosIn

\* It moves by what is before it.
LEMMA PosSecond ==
  ASSUME NEW a \in Seq(Fields), NEW b \in Seq(Fields), NEW name, NEW p \in PosIn(b, name)
  PROVE  Width(a) + p \in PosIn(a \o b, name)
<1>1. PICK z \in DOMAIN b : b[z].name = name /\ p = Width(SubSeq(b, 1, z - 1))
  BY DEF PosIn
<1>2. PICK c : c = a \o b
  OBVIOUS
<1>3. PICK j : j = Len(a) + z
  OBVIOUS
<1>4. z \in 1 .. Len(b) /\ Len(a) \in Nat /\ j \in DOMAIN c /\ c[j] = b[z]
  BY <1>2, <1>3, ConcatProperties
<1>5. SubSeq(b, 1, z - 1) \in Seq(Fields)
  BY <1>4, SubSeqProperties
<1>6. SubSeq(c, 1, j - 1) = a \o SubSeq(b, 1, z - 1)
  <2>1. PICK u, v : u = SubSeq(c, 1, j - 1) /\ v = SubSeq(b, 1, z - 1)
    OBVIOUS
  <2>2. c \in Seq(Fields) /\ j - 1 \in 0 .. Len(c) /\ z - 1 \in 0 .. Len(b)
    BY <1>2, <1>3, <1>4, ConcatProperties
  <2>3. /\ u \in Seq(Fields) /\ Len(u) = j - 1 /\ \A n \in 1 .. j - 1 : u[n] = c[n]
        /\ v \in Seq(Fields) /\ Len(v) = z - 1 /\ \A n \in 1 .. z - 1 : v[n] = b[n]
    <3>1. /\ u \in Seq(Fields) /\ Len(u) = j - 1 /\ \A n \in 1 .. j - 1 : u[n] = c[n]
      BY <2>1, <2>2, SubSeqProperties
    <3>2. v \in Seq(Fields) /\ Len(v) = z - 1 /\ \A n \in 1 .. z - 1 : v[n] = b[n]
      BY <2>1, <2>2, SubSeqProperties
    <3> QED BY <3>1, <3>2
  <2>4. PICK w : w = a \o v
    OBVIOUS
  <2>5. /\ w \in Seq(Fields) /\ Len(w) = j - 1
        /\ \A n \in 1 .. j - 1 : w[n] = IF n <= Len(a) THEN a[n] ELSE v[n - Len(a)]
    <3>1. /\ w \in Seq(Fields) /\ Len(w) = Len(a) + Len(v)
          /\ \A n \in 1 .. Len(a) + Len(v) : w[n] = IF n <= Len(a) THEN a[n] ELSE v[n - Len(a)]
      BY <2>3, <2>4, ConcatProperties
    <3>2. Len(a) + Len(v) = j - 1
      BY <1>3, <1>4, <2>3
    <3> QED BY <3>1, <3>2
  <2>6. \A n \in 1 .. j - 1 : w[n] = c[n]
    <3> TAKE n \in 1 .. j - 1
    <3>1. n \in 1 .. Len(a) + Len(b)
      BY <1>3, <1>4
    <3>2. c[n] = IF n <= Len(a) THEN a[n] ELSE b[n - Len(a)]
      BY <1>2, <3>1, ConcatProperties
    <3>3. CASE n <= Len(a)
      BY <2>5, <3>2, <3>3
    <3>4. CASE ~(n <= Len(a))
      <4>1. n - Len(a) \in 1 .. z - 1
        BY <1>3, <1>4, <3>4
      <4> QED BY <2>3, <2>5, <3>2, <3>4, <4>1
    <3> QED BY <3>3, <3>4
  <2>7. u = w
    BY <2>3, <2>5, <2>6, SeqEqual
  <2> QED BY <2>1, <2>4, <2>7
<1>7. Width(SubSeq(c, 1, j - 1)) = Width(a) + p
  BY <1>1, <1>5, <1>6, WidthConcat
<1> QED BY <1>1, <1>2, <1>4, <1>7 DEF PosIn

\* A field, and one that announces a size.
LEMMA FieldIn ==
  ASSUME NEW name \in Names, NEW w \in Nat
  PROVE  Field(name, w) \in Fields /\ Field(name, w).w = w /\ Field(name, w).name = name
BY DEF Field, Fields

LEMMA SaysIn ==
  ASSUME NEW name \in Names, NEW v \in Nat
  PROVE  /\ Says(name, v) \in Fields /\ Says(name, v).w = 4 /\ Says(name, v).name = name
         /\ Says(name, v).says = v
BY DEF Says, Fields

\* Nothing is no bytes wide.
LEMMA WidthNone == <<>> \in Seq(Fields) /\ Width(<<>>) = 0
<1>1. <<>> \in Seq(Fields) /\ Len(<<>>) = 0
  OBVIOUS
<1> QED BY <1>1, AddsUp DEF Sums

\* A field with a name of its own.
LEMMA PosOne ==
  ASSUME NEW f \in Fields
  PROVE  0 \in PosIn(<<f>>, f.name)
<1>1. <<f>> \in Seq(Fields) /\ Len(<<f>>) = 1 /\ <<f>>[1] = f
  OBVIOUS
<1>2. 1 \in DOMAIN <<f>>
  BY <1>1
<1>3. SubSeq(<<f>>, 1, 1 - 1) = <<>>
  OBVIOUS
<1> QED BY <1>1, <1>2, <1>3, WidthNone DEF PosIn

\* Fields of one width, by their names.
LEMMA Row ==
  ASSUME NEW names \in Seq(Names), NEW w \in {2, 4}, NEW fs,
         fs = [z \in DOMAIN names |-> Field(names[z], w)]
  PROVE  /\ fs \in Seq(Fields) /\ Width(fs) = w * Len(names)
         /\ \A z \in 1 .. Len(names) : w * (z - 1) \in PosIn(fs, names[z])
<1>1. PICK L : L = Len(names)
  OBVIOUS
<1>2. L \in Nat /\ DOMAIN names = 1 .. L /\ \A z \in 1 .. L : names[z] \in Names
  <2>1. \A z \in 1 .. L : names[z] \in Names
    BY <1>1, ElementOfSeq
  <2> QED BY <1>1, <2>1
<1>3. \A z \in 1 .. L : fs[z] = Field(names[z], w) /\ fs[z] \in Fields
  BY <1>2 DEF Field, Fields
<1>4. fs \in [1 .. L -> Fields]
  BY <1>2, <1>3
<1>5. fs \in Seq(Fields) /\ Len(fs) = L /\ DOMAIN fs = 1 .. L
  BY <1>2, <1>4
<1>6. \A z \in 1 .. L : fs[z].w = w /\ fs[z].name = names[z]
  <2> TAKE z \in 1 .. L
  <2>1. names[z] \in Names /\ w \in Nat
    BY <1>2
  <2>2. fs[z] = Field(names[z], w)
    BY <1>3
  <2> QED BY <2>1, <2>2, FieldIn
<1>7. Width(fs) = w * L
  BY <1>5, <1>6, WidthAll
<1>8. ASSUME NEW z \in 1 .. L PROVE w * (z - 1) \in PosIn(fs, names[z])
  <2>1. PICK s : s = SubSeq(fs, 1, z - 1)
    OBVIOUS
  <2>2. z - 1 \in Nat /\ \A k \in 1 .. z - 1 : fs[k] \in Fields /\ fs[k].w = w
    BY <1>2, <1>3, <1>6
  <2>3. s \in Seq(Fields) /\ Len(s) = z - 1 /\ \A k \in 1 .. z - 1 : s[k] = fs[k]
    <3>1. PICK n : n = z - 1
      OBVIOUS
    <3>2. n \in Nat /\ \A k \in 1 .. n : fs[k] \in Fields
      BY <2>2, <3>1
    <3>3. /\ SubSeq(fs, 1, n) \in Seq(Fields)
          /\ Len(SubSeq(fs, 1, n)) = IF 1 <= n THEN n - 1 + 1 ELSE 0
          /\ \A k \in 1 .. n - 1 + 1 : SubSeq(fs, 1, n)[k] = fs[1 + k - 1]
      BY ONLY <3>2, SubSeqProperties
    <3>4. n - 1 + 1 = n /\ \A k \in 1 .. n : 1 + k - 1 = k
      BY <3>2
    <3> QED BY <2>1, <3>1, <3>2, <3>3, <3>4
  <2>4. Width(s) = w * (z - 1)
    BY <2>2, <2>3, WidthAll
  <2> QED BY <1>5, <1>6, <2>1, <2>4 DEF PosIn
<1> QED BY <1>1, <1>5, <1>7, <1>8

\* Rows of 32-bit and of 16-bit fields.
LEMMA Row32 ==
  ASSUME NEW names \in Seq(Names)
  PROVE  /\ U32(names) \in Seq(Fields) /\ Width(U32(names)) = 4 * Len(names)
         /\ \A z \in 1 .. Len(names) : 4 * (z - 1) \in PosIn(U32(names), names[z])
BY Row DEF U32

LEMMA Row16 ==
  ASSUME NEW names \in Seq(Names)
  PROVE  /\ U16(names) \in Seq(Fields) /\ Width(U16(names)) = 2 * Len(names)
         /\ \A z \in 1 .. Len(names) : 2 * (z - 1) \in PosIn(U16(names), names[z])
BY Row DEF U16

\* Two and three fields, one after the other.
LEMMA ChainTwo ==
  ASSUME NEW f \in Fields, NEW g \in Fields
  PROVE  <<f, g>> = <<f>> \o <<g>>
<1>1. PICK a, b, c : a = <<f>> /\ b = <<g>> /\ c = a \o b
  OBVIOUS
<1>2. /\ a \in Seq(Fields) /\ Len(a) = 1 /\ a[1] = f
      /\ b \in Seq(Fields) /\ Len(b) = 1 /\ b[1] = g
  BY <1>1
<1>3. /\ c \in Seq(Fields) /\ Len(c) = 2
      /\ \A z \in 1 .. 2 : c[z] = IF z <= 1 THEN a[z] ELSE b[z - 1]
  BY <1>1, <1>2, ConcatProperties
<1>4. PICK d : d = <<f, g>>
  OBVIOUS
<1>5. d \in Seq(Fields) /\ Len(d) = 2 /\ d[1] = f /\ d[2] = g
  BY <1>4
<1>6. c[1] = f /\ c[2] = g
  BY <1>2, <1>3
<1>7. \A z \in 1 .. 2 : d[z] = c[z]
  BY <1>5, <1>6
<1>8. d = c
  BY <1>3, <1>5, <1>7, SeqEqual
<1> QED BY <1>1, <1>4, <1>8

LEMMA ChainThree ==
  ASSUME NEW f \in Fields, NEW g \in Fields, NEW h \in Fields
  PROVE  <<f, g, h>> = <<f>> \o <<g, h>>
<1>1. PICK a, b, c : a = <<f>> /\ b = <<g, h>> /\ c = a \o b
  OBVIOUS
<1>2. /\ a \in Seq(Fields) /\ Len(a) = 1 /\ a[1] = f
      /\ b \in Seq(Fields) /\ Len(b) = 2 /\ b[1] = g /\ b[2] = h
  BY <1>1
<1>3. /\ c \in Seq(Fields) /\ Len(c) = 3
      /\ \A z \in 1 .. 3 : c[z] = IF z <= 1 THEN a[z] ELSE b[z - 1]
  BY <1>1, <1>2, ConcatProperties
<1>4. PICK d : d = <<f, g, h>>
  OBVIOUS
<1>5. d \in Seq(Fields) /\ Len(d) = 3 /\ d[1] = f /\ d[2] = g /\ d[3] = h
  BY <1>4
<1>6. c[1] = f /\ c[2] = g /\ c[3] = h
  BY <1>2, <1>3
<1>7. \A z \in 1 .. 3 : d[z] = c[z]
  BY <1>5, <1>6
<1>8. d = c
  BY <1>3, <1>5, <1>7, SeqEqual
<1> QED BY <1>1, <1>4, <1>8

\* A name with a size, and a name, a size and a kind.
LEMMA Two ==
  ASSUME NEW f \in Fields, NEW g \in Fields
  PROVE  <<f, g>> \in Seq(Fields) /\ Width(<<f, g>>) = f.w + g.w
<1>1. <<f, g>> = <<f>> \o <<g>>
  BY ChainTwo
<1> QED BY <1>1, WidthOne, WidthConcat

LEMMA Three ==
  ASSUME NEW f \in Fields, NEW g \in Fields, NEW h \in Fields
  PROVE  /\ <<f, g, h>> \in Seq(Fields) /\ Width(<<f, g, h>>) = f.w + g.w + h.w
         /\ f.w \in PosIn(<<f, g, h>>, g.name)
<1>1. <<f, g, h>> = <<f>> \o (<<g>> \o <<h>>)
  <2>1. <<g>> \o <<h>> = <<g, h>>
    BY ChainTwo
  <2>2. <<f, g, h>> = <<f>> \o <<g, h>>
    BY ChainThree
  <2> QED BY <2>1, <2>2
<1>2. /\ <<g>> \o <<h>> \in Seq(Fields) /\ Width(<<g>> \o <<h>>) = g.w + h.w
      /\ <<f>> \in Seq(Fields) /\ Width(<<f>>) = f.w
      /\ <<g>> \in Seq(Fields) /\ <<h>> \in Seq(Fields)
  BY WidthOne, WidthConcat
<1>3. f.w + (g.w + h.w) = f.w + g.w + h.w /\ f.w + 0 = f.w
  BY DEF Fields
<1>4. 0 \in PosIn(<<g>> \o <<h>>, g.name)
  BY <1>2, PosOne, PosFirst
<1>5. f.w + 0 \in PosIn(<<f>> \o (<<g>> \o <<h>>), g.name)
  BY <1>2, <1>4, PosSecond
<1> QED BY <1>1, <1>2, <1>3, <1>5, WidthConcat

\* A list has twelve bytes before its body.
LEMMA ListIs ==
  ASSUME NEW name \in Names, NEW size \in Nat, NEW body \in Seq(Fields)
  PROVE  /\ List(name, size, body) \in Seq(Fields)
         /\ Width(List(name, size, body)) = 12 + Width(body)
         /\ \A f : \A p \in PosIn(body, f) : 12 + p \in PosIn(List(name, size, body), f)
         /\ List(name, size, body)[2].says = size
<1>1. PICK a : a = <<Field("LIST", 4), Says(name, size), Field(name, 4)>>
  OBVIOUS
<1>2. a \in Seq(Fields) /\ Width(a) = 12
  <2>1. PICK f, g, h : f = Field("LIST", 4) /\ g = Says(name, size) /\ h = Field(name, 4)
    OBVIOUS
  <2>2. f \in Fields /\ g \in Fields /\ h \in Fields /\ f.w = 4 /\ g.w = 4 /\ h.w = 4
    <3>1. 4 \in Nat
      OBVIOUS
    <3>2. "LIST" \in Names
      BY DEF Names
    <3> QED BY <2>1, <3>1, <3>2, FieldIn, SaysIn
  <2>3. a = <<f, g, h>>
    BY <1>1, <2>1
  <2> QED BY <2>2, <2>3, Three
<1>3. List(name, size, body) = a \o body
  BY <1>1 DEF List
<1>4. (a \o body)[2] = Says(name, size)
  <2>1. Len(a) = 3 /\ a[2] = Says(name, size)
    BY <1>1
  <2>2. PICK c : c = a \o body
    OBVIOUS
  <2>3. \A z \in 1 .. Len(a) + Len(body) : c[z] = IF z <= Len(a) THEN a[z] ELSE body[z - Len(a)]
    BY <1>2, <2>2, ConcatProperties
  <2>4. PICK z : z = 2
    OBVIOUS
  <2>5. z \in 1 .. Len(a) + Len(body) /\ z <= Len(a)
    <3>1. Len(body) \in Nat
      OBVIOUS
    <3> QED BY <2>1, <2>4, <3>1
  <2>6. c[z] = a[z]
    BY <2>3, <2>5
  <2> QED BY <2>1, <2>2, <2>4, <2>6
<1> QED BY <1>2, <1>3, <1>4, WidthConcat, PosSecond DEF Says

\* The rows of names.
LEMMA RowOf ==
  ASSUME NEW names \in Seq(Names), NEW a \in Seq(Fields)
  PROVE  /\ a \o U32(names) \in Seq(Fields) /\ Width(a \o U32(names)) = Width(a) + 4 * Len(names)
         /\ \A z \in 1 .. Len(names) : Width(a) + 4 * (z - 1) \in PosIn(a \o U32(names), names[z])
         /\ a \o U16(names) \in Seq(Fields) /\ Width(a \o U16(names)) = Width(a) + 2 * Len(names)
<1>1. U32(names) \in Seq(Fields) /\ U16(names) \in Seq(Fields)
  BY Row32, Row16
<1>2. /\ a \o U32(names) \in Seq(Fields) /\ Width(a \o U32(names)) = Width(a) + 4 * Len(names)
      /\ a \o U16(names) \in Seq(Fields) /\ Width(a \o U16(names)) = Width(a) + 2 * Len(names)
  <2>1. Width(U32(names)) = 4 * Len(names) /\ Width(U16(names)) = 2 * Len(names)
    BY Row32, Row16
  <2> QED BY <1>1, <2>1, WidthConcat
<1>3. ASSUME NEW z \in 1 .. Len(names)
      PROVE  Width(a) + 4 * (z - 1) \in PosIn(a \o U32(names), names[z])
  <2>1. 4 * (z - 1) \in PosIn(U32(names), names[z])
    BY Row32
  <2> QED BY <1>1, <2>1, PosSecond
<1> QED BY <1>2, <1>3

\* Names one by one, of 32 and of 16 bits.
LEMMA More32 ==
  ASSUME NEW names \in Seq(Names), NEW a \in Seq(Fields)
  PROVE  a \o U32(names) \in Seq(Fields) /\ Width(a \o U32(names)) = Width(a) + 4 * Len(names)
BY RowOf

LEMMA More16 ==
  ASSUME NEW names \in Seq(Names), NEW a \in Seq(Fields)
  PROVE  a \o U16(names) \in Seq(Fields) /\ Width(a \o U16(names)) = Width(a) + 2 * Len(names)
BY RowOf

\* A name and a size.
LEMMA Start ==
  ASSUME NEW f \in Names, NEW g \in Names, NEW v \in Nat
  PROVE  <<Field(f, 4), Says(g, v)>> \in Seq(Fields) /\ Width(<<Field(f, 4), Says(g, v)>>) = 8
<1>1. /\ Field(f, 4) \in Fields /\ Field(f, 4).w = 4
      /\ Says(g, v) \in Fields /\ Says(g, v).w = 4
  BY FieldIn, SaysIn
<1> QED BY <1>1, Two

\* The main header: 64 bytes, the frame count at 24 and the buffer size at 36.
LEMMA AvihIs ==
  /\ Avih \in Seq(Fields) /\ Width(Avih) = 64
  /\ 24 \in PosIn(Avih, "total_frames") /\ 36 \in PosIn(Avih, "suggested")
<1>1. PICK names : names = <<"usec", "max_bps", "padding", "flags", "total_frames", "initial",
                             "streams", "suggested", "width", "height", "r0", "r1", "r2", "r3">>
  OBVIOUS
<1>2. Len(names) = 14
  BY <1>1
<1>3. names \in Seq(Names)
  <2>1. /\ "usec" \in Names /\ "max_bps" \in Names /\ "padding" \in Names /\ "flags" \in Names
        /\ "total_frames" \in Names /\ "initial" \in Names /\ "streams" \in Names
        /\ "suggested" \in Names /\ "width" \in Names /\ "height" \in Names
        /\ "r0" \in Names /\ "r1" \in Names /\ "r2" \in Names /\ "r3" \in Names
    BY DEF Names
  <2> QED BY <1>1, <2>1
<1>4. names[5] = "total_frames" /\ names[8] = "suggested"
  BY <1>1
<1>6. PICK a : a = <<Field("avih", 4), Says("avih_size", 56)>>
  OBVIOUS
<1>7. a \in Seq(Fields) /\ Width(a) = 8
  <2>1. "avih" \in Names /\ "avih_size" \in Names /\ 56 \in Nat
    BY DEF Names
  <2> QED BY <1>6, <2>1, Start
<1>8. Avih = a \o U32(names)
  BY <1>1, <1>6 DEF Avih
<1>9. /\ Avih \in Seq(Fields) /\ Width(Avih) = 8 + 4 * 14
      /\ \A z \in 1 .. 14 : 8 + 4 * (z - 1) \in PosIn(Avih, names[z])
  BY <1>2, <1>3, <1>7, <1>8, RowOf
<1>10. /\ 8 + 4 * (5 - 1) \in PosIn(Avih, names[5])
       /\ 8 + 4 * (8 - 1) \in PosIn(Avih, names[8])
  BY <1>9
<1>11. 8 + 4 * 14 = 64 /\ 8 + 4 * (5 - 1) = 24 /\ 8 + 4 * (8 - 1) = 36
  OBVIOUS
<1> QED BY <1>4, <1>9, <1>10, <1>11

\* A stream header: 64 bytes, its length and its buffer size where they are patched.
LEMMA StrhIs ==
  ASSUME NEW length \in Names, NEW suggested \in Names, NEW h, h = Strh(length, suggested)
  PROVE  /\ h \in Seq(Fields) /\ Width(h) = 64
         /\ 40 \in PosIn(h, length) /\ 44 \in PosIn(h, suggested)
<1>1. PICK a, r1, r2, r3, r4 :
        /\ a = <<Field("strh", 4), Says("strh_size", 56)>>
        /\ r1 = <<"type", "handler", "flags">>
        /\ r2 = <<"priority", "language">>
        /\ r3 = <<"initial", "scale", "rate", "start", length, suggested, "quality", "sample_size">>
        /\ r4 = <<"left", "top", "right", "bottom">>
  OBVIOUS
<1>2. /\ Len(r1) = 3 /\ Len(r2) = 2 /\ Len(r3) = 8 /\ Len(r4) = 4
      /\ r3[5] = length /\ r3[6] = suggested
  BY <1>1
<1>3. r1 \in Seq(Names) /\ r2 \in Seq(Names) /\ r3 \in Seq(Names) /\ r4 \in Seq(Names)
  <2>1. /\ "type" \in Names /\ "handler" \in Names /\ "flags" \in Names
        /\ "priority" \in Names /\ "language" \in Names
        /\ "initial" \in Names /\ "scale" \in Names /\ "rate" \in Names /\ "start" \in Names
        /\ "quality" \in Names /\ "sample_size" \in Names
        /\ "left" \in Names /\ "top" \in Names /\ "right" \in Names /\ "bottom" \in Names
    BY DEF Names
  <2> QED BY <1>1, <2>1
<1>4. a \in Seq(Fields) /\ Width(a) = 8
  <2>1. "strh" \in Names /\ "strh_size" \in Names /\ 56 \in Nat
    BY DEF Names
  <2> QED BY <1>1, <2>1, Start
<1>5. PICK b1, b2, b3 : b1 = a \o U32(r1) /\ b2 = b1 \o U16(r2) /\ b3 = b2 \o U32(r3)
  OBVIOUS
<1>6. b1 \in Seq(Fields) /\ Width(b1) = 20
  <2>1. a \o U32(r1) \in Seq(Fields) /\ Width(a \o U32(r1)) = Width(a) + 4 * Len(r1)
    BY <1>2, <1>3, <1>4, <1>5, More32
  <2> QED BY <1>2, <1>3, <1>4, <1>5, <2>1
<1>7. b2 \in Seq(Fields) /\ Width(b2) = 24
  <2>1. b1 \o U16(r2) \in Seq(Fields) /\ Width(b1 \o U16(r2)) = Width(b1) + 2 * Len(r2)
    BY <1>2, <1>3, <1>5, <1>6, More16
  <2> QED BY <1>2, <1>3, <1>5, <1>6, <2>1
<1>8. /\ b3 \in Seq(Fields) /\ Width(b3) = 56
      /\ \A z \in 1 .. 8 : 24 + 4 * (z - 1) \in PosIn(b3, r3[z])
  <2>1. b2 \o U32(r3) \in Seq(Fields) /\ Width(b2 \o U32(r3)) = Width(b2) + 4 * Len(r3)
    BY <1>2, <1>3, <1>5, <1>7, More32
  <2>2. \A z \in 1 .. Len(r3) : Width(b2) + 4 * (z - 1) \in PosIn(b2 \o U32(r3), r3[z])
    BY <1>3, <1>7, RowOf, Zenon
  <2> QED BY <1>2, <1>3, <1>5, <1>7, <2>1, <2>2
<1>9. h = b3 \o U16(r4)
  BY <1>1, <1>5 DEF Strh
<1>10. h \in Seq(Fields) /\ Width(h) = 64
  <2>1. b3 \o U16(r4) \in Seq(Fields) /\ Width(b3 \o U16(r4)) = Width(b3) + 2 * Len(r4)
    BY <1>2, <1>3, <1>8, <1>9, More16
  <2> QED BY <1>2, <1>3, <1>8, <1>9, <2>1
<1>11. 40 \in PosIn(b3, length) /\ 44 \in PosIn(b3, suggested)
  <2>1. 24 + 4 * (5 - 1) \in PosIn(b3, r3[5]) /\ 24 + 4 * (6 - 1) \in PosIn(b3, r3[6])
    BY <1>8
  <2>2. 24 + 4 * (5 - 1) = 40 /\ 24 + 4 * (6 - 1) = 44
    OBVIOUS
  <2> QED BY <1>2, <2>1, <2>2
<1>12. U16(r4) \in Seq(Fields)
  BY <1>3, Row16
<1> QED BY <1>8, <1>9, <1>10, <1>11, <1>12, PosFirst

\* The stream formats: 48 bytes of picture, 26 of sound.
LEMMA FormatsAre ==
  /\ BitmapInfo \in Seq(Fields) /\ Width(BitmapInfo) = 48
  /\ WaveFormat \in Seq(Fields) /\ Width(WaveFormat) = 26
<1>1. PICK a, r1, r2, r3 :
        /\ a = <<Field("strf", 4), Says("strf_size", 40)>>
        /\ r1 = <<"size", "width", "height">> /\ r2 = <<"planes", "bits">>
        /\ r3 = <<"compression", "image", "xppm", "yppm", "used", "important">>
  OBVIOUS
<1>2. PICK b, s1, s2, s3 :
        /\ b = <<Field("strf", 4), Says("strf_size", 18)>>
        /\ s1 = <<"tag", "channels">> /\ s2 = <<"per_second", "bytes_per_second">>
        /\ s3 = <<"align", "bits", "extra">>
  OBVIOUS
<1>3. /\ Len(r1) = 3 /\ Len(r2) = 2 /\ Len(r3) = 6
      /\ Len(s1) = 2 /\ Len(s2) = 2 /\ Len(s3) = 3
  BY <1>1, <1>2
<1>4. /\ "size" \in Names /\ "width" \in Names /\ "height" \in Names
      /\ "planes" \in Names /\ "bits" \in Names
      /\ "compression" \in Names /\ "image" \in Names /\ "xppm" \in Names /\ "yppm" \in Names
      /\ "used" \in Names /\ "important" \in Names
      /\ "tag" \in Names /\ "channels" \in Names
      /\ "per_second" \in Names /\ "bytes_per_second" \in Names
      /\ "align" \in Names /\ "extra" \in Names /\ "strf" \in Names /\ "strf_size" \in Names
  BY DEF Names
<1>5. r1 \in Seq(Names) /\ r2 \in Seq(Names) /\ r3 \in Seq(Names)
  BY <1>1, <1>4
<1>6. s1 \in Seq(Names) /\ s2 \in Seq(Names) /\ s3 \in Seq(Names)
  BY <1>2, <1>4
<1>7. a \in Seq(Fields) /\ Width(a) = 8 /\ b \in Seq(Fields) /\ Width(b) = 8
  <2>1. 40 \in Nat /\ 18 \in Nat
    OBVIOUS
  <2> QED BY <1>1, <1>2, <1>4, <2>1, Start
<1>8. PICK c1, c2 : c1 = a \o U32(r1) /\ c2 = c1 \o U16(r2)
  OBVIOUS
<1>9. PICK d1, d2 : d1 = b \o U16(s1) /\ d2 = d1 \o U32(s2)
  OBVIOUS
<1>10. c1 \in Seq(Fields) /\ Width(c1) = 20
  <2>1. a \o U32(r1) \in Seq(Fields) /\ Width(a \o U32(r1)) = Width(a) + 4 * Len(r1)
    BY <1>3, <1>5, <1>7, <1>8, More32
  <2> QED BY <1>3, <1>5, <1>7, <1>8, <2>1
<1>11. c2 \in Seq(Fields) /\ Width(c2) = 24
  <2>1. c1 \o U16(r2) \in Seq(Fields) /\ Width(c1 \o U16(r2)) = Width(c1) + 2 * Len(r2)
    BY <1>3, <1>5, <1>8, <1>10, More16
  <2> QED BY <1>3, <1>5, <1>8, <1>10, <2>1
<1>12. d1 \in Seq(Fields) /\ Width(d1) = 12
  <2>1. b \o U16(s1) \in Seq(Fields) /\ Width(b \o U16(s1)) = Width(b) + 2 * Len(s1)
    BY <1>3, <1>6, <1>7, <1>9, More16
  <2> QED BY <1>3, <1>6, <1>7, <1>9, <2>1
<1>13. d2 \in Seq(Fields) /\ Width(d2) = 20
  <2>1. d1 \o U32(s2) \in Seq(Fields) /\ Width(d1 \o U32(s2)) = Width(d1) + 4 * Len(s2)
    BY <1>3, <1>6, <1>9, <1>12, More32
  <2> QED BY <1>3, <1>6, <1>9, <1>12, <2>1
<1>14. BitmapInfo = c2 \o U32(r3) /\ WaveFormat = d2 \o U16(s3)
  BY <1>1, <1>2, <1>8, <1>9 DEF BitmapInfo, WaveFormat
<1>15. BitmapInfo \in Seq(Fields) /\ Width(BitmapInfo) = 48
  <2>1. c2 \o U32(r3) \in Seq(Fields) /\ Width(c2 \o U32(r3)) = Width(c2) + 4 * Len(r3)
    BY <1>3, <1>5, <1>11, <1>14, More32
  <2> QED BY <1>3, <1>5, <1>11, <1>14, <2>1
<1>16. WaveFormat \in Seq(Fields) /\ Width(WaveFormat) = 26
  <2>1. d2 \o U16(s3) \in Seq(Fields) /\ Width(d2 \o U16(s3)) = Width(d2) + 2 * Len(s3)
    BY <1>3, <1>6, <1>13, <1>14, More16
  <2> QED BY <1>3, <1>6, <1>13, <1>14, <2>1
<1> QED BY <1>15, <1>16

\* A stream: its header, then its format.
Strl(length, suggested, form, size) == List("strl", size, Strh(length, suggested) \o form)
StreamHas(l, length, suggested, form, size) ==
  /\ l \in Seq(Fields) /\ Width(l) = 76 + Width(form) /\ l[2].says = size
  /\ 52 \in PosIn(l, length) /\ 56 \in PosIn(l, suggested)

\* A stream list, header and format.
LEMMA StreamIs ==
  ASSUME NEW length \in Names, NEW suggested \in Names, NEW form \in Seq(Fields),
         NEW size \in Nat
  PROVE  StreamHas(Strl(length, suggested, form, size), length, suggested, form, size)
<1>0. PICK l : l = Strl(length, suggested, form, size)
  OBVIOUS
<1>1. PICK h, b : h = Strh(length, suggested) /\ b = h \o form
  OBVIOUS
<1>2. /\ h \in Seq(Fields) /\ Width(h) = 64
      /\ 40 \in PosIn(h, length) /\ 44 \in PosIn(h, suggested)
  BY <1>1, StrhIs
<1>3. b \in Seq(Fields) /\ Width(b) = 64 + Width(form)
  BY <1>1, <1>2, WidthConcat
<1>4. 40 \in PosIn(b, length) /\ 44 \in PosIn(b, suggested)
  BY <1>1, <1>2, PosFirst
<1>5. "strl" \in Names /\ l = List("strl", size, b)
  BY <1>0, <1>1 DEF Names, Strl
<1>6. /\ l \in Seq(Fields) /\ Width(l) = 12 + Width(b) /\ l[2].says = size
      /\ \A f : \A p \in PosIn(b, f) : 12 + p \in PosIn(l, f)
  <2>1. /\ List("strl", size, b) \in Seq(Fields)
        /\ Width(List("strl", size, b)) = 12 + Width(b)
        /\ List("strl", size, b)[2].says = size
        /\ \A f : \A p \in PosIn(b, f) : 12 + p \in PosIn(List("strl", size, b), f)
    BY <1>3, <1>5, ListIs
  <2> QED BY <1>5, <2>1
<1>7. 12 + 40 \in PosIn(l, length) /\ 12 + 44 \in PosIn(l, suggested)
  BY <1>4, <1>6
<1>8. Width(form) \in Nat
  BY WidthType
<1>9. 12 + (64 + Width(form)) = 76 + Width(form) /\ 12 + 40 = 52 /\ 12 + 44 = 56
  BY <1>8
<1>10. StreamHas(l, length, suggested, form, size)
  BY <1>3, <1>6, <1>7, <1>9 DEF StreamHas
<1> QED BY <1>0, <1>10

\* The two stream lists say their own sizes.
LEMMA StreamsAre ==
  /\ VideoStrl \in Seq(Fields) /\ Width(VideoStrl) = 124 /\ VideoStrl[2].says = 116
  /\ 52 \in PosIn(VideoStrl, "video_length") /\ 56 \in PosIn(VideoStrl, "video_suggested")
  /\ AudioStrl \in Seq(Fields) /\ Width(AudioStrl) = 102 /\ AudioStrl[2].says = 94
  /\ 52 \in PosIn(AudioStrl, "audio_length") /\ 56 \in PosIn(AudioStrl, "audio_suggested")
<1>1. /\ "video_length" \in Names /\ "video_suggested" \in Names
      /\ "audio_length" \in Names /\ "audio_suggested" \in Names
  BY DEF Names
<1>2. 116 \in Nat /\ 94 \in Nat /\ 76 + 48 = 124 /\ 76 + 26 = 102
  OBVIOUS
<1>3. /\ VideoStrl = List("strl", 116, Strh("video_length", "video_suggested") \o BitmapInfo)
      /\ AudioStrl = List("strl", 94, Strh("audio_length", "audio_suggested") \o WaveFormat)
  BY DEF VideoStrl, AudioStrl
<1>4. /\ VideoStrl \in Seq(Fields) /\ Width(VideoStrl) = 76 + Width(BitmapInfo)
      /\ VideoStrl[2].says = 116
      /\ 52 \in PosIn(VideoStrl, "video_length") /\ 56 \in PosIn(VideoStrl, "video_suggested")
  <2>1. PICK length, suggested, form, size :
          /\ length = "video_length" /\ suggested = "video_suggested"
          /\ form = BitmapInfo /\ size = 116
    OBVIOUS
  <2>2. length \in Names /\ suggested \in Names /\ form \in Seq(Fields) /\ size \in Nat
    BY <1>1, <1>2, <2>1, FormatsAre
  <2>3. PICK l : l = Strl(length, suggested, form, size)
    OBVIOUS
  <2>4. StreamHas(l, length, suggested, form, size)
    BY <2>2, <2>3, StreamIs
  <2>5. l = VideoStrl
    BY <1>3, <2>1, <2>3 DEF Strl
  <2> QED BY <2>1, <2>4, <2>5 DEF StreamHas
<1>5. /\ AudioStrl \in Seq(Fields) /\ Width(AudioStrl) = 76 + Width(WaveFormat)
      /\ AudioStrl[2].says = 94
      /\ 52 \in PosIn(AudioStrl, "audio_length") /\ 56 \in PosIn(AudioStrl, "audio_suggested")
  <2>1. PICK length, suggested, form, size :
          /\ length = "audio_length" /\ suggested = "audio_suggested"
          /\ form = WaveFormat /\ size = 94
    OBVIOUS
  <2>2. length \in Names /\ suggested \in Names /\ form \in Seq(Fields) /\ size \in Nat
    BY <1>1, <1>2, <2>1, FormatsAre
  <2>3. PICK l : l = Strl(length, suggested, form, size)
    OBVIOUS
  <2>4. StreamHas(l, length, suggested, form, size)
    BY <2>2, <2>3, StreamIs
  <2>5. l = AudioStrl
    BY <1>3, <2>1, <2>3 DEF Strl
  <2> QED BY <2>1, <2>4, <2>5 DEF StreamHas
<1> QED BY <1>2, <1>4, <1>5, FormatsAre

\* The list of the stream headers, and where its fields are.
HdrlHas(h, audio) ==
  /\ h \in Seq(Fields) /\ Width(h) = (IF audio THEN 302 ELSE 200) /\ h[2].says = Width(h) - 8
  /\ 36 \in PosIn(h, "total_frames") /\ 48 \in PosIn(h, "suggested")
  /\ 128 \in PosIn(h, "video_length") /\ 132 \in PosIn(h, "video_suggested")
  /\ audio => 252 \in PosIn(h, "audio_length") /\ 256 \in PosIn(h, "audio_suggested")

\* The header list, with or without the sound.
LEMMA HdrlIs == ASSUME NEW audio \in BOOLEAN PROVE HdrlHas(Hdrl(audio), audio)
<1>1. PICK s, size : /\ s = (IF audio THEN AudioStrl ELSE <<>>)
                     /\ size = (IF audio THEN 192 + 102 ELSE 192)
  OBVIOUS
<1>2. PICK x, b : x = Avih \o VideoStrl /\ b = x \o s
  OBVIOUS
<1>3. s \in Seq(Fields) /\ Width(s) = (IF audio THEN 102 ELSE 0)
  <2>1. CASE audio
    BY <1>1, <2>1, StreamsAre
  <2>2. CASE ~audio
    BY <1>1, <2>2, WidthNone
  <2> QED BY <2>1, <2>2
<1>4. /\ x \in Seq(Fields) /\ Width(x) = 188
      /\ 24 \in PosIn(x, "total_frames") /\ 36 \in PosIn(x, "suggested")
      /\ 116 \in PosIn(x, "video_length") /\ 120 \in PosIn(x, "video_suggested")
  <2>1. x \in Seq(Fields) /\ Width(x) = 64 + 124
    BY <1>2, AvihIs, StreamsAre, WidthConcat
  <2>2. 24 \in PosIn(x, "total_frames") /\ 36 \in PosIn(x, "suggested")
    BY <1>2, AvihIs, StreamsAre, PosFirst
  <2>3. 64 + 52 \in PosIn(x, "video_length") /\ 64 + 56 \in PosIn(x, "video_suggested")
    <3>1. /\ Width(Avih) + 52 \in PosIn(Avih \o VideoStrl, "video_length")
          /\ Width(Avih) + 56 \in PosIn(Avih \o VideoStrl, "video_suggested")
      BY AvihIs, StreamsAre, PosSecond
    <3> QED BY <1>2, <3>1, AvihIs
  <2> QED BY <2>1, <2>2, <2>3
<1>5. /\ b \in Seq(Fields) /\ Width(b) = 188 + Width(s)
      /\ 24 \in PosIn(b, "total_frames") /\ 36 \in PosIn(b, "suggested")
      /\ 116 \in PosIn(b, "video_length") /\ 120 \in PosIn(b, "video_suggested")
  <2>1. b \in Seq(Fields) /\ Width(b) = 188 + Width(s)
    BY <1>2, <1>3, <1>4, WidthConcat
  <2>2. /\ 24 \in PosIn(b, "total_frames") /\ 36 \in PosIn(b, "suggested")
        /\ 116 \in PosIn(b, "video_length") /\ 120 \in PosIn(b, "video_suggested")
    <3>1. \A f : \A p \in PosIn(x, f) : p \in PosIn(x \o s, f)
      BY <1>3, <1>4, PosFirst
    <3> QED BY <1>2, <1>4, <3>1
  <2> QED BY <2>1, <2>2
<1>6. ASSUME audio PROVE 240 \in PosIn(b, "audio_length") /\ 244 \in PosIn(b, "audio_suggested")
  <2>1. /\ Width(x) + 52 \in PosIn(x \o AudioStrl, "audio_length")
        /\ Width(x) + 56 \in PosIn(x \o AudioStrl, "audio_suggested")
    BY <1>4, StreamsAre, PosSecond
  <2>2. b = x \o AudioStrl /\ 188 + 52 = 240 /\ 188 + 56 = 244
    BY <1>1, <1>2, <1>6
  <2> QED BY <1>4, <2>1, <2>2
<1>7. PICK h : h = List("hdrl", size, b)
  OBVIOUS
<1>8. size \in Nat /\ "hdrl" \in Names
  BY <1>1 DEF Names
<1>9. /\ List("hdrl", size, b) \in Seq(Fields)
      /\ Width(List("hdrl", size, b)) = 12 + Width(b)
      /\ List("hdrl", size, b)[2].says = size
      /\ \A f : \A p \in PosIn(b, f) : 12 + p \in PosIn(List("hdrl", size, b), f)
  BY <1>5, <1>8, ListIs
<1>10. Hdrl(audio) = h
  BY <1>1, <1>2, <1>7 DEF Hdrl
<1>11. /\ h \in Seq(Fields) /\ Width(h) = (IF audio THEN 302 ELSE 200)
       /\ h[2].says = Width(h) - 8
  BY <1>1, <1>3, <1>5, <1>7, <1>9
<1>12. \A f : \A p \in PosIn(b, f) : 12 + p \in PosIn(h, f)
  BY <1>7, <1>9
<1>13. /\ 12 + 24 \in PosIn(h, "total_frames") /\ 12 + 36 \in PosIn(h, "suggested")
       /\ 12 + 116 \in PosIn(h, "video_length") /\ 12 + 120 \in PosIn(h, "video_suggested")
       /\ audio => 12 + 240 \in PosIn(h, "audio_length") /\ 12 + 244 \in PosIn(h, "audio_suggested")
  BY <1>5, <1>6, <1>12
<1>14. HdrlHas(h, audio)
  BY <1>11, <1>13 DEF HdrlHas
<1> QED BY <1>10, <1>14

\* The whole header.
HeaderHas(h, audio) ==
  /\ h \in Seq(Fields) /\ Width(h) = (IF audio THEN 326 ELSE 224)
  /\ 4 \in PosIn(h, "riff_size") /\ Width(h) - 8 \in PosIn(h, "movi_size")
  /\ 48 \in PosIn(h, "total_frames") /\ 60 \in PosIn(h, "suggested")
  /\ 140 \in PosIn(h, "video_length") /\ 144 \in PosIn(h, "video_suggested")
  /\ audio => 264 \in PosIn(h, "audio_length") /\ 268 \in PosIn(h, "audio_suggested")

\* The whole header, and the positions of the fields that are patched.
LEMMA HeaderIs == ASSUME NEW audio \in BOOLEAN PROVE HeaderHas(Header(audio), audio)
<1>1. PICK l, x : /\ l = Hdrl(audio)
                  /\ x = <<Field("RIFF", 4), Field("riff_size", 4), Field("AVI", 4)>>
  OBVIOUS
<1>2. PICK m : m = <<Field("LIST", 4), Field("movi_size", 4), Field("movi", 4)>>
  OBVIOUS
<1>3. PICK y, h : y = x \o l /\ h = y \o m
  OBVIOUS
<1>4. HdrlHas(l, audio)
  BY <1>1, HdrlIs
<1>5. /\ "RIFF" \in Names /\ "riff_size" \in Names /\ "AVI" \in Names
      /\ "LIST" \in Names /\ "movi_size" \in Names /\ "movi" \in Names
  BY DEF Names
<1>6. /\ x \in Seq(Fields) /\ Width(x) = 12 /\ 4 \in PosIn(x, "riff_size")
  <2>1. PICK f, g, k : f = Field("RIFF", 4) /\ g = Field("riff_size", 4) /\ k = Field("AVI", 4)
    OBVIOUS
  <2>2. /\ f \in Fields /\ f.w = 4 /\ g \in Fields /\ g.w = 4 /\ g.name = "riff_size"
        /\ k \in Fields /\ k.w = 4
    BY <1>5, <2>1, FieldIn
  <2>3. /\ <<f, g, k>> \in Seq(Fields) /\ Width(<<f, g, k>>) = f.w + g.w + k.w
        /\ f.w \in PosIn(<<f, g, k>>, g.name)
    BY <2>2, Three
  <2> QED BY <1>1, <2>1, <2>2, <2>3
<1>7. /\ m \in Seq(Fields) /\ Width(m) = 12 /\ 4 \in PosIn(m, "movi_size")
  <2>1. PICK f, g, k : f = Field("LIST", 4) /\ g = Field("movi_size", 4) /\ k = Field("movi", 4)
    OBVIOUS
  <2>2. /\ f \in Fields /\ f.w = 4 /\ g \in Fields /\ g.w = 4 /\ g.name = "movi_size"
        /\ k \in Fields /\ k.w = 4
    BY <1>5, <2>1, FieldIn
  <2>3. /\ <<f, g, k>> \in Seq(Fields) /\ Width(<<f, g, k>>) = f.w + g.w + k.w
        /\ f.w \in PosIn(<<f, g, k>>, g.name)
    BY <2>2, Three
  <2> QED BY <1>2, <2>1, <2>2, <2>3
<1>8. l \in Seq(Fields) /\ Width(l) = (IF audio THEN 302 ELSE 200)
  BY <1>4 DEF HdrlHas
<1>9. y \in Seq(Fields) /\ Width(y) = 12 + Width(l)
  BY <1>3, <1>6, <1>8, WidthConcat
<1>10. h \in Seq(Fields) /\ Width(h) = Width(y) + 12
  BY <1>3, <1>7, <1>9, WidthConcat
<1>11. \A f : \A p \in PosIn(l, f) : 12 + p \in PosIn(y, f)
  <2>1. \A f : \A p \in PosIn(l, f) : Width(x) + p \in PosIn(x \o l, f)
    BY <1>6, <1>8, PosSecond
  <2> QED BY <1>3, <1>6, <2>1
<1>12. \A f : \A p \in PosIn(y, f) : p \in PosIn(h, f)
  BY <1>3, <1>7, <1>9, PosFirst
<1>13. 4 \in PosIn(h, "riff_size")
  <2>1. 4 \in PosIn(y, "riff_size")
    BY <1>3, <1>6, <1>8, PosFirst
  <2> QED BY <1>12, <2>1
<1>14. Width(y) + 4 \in PosIn(h, "movi_size")
  BY <1>3, <1>7, <1>9, PosSecond
<1>15. \A f : \A p \in PosIn(l, f) : 12 + p \in PosIn(h, f)
  BY <1>11, <1>12
<1>16. /\ 12 + 36 \in PosIn(h, "total_frames") /\ 12 + 48 \in PosIn(h, "suggested")
       /\ 12 + 128 \in PosIn(h, "video_length") /\ 12 + 132 \in PosIn(h, "video_suggested")
       /\ audio => 12 + 252 \in PosIn(h, "audio_length") /\ 12 + 256 \in PosIn(h, "audio_suggested")
  BY <1>4, <1>15 DEF HdrlHas
<1>17. Width(h) = (IF audio THEN 326 ELSE 224) /\ Width(y) + 4 = Width(h) - 8
  BY <1>8, <1>9, <1>10
<1>18. HeaderHas(h, audio)
  BY <1>10, <1>13, <1>14, <1>16, <1>17 DEF HeaderHas
<1>19. Header(audio) = h
  BY <1>1, <1>2, <1>3 DEF Header
<1> QED BY <1>18, <1>19

\* What the header announces.
LEMMA HeaderWhole == ASSUME avi.audio \in BOOLEAN PROVE HeaderIsWhole
<1>1. PICK h : h = Hdrl(avi.audio)
  OBVIOUS
<1>2. Width(h) - 8 = h[2].says
  BY <1>1, HdrlIs DEF HdrlHas
<1>3. Width(Strh("length", "suggested")) = 64
  <2>1. "length" \in Names /\ "suggested" \in Names
    BY DEF Names
  <2> QED BY <2>1, StrhIs
<1> QED BY <1>1, <1>2, <1>3, AvihIs, FormatsAre, StreamsAre DEF HeaderIsWhole

-----------------------------------------------------------------------------
(* The chunks *)

Chunks == [sound : BOOLEAN, size : Nat, data : Seq(Nat)]

\* Where they are, from the name of the list on.
OffsetOf(chunks, z) ==
  LET upto[n \in 0 .. z - 1] == IF n = 0 THEN 4 ELSE upto[n - 1] + 8 + Even(chunks[n].size)
  IN upto[z - 1]
Goes(g, chunks, z) ==
  g = [n \in 0 .. z - 1 |-> IF n = 0 THEN 4 ELSE g[n - 1] + 8 + Even(chunks[n].size)]
Follows(g, chunks, k) ==
  g \in [0 .. k -> Nat] /\ g[0] = 4
  /\ \A n \in 1 .. k : g[n] = g[n - 1] + 8 + Even(chunks[n].size)

\* Padding keeps a number a number.
LEMMA EvenIn == ASSUME NEW n \in Nat PROVE Even(n) \in Nat
<1>1. n % 2 \in Nat
  OBVIOUS
<1> QED BY <1>1 DEF Even

\* An offset is the sum of the chunks before it.
LEMMA OffsetIs ==
  ASSUME NEW chunks \in Seq(Chunks), NEW k \in Nat, k <= Len(chunks)
  PROVE  \E g : Follows(g, chunks, k) /\ OffsetOf(chunks, k + 1) = g[k]
<1>1. \A n \in 1 .. k : Even(chunks[n].size) \in Nat
  <2> TAKE n \in 1 .. k
  <2>1. n \in 1 .. Len(chunks)
    OBVIOUS
  <2>2. chunks[n] \in Chunks
    BY <2>1, ElementOfSeq
  <2> QED BY <2>2, EvenIn DEF Chunks
<1>2. PICK F : F = [n \in 1 .. k |-> [t \in Nat |-> t + 8 + Even(chunks[n].size)]]
  OBVIOUS
<1>3. StepsIn(Nat, k, F)
  <2>1. \A n \in 1 .. k : [t \in Nat |-> t + 8 + Even(chunks[n].size)] \in [Nat -> Nat]
    BY <1>1
  <2> QED BY <1>2, <2>1 DEF StepsIn
<1>4. PICK g : Runs(g, Nat, k, 4, F)
  BY <1>3, Iterates
<1>5. Follows(g, chunks, k)
  <2>1. ASSUME NEW n \in 1 .. k PROVE g[n] = g[n - 1] + 8 + Even(chunks[n].size)
    <3>1. n - 1 \in 0 .. k /\ g[n - 1] \in Nat
      BY <1>4 DEF Runs
    <3> QED BY <1>2, <1>4, <3>1 DEF Runs
  <2> QED BY <1>4, <2>1 DEF Runs, Follows
<1>6. k + 1 - 1 = k
  OBVIOUS
<1>7. Goes(g, chunks, k + 1)
  <2>1. \A n \in 0 .. k : g[n] = IF n = 0 THEN 4 ELSE g[n - 1] + 8 + Even(chunks[n].size)
    BY <1>5 DEF Follows
  <2>2. PICK d : d = 0 .. k
    OBVIOUS
  <2>3. g = [n \in d |-> IF n = 0 THEN 4 ELSE g[n - 1] + 8 + Even(chunks[n].size)]
    <3>1. g = [n \in d |-> g[n]]
      BY <1>5, <2>2 DEF Follows
    <3> QED BY <2>1, <2>2, <3>1
  <2>4. d = 0 .. k + 1 - 1
    BY <1>6, <2>2
  <2> QED BY <2>3, <2>4 DEF Goes
<1>8. PICK h : h = CHOOSE f : Goes(f, chunks, k + 1)
  OBVIOUS
<1>9. Goes(h, chunks, k + 1)
  BY <1>7, <1>8
<1>10. h[0] = 4 /\ \A n \in 1 .. k : h[n] = h[n - 1] + 8 + Even(chunks[n].size)
  <2>1. \A n \in 0 .. k : h[n] = IF n = 0 THEN 4 ELSE h[n - 1] + 8 + Even(chunks[n].size)
    BY <1>6, <1>9 DEF Goes
  <2>2. 0 \in 0 .. k /\ \A n \in 1 .. k : n \in 0 .. k /\ n # 0
    OBVIOUS
  <2> QED BY <2>1, <2>2
<1>11. GoAlike(k, h, g)
  BY <1>5, <1>10 DEF Follows, GoAlike
<1>12. h[k] = g[k]
  BY <1>11, Agree DEF Alike
<1>13. OffsetOf(chunks, k + 1) = h[k]
  <2>1. OffsetOf(chunks, k + 1) = h[k + 1 - 1]
    BY <1>8 DEF OffsetOf, Goes
  <2> QED BY <1>6, <2>1
<1> QED BY <1>5, <1>12, <1>13

\* The first chunk follows the name of the list.
LEMMA OffsetFirst == ASSUME NEW chunks \in Seq(Chunks) PROVE OffsetOf(chunks, 1) = 4
<1>1. 0 <= Len(chunks) /\ 0 \in Nat /\ 0 + 1 = 1
  OBVIOUS
<1>2. PICK g : Follows(g, chunks, 0) /\ OffsetOf(chunks, 0 + 1) = g[0]
  BY <1>1, OffsetIs
<1> QED BY <1>1, <1>2 DEF Follows

\* A chunk more is where the list ended, and what was there stays.
LEMMA OffsetMore ==
  ASSUME NEW chunks \in Seq(Chunks), NEW c \in Chunks, NEW l, l = Append(chunks, c)
  PROVE  /\ l \in Seq(Chunks) /\ Len(l) = Len(chunks) + 1
         /\ \A z \in 1 .. Len(chunks) + 1 :
              OffsetOf(l, z) = OffsetOf(chunks, z) /\ OffsetOf(l, z) \in Nat
         /\ OffsetOf(l, Len(l) + 1) = OffsetOf(chunks, Len(chunks) + 1) + 8 + Even(c.size)
<1>1. PICK L : L = Len(chunks)
  OBVIOUS
<1>2. /\ L \in Nat /\ l \in Seq(Chunks) /\ Len(l) = L + 1
      /\ \A z \in 1 .. L : l[z] = chunks[z]
      /\ l[L + 1] = c
  BY <1>1, AppendProperties
<1>3. ASSUME NEW k \in Nat, k <= L
      PROVE  OffsetOf(l, k + 1) = OffsetOf(chunks, k + 1) /\ OffsetOf(l, k + 1) \in Nat
  <2>1. PICK g : Follows(g, chunks, k) /\ OffsetOf(chunks, k + 1) = g[k]
    BY <1>1, <1>3, OffsetIs
  <2>2. k <= Len(l)
    BY <1>2, <1>3
  <2>3. PICK h : Follows(h, l, k) /\ OffsetOf(l, k + 1) = h[k]
    BY <1>2, <2>2, OffsetIs
  <2>4. \A n \in 1 .. k : l[n] = chunks[n]
    BY <1>2, <1>3
  <2>5. GoAlike(k, h, g)
    BY <2>1, <2>3, <2>4 DEF Follows, GoAlike
  <2>6. h[k] = g[k]
    BY <2>5, Agree DEF Alike
  <2> QED BY <2>1, <2>3, <2>6 DEF Follows
<1>4. ASSUME NEW z \in 1 .. L + 1
      PROVE  OffsetOf(l, z) = OffsetOf(chunks, z) /\ OffsetOf(l, z) \in Nat
  <2>1. PICK k : k = z - 1
    OBVIOUS
  <2>2. k \in Nat /\ k <= L /\ k + 1 = z
    BY <1>2, <2>1
  <2> QED BY <1>3, <2>2
<1>5. OffsetOf(l, L + 1 + 1) = OffsetOf(l, L + 1) + 8 + Even(c.size)
  <2>1. PICK k : k = L + 1
    OBVIOUS
  <2>2. k \in Nat /\ k <= Len(l) /\ k \in 1 .. k /\ k - 1 = L /\ L \in 0 .. L
    BY <1>2, <2>1
  <2>3. PICK g : Follows(g, l, k) /\ OffsetOf(l, k + 1) = g[k]
    BY <1>2, <2>2, OffsetIs
  <2>4. PICK h : Follows(h, l, L) /\ OffsetOf(l, L + 1) = h[L]
    <3>1. L <= Len(l)
      BY <1>2
    <3> QED BY <1>2, <3>1, OffsetIs
  <2>5. \A n \in 1 .. L : n \in 1 .. k
    BY <1>2, <2>1
  <2>6. GoAlike(L, g, h)
    BY <2>3, <2>4, <2>5 DEF Follows, GoAlike
  <2>7. g[L] = h[L]
    BY <1>2, <2>6, Agree DEF Alike
  <2>8. g[k] = g[L] + 8 + Even(c.size)
    BY <1>2, <2>1, <2>2, <2>3 DEF Follows
  <2> QED BY <2>1, <2>3, <2>4, <2>7, <2>8
<1>6. OffsetOf(l, L + 1) = OffsetOf(chunks, L + 1)
  <2>1. L + 1 \in 1 .. L + 1
    BY <1>2
  <2> QED BY <1>4, <2>1
<1> QED BY <1>1, <1>2, <1>4, <1>5, <1>6

\* The sound in them, one after the other.
Sounds(g, chunks) ==
  g = [n \in 0 .. Len(chunks) |-> IF n = 0 THEN <<>> ELSE g[n - 1] \o chunks[n].data]
Joins(g, chunks, k) ==
  g \in [0 .. k -> Seq(Nat)] /\ g[0] = <<>>
  /\ \A n \in 1 .. k : g[n] = g[n - 1] \o chunks[n].data

\* The sound of a file is its chunks one after the other.
LEMMA SoundIs ==
  ASSUME NEW chunks \in Seq(Chunks)
  PROVE  \E g : Joins(g, chunks, Len(chunks)) /\ SoundOf(chunks) = g[Len(chunks)]
<1>0. PICK k : k = Len(chunks)
  OBVIOUS
<1>1. k \in Nat /\ \A n \in 1 .. k : chunks[n].data \in Seq(Nat)
  <2>1. \A n \in 1 .. k : chunks[n] \in Chunks
    BY <1>0, ElementOfSeq
  <2> QED BY <1>0, <2>1 DEF Chunks
<1>2. PICK F : F = [n \in 1 .. k |-> [t \in Seq(Nat) |-> t \o chunks[n].data]]
  OBVIOUS
<1>3. StepsIn(Seq(Nat), k, F)
  <2>1. \A n \in 1 .. k : [t \in Seq(Nat) |-> t \o chunks[n].data] \in [Seq(Nat) -> Seq(Nat)]
    <3> TAKE n \in 1 .. k
    <3>1. \A t \in Seq(Nat) : t \o chunks[n].data \in Seq(Nat)
      BY <1>1, ConcatProperties
    <3> QED BY <3>1
  <2> QED BY <1>2, <2>1 DEF StepsIn
<1>4. PICK g : Runs(g, Seq(Nat), k, <<>>, F)
  <2>1. <<>> \in Seq(Nat)
    OBVIOUS
  <2> QED BY <1>1, <1>3, <2>1, Iterates
<1>5. Joins(g, chunks, k)
  <2>1. ASSUME NEW n \in 1 .. k PROVE g[n] = g[n - 1] \o chunks[n].data
    <3>1. n - 1 \in 0 .. k /\ g[n - 1] \in Seq(Nat)
      BY <1>1, <1>4 DEF Runs
    <3> QED BY <1>2, <1>4, <3>1 DEF Runs
  <2> QED BY <1>4, <2>1 DEF Runs, Joins
<1>7. Sounds(g, chunks)
  <2>1. ASSUME NEW n \in 0 .. k
        PROVE  g[n] = IF n = 0 THEN <<>> ELSE g[n - 1] \o chunks[n].data
    <3>1. CASE n = 0
      BY <1>5, <3>1 DEF Joins
    <3>2. CASE n # 0
      <4>1. n \in 1 .. k
        BY <1>1, <3>2
      <4> QED BY <1>5, <3>2, <4>1 DEF Joins
    <3> QED BY <3>1, <3>2
  <2>2. g = [n \in 0 .. k |-> g[n]]
    BY <1>5 DEF Joins
  <2> QED BY <1>0, <2>1, <2>2 DEF Sounds
<1>8. PICK h : h = CHOOSE f : Sounds(f, chunks)
  OBVIOUS
<1>9. Sounds(h, chunks)
  BY <1>7, <1>8
<1>10. h[0] = <<>> /\ \A n \in 1 .. k : h[n] = h[n - 1] \o chunks[n].data
  <2>1. \A n \in 0 .. k : h[n] = IF n = 0 THEN <<>> ELSE h[n - 1] \o chunks[n].data
    BY <1>0, <1>9 DEF Sounds
  <2>2. 0 \in 0 .. k /\ \A n \in 1 .. k : n \in 0 .. k /\ n # 0
    BY <1>1
  <2> QED BY <2>1, <2>2
<1>11. GoAlike(k, h, g)
  BY <1>5, <1>10 DEF Joins, GoAlike
<1>12. h[k] = g[k]
  BY <1>1, <1>11, Agree DEF Alike
<1>13. SoundOf(chunks) = h[k]
  BY <1>0, <1>8 DEF SoundOf, Sounds
<1> QED BY <1>0, <1>5, <1>12, <1>13

\* No chunks hold no sound.
LEMMA SoundNone == <<>> \in Seq(Chunks) /\ SoundOf(<<>>) = <<>>
<1>1. <<>> \in Seq(Chunks) /\ Len(<<>>) = 0
  OBVIOUS
<1> QED BY <1>1, SoundIs DEF Joins

\* A chunk more is heard at the end.
LEMMA SoundMore ==
  ASSUME NEW chunks \in Seq(Chunks), NEW c \in Chunks, NEW l, l = Append(chunks, c)
  PROVE  SoundOf(chunks) \in Seq(Nat) /\ SoundOf(l) = SoundOf(chunks) \o c.data
<1>1. PICK L : L = Len(chunks)
  OBVIOUS
<1>2. /\ L \in Nat /\ l \in Seq(Chunks) /\ Len(l) = L + 1
      /\ \A z \in 1 .. L : l[z] = chunks[z]
      /\ l[L + 1] = c
  BY <1>1, AppendProperties
<1>3. PICK g : Joins(g, chunks, L) /\ SoundOf(chunks) = g[L]
  BY <1>1, SoundIs
<1>4. PICK h : Joins(h, l, L + 1) /\ SoundOf(l) = h[L + 1]
  BY <1>2, SoundIs
<1>5. \A n \in 1 .. L : n \in 1 .. L + 1
  BY <1>2
<1>6. GoAlike(L, h, g)
  BY <1>2, <1>3, <1>4, <1>5 DEF Joins, GoAlike
<1>7. h[L] = g[L]
  BY <1>2, <1>6, Agree DEF Alike
<1>8. h[L + 1] = h[L] \o c.data
  <2>1. L + 1 \in 1 .. L + 1 /\ (L + 1) - 1 = L
    BY <1>2
  <2> QED BY <1>2, <1>4, <2>1 DEF Joins
<1> QED BY <1>2, <1>3, <1>4, <1>7, <1>8 DEF Joins

\* The pictures among them.
Shown(chunks) == Cardinality({z \in DOMAIN chunks : ~chunks[z].sound})

\* A chunk more is a picture more, or none.
LEMMA ShownMore ==
  ASSUME NEW chunks \in Seq(Chunks), NEW c \in Chunks, NEW l, l = Append(chunks, c)
  PROVE  /\ Shown(chunks) \in Nat
         /\ Shown(l) = IF c.sound THEN Shown(chunks) ELSE Shown(chunks) + 1
<1>1. PICK L : L = Len(chunks)
  OBVIOUS
<1>2. /\ L \in Nat /\ DOMAIN chunks = 1 .. L /\ DOMAIN l = 1 .. L + 1
      /\ \A z \in 1 .. L : l[z] = chunks[z]
      /\ l[L + 1] = c
  BY <1>1, AppendProperties
<1>3. PICK S, T : S = {z \in DOMAIN chunks : ~chunks[z].sound} /\ T = {z \in DOMAIN l : ~l[z].sound}
  OBVIOUS
<1>4. IsFiniteSet(S)
  <2>1. IsFiniteSet(1 .. L)
    BY <1>2, FS_Interval
  <2>2. S \subseteq 1 .. L
    BY <1>2, <1>3
  <2> QED BY <2>1, <2>2, FS_Subset
<1>5. Cardinality(S) \in Nat
  BY <1>4, FS_CardinalityType
<1>6. L + 1 \notin S
  BY <1>2, <1>3
<1>7. CASE c.sound
  <2>1. T = S
    BY <1>2, <1>3, <1>7
  <2> QED BY <1>3, <1>5, <1>7, <2>1 DEF Shown
<1>8. CASE ~c.sound
  <2>1. T = S \cup {L + 1}
    BY <1>2, <1>3, <1>8
  <2>2. Cardinality(S \cup {L + 1}) = Cardinality(S) + 1
    BY <1>4, <1>6, FS_AddElement
  <2> QED BY <1>3, <1>5, <1>8, <2>1, <2>2 DEF Shown
<1> QED BY <1>7, <1>8

-----------------------------------------------------------------------------
(* The file *)

\* A remainder is what is left.
LEMMA LeftOver ==
  ASSUME NEW N \in Nat \ {0}, NEW x \in Nat
  PROVE  /\ x % N \in 0 .. N - 1 /\ x \div N \in Nat
         /\ x = N * (x \div N) + (x % N)
OBVIOUS

\* It is the same from any quotient.
LEMMA LeftOverIs ==
  ASSUME NEW N \in Nat \ {0}, NEW x \in Nat, NEW q \in Nat, NEW r \in 0 .. N - 1, x = N * q + r
  PROVE  x % N = r
<1>1. PICK p, t : p = x \div N /\ t = x % N
  OBVIOUS
<1>2. p \in Nat /\ t \in 0 .. N - 1 /\ x = N * p + t
  BY <1>1, LeftOver
<1>3. ASSUME NEW a \in Nat, NEW b \in Nat, a < b PROVE N * b >= N * a + N
  <2>1. b - a - 1 \in Nat BY <1>3
  <2>2. N * (b - a - 1) >= 0 BY <2>1
  <2>3. N * (b - a - 1) = N * b - N * a - N OBVIOUS
  <2> QED BY <2>2, <2>3
<1>4. N * q \in Nat /\ N * p \in Nat /\ N * q + r = N * p + t
  BY <1>2
<1>5. ~(q < p)
  <2> SUFFICES ASSUME q < p PROVE FALSE
    OBVIOUS
  <2>1. N * p >= N * q + N
    BY <1>2, <1>3
  <2> QED BY <1>2, <1>4, <2>1
<1>6. ~(p < q)
  <2> SUFFICES ASSUME p < q PROVE FALSE
    OBVIOUS
  <2>1. N * q >= N * p + N
    BY <1>2, <1>3
  <2> QED BY <1>2, <1>4, <2>1
<1>7. p = q
  BY <1>2, <1>5, <1>6
<1>8. r = t
  BY <1>2, <1>4, <1>7
<1> QED BY <1>1, <1>8

\* A counter of 32 bits counts on, and a number that fits is kept.
LEMMA LowAdds ==
  ASSUME NEW n \in Nat, NEW k \in Nat
  PROVE  /\ Low(n) \in Nat /\ Low(Low(n) + k) = Low(n + k)
         /\ (n < Word => Low(n) = n)
<1>1. PICK N : N = Word
  OBVIOUS
<1>2. N \in Nat \ {0}
  BY <1>1, AviConstants
<1>3. PICK q, r : q = n \div N /\ r = n % N
  OBVIOUS
<1>4. q \in Nat /\ r \in 0 .. N - 1 /\ n = N * q + r
  BY <1>2, <1>3, LeftOver
<1>5. PICK p, t : p = (r + k) \div N /\ t = (r + k) % N
  OBVIOUS
<1>6. r + k \in Nat
  BY <1>4
<1>7. p \in Nat /\ t \in 0 .. N - 1 /\ r + k = N * p + t
  BY <1>2, <1>5, <1>6, LeftOver
<1>8. n + k = N * (q + p) + t
  <2>1. N * q \in Nat /\ N * p \in Nat /\ N * (q + p) = N * q + N * p
    BY <1>2, <1>4, <1>7
  <2> QED BY <1>4, <1>7, <2>1
<1>9. (n + k) % N = t
  <2>1. n + k \in Nat /\ q + p \in Nat
    BY <1>4, <1>7
  <2> QED BY <1>2, <1>7, <1>8, <2>1, LeftOverIs
<1>10. ASSUME n < N PROVE r = n
  <2>1. n \in 0 .. N - 1 /\ n = N * 0 + n
    BY <1>2, <1>10
  <2>2. 0 \in Nat
    OBVIOUS
  <2>3. n % N = n
    BY <1>2, <2>1, <2>2, LeftOverIs
  <2> QED BY <1>3, <2>3
<1>11. Low(n) = r /\ Low(Low(n) + k) = t /\ Low(n + k) = (n + k) % N
  BY <1>1, <1>3, <1>5 DEF Low
<1> QED BY <1>1, <1>4, <1>9, <1>10, <1>11

\* The index has a first capacity.
LEMMA FirstIn == Word \in Nat \ {0} /\ FirstCap \in Nat \ {0}
BY AviConstants

\* The capacity of the index is a number.
LEMMA CapNext == ASSUME NEW f, f.cap \in Nat PROVE NextCap(f) \in Nat
<1>1. PICK k : k = f.cap
  OBVIOUS
<1>2. k \in Nat /\ 2 * k \in Nat
  BY <1>1
<1> QED BY <1>1, <1>2, FirstIn DEF NextCap

Entries == [at : Nat, size : Nat, sound : BOOLEAN]
Files == [audio : BOOLEAN, headless : BOOLEAN, movi_pos : Nat, end : Nat, frames : Nat,
          samples : Nat, maxv : Nat, maxa : Nat, cap : Nat, index : Seq(Entries),
          chunks : Seq(Chunks), patches : SUBSET [pos : Nat, v : Nat], idx1 : Nat,
          closed : BOOLEAN]

\* What the list of chunks and the index say of each other, and the counts.
Total(f) == OffsetOf(f.chunks, Len(f.chunks) + 1)
Entry(f, z) ==
  /\ f.index[z].at = Low(OffsetOf(f.chunks, z))
  /\ OffsetOf(f.chunks, z) \in Nat /\ OffsetOf(f.chunks, z) <= Total(f)
  /\ f.index[z].size = f.chunks[z].size /\ f.index[z].sound = f.chunks[z].sound
  /\ f.index[z].size <= IF f.index[z].sound THEN f.maxa ELSE f.maxv
Whole(f) ==
  /\ f \in Files
  /\ f.movi_pos = Width(Header(f.audio)) - 4
  /\ Len(f.index) = Len(f.chunks)
  /\ \A z \in 1 .. Len(f.index) : Entry(f, z)
  /\ f.frames = Low(Shown(f.chunks))
  /\ f.samples = Low(Len(SoundOf(f.chunks)))
  /\ Shown(f.chunks) \in Nat /\ Shown(f.chunks) <= Total(f)
  /\ Len(SoundOf(f.chunks)) <= Total(f)
  /\ Total(f) \in Nat /\ SoundOf(f.chunks) \in Seq(Nat)

Growing(f) == ~f.closed /\ f.end = f.movi_pos + Total(f)

Patch(pos, v) == [pos |-> pos, v |-> v]
Done(f) ==
  /\ f.closed
  /\ f.end = f.movi_pos + Total(f) + 8 + 16 * Len(f.index) /\ f.idx1 = Low(16 * Len(f.index))
  /\ f.patches = {Patch(AVI_RIFF_SIZE_POS, Low(f.end - 8)), Patch(f.movi_pos - 4, Low(Total(f))),
                  Patch(AVI_AVIH_TOTALFRAMES_POS, f.frames), Patch(AVI_AVIH_SUGGBUF_POS, f.maxv),
                  Patch(AVI_STRH_LENGTH_POS, f.frames), Patch(AVI_STRH_SUGGBUF_POS, f.maxv)}
                 \cup (IF f.audio THEN {Patch(AVI_AUDIO_STRH_LENGTH_POS, f.samples),
                                        Patch(AVI_AUDIO_STRH_SUGGBUF_POS, f.maxa)}
                       ELSE {})

\* A chunk more, with the largest sizes and the counts that go with it.
LEMMA ChunkKeeps ==
  ASSUME NEW f, Whole(f), Growing(f), NEW c \in Chunks, NEW g \in Files,
         g.audio = f.audio, g.movi_pos = f.movi_pos, ~g.closed,
         g.index = Append(f.index, [at |-> Low(f.end - f.movi_pos), size |-> c.size,
                                    sound |-> c.sound]),
         g.chunks = Append(f.chunks, c), g.end = f.end + 8 + Even(c.size),
         f.maxa <= g.maxa, f.maxv <= g.maxv, c.size <= IF c.sound THEN g.maxa ELSE g.maxv,
         g.frames = (IF c.sound THEN f.frames ELSE Low(f.frames + 1)),
         g.samples = Low(f.samples + Len(c.data)), Len(c.data) <= c.size
  PROVE  Whole(g) /\ Growing(g) /\ SoundOf(g.chunks) = SoundOf(f.chunks) \o c.data
<1>1. PICK k, l, L : k = f.chunks /\ l = g.chunks /\ L = Len(k)
  OBVIOUS
<1>2. PICK e : e = [at |-> Low(f.end - f.movi_pos), size |-> c.size, sound |-> c.sound]
  OBVIOUS
<1>3. /\ k \in Seq(Chunks) /\ f.index \in Seq(Entries) /\ Len(f.index) = L /\ L \in Nat
      /\ f.end \in Nat /\ f.movi_pos \in Nat /\ c.size \in Nat /\ c.sound \in BOOLEAN
      /\ c.data \in Seq(Nat)
  BY <1>1 DEF Whole, Files, Chunks
<1>4. l = Append(k, c)
  BY <1>1
<1>5. /\ l \in Seq(Chunks) /\ Len(l) = L + 1
      /\ \A z \in 1 .. L + 1 : OffsetOf(l, z) = OffsetOf(k, z) /\ OffsetOf(l, z) \in Nat
      /\ OffsetOf(l, Len(l) + 1) = OffsetOf(k, L + 1) + 8 + Even(c.size)
  <2>1. /\ l \in Seq(Chunks) /\ Len(l) = Len(k) + 1
        /\ \A z \in 1 .. Len(k) + 1 : OffsetOf(l, z) = OffsetOf(k, z) /\ OffsetOf(l, z) \in Nat
        /\ OffsetOf(l, Len(l) + 1) = OffsetOf(k, Len(k) + 1) + 8 + Even(c.size)
    BY <1>3, <1>4, OffsetMore
  <2> QED BY <1>1, <2>1
<1>6. f.end - f.movi_pos = OffsetOf(k, L + 1) /\ OffsetOf(k, L + 1) \in Nat
  BY <1>1, <1>3 DEF Growing, Whole, Total
<1>7. e \in Entries
  <2>1. PICK n : n = f.end - f.movi_pos
    OBVIOUS
  <2>2. n \in Nat /\ 0 \in Nat
    BY <1>6, <2>1
  <2>3. Low(n) \in Nat
    BY <2>2, LowAdds
  <2> QED BY <1>2, <1>3, <2>1, <2>3 DEF Entries
<1>8. /\ g.index \in Seq(Entries) /\ Len(g.index) = L + 1
      /\ \A z \in 1 .. L : g.index[z] = f.index[z]
      /\ g.index[L + 1] = e
  <2>1. PICK x, y : x = f.index /\ y = g.index
    OBVIOUS
  <2>2. x \in Seq(Entries) /\ Len(x) = L /\ y = Append(x, e)
    BY <1>2, <1>3, <2>1
  <2>3. y \in Seq(Entries) /\ Len(y) = L + 1 /\ (\A z \in 1 .. L : y[z] = x[z]) /\ y[L + 1] = e
    BY <1>3, <1>7, <2>2, AppendProperties
  <2> QED BY <2>1, <2>3
<1>9. (\A z \in 1 .. L : l[z] = k[z]) /\ l[L + 1] = c
  BY <1>1, <1>3, <1>4, AppendProperties
<1>10. /\ Total(g) = Total(f) + 8 + Even(c.size) /\ Total(g) \in Nat /\ Total(f) \in Nat
       /\ Even(c.size) \in Nat /\ Even(c.size) >= c.size /\ Total(f) = OffsetOf(k, L + 1)
  <2>1. Even(c.size) \in Nat /\ Even(c.size) >= c.size
    <3>1. PICK n, h : n = c.size /\ h = n % 2
      OBVIOUS
    <3>2. n \in Nat
      BY <1>3, <3>1
    <3>3. h \in Nat
      BY <3>1, <3>2
    <3>4. Even(c.size) = n + h
      BY <3>1 DEF Even
    <3> QED BY <3>1, <3>2, <3>3, <3>4
  <2> QED BY <1>1, <1>5, <1>6, <2>1 DEF Total
<1>11. ASSUME NEW z \in 1 .. L + 1 PROVE Entry(g, z)
  <2>1. CASE z = L + 1
    <3>1. g.index[z] = e /\ l[z] = c /\ OffsetOf(l, z) = OffsetOf(k, L + 1)
      BY <1>3, <1>5, <1>8, <1>9, <2>1
    <3>2. e.at = Low(OffsetOf(k, L + 1)) /\ e.size = c.size /\ e.sound = c.sound
      BY <1>2, <1>6
    <3>3. OffsetOf(k, L + 1) \in Nat /\ OffsetOf(k, L + 1) <= Total(g)
      BY <1>6, <1>10
    <3> QED BY <1>1, <3>1, <3>2, <3>3 DEF Entry
  <2>2. CASE z # L + 1
    <3>1. z \in 1 .. L
      BY <1>3, <2>2
    <3>2. g.index[z] = f.index[z] /\ l[z] = k[z] /\ OffsetOf(l, z) = OffsetOf(k, z)
      BY <1>5, <1>8, <1>9, <3>1
    <3>3. Entry(f, z)
      BY <1>3, <3>1 DEF Whole
    <3>4. f.index[z].size \in Nat
      <4>1. f.index[z] \in Entries
        BY <1>3, <3>1, ElementOfSeq
      <4> QED BY <4>1 DEF Entries
    <3>5. f.maxa \in Nat /\ f.maxv \in Nat /\ g.maxa \in Nat /\ g.maxv \in Nat
      BY DEF Whole, Files
    <3>6. PICK a : a = f.index[z]
      OBVIOUS
    <3>7. /\ a.at = Low(OffsetOf(k, z)) /\ a.size = k[z].size /\ a.sound = k[z].sound
          /\ a.size <= IF a.sound THEN f.maxa ELSE f.maxv
          /\ OffsetOf(k, z) \in Nat /\ OffsetOf(k, z) <= Total(f)
      BY <1>1, <3>3, <3>6 DEF Entry
    <3>8. a.size <= IF a.sound THEN g.maxa ELSE g.maxv
      BY <3>4, <3>5, <3>6, <3>7
    <3>9. OffsetOf(k, z) <= Total(g)
      BY <1>10, <3>7
    <3> QED BY <1>1, <3>2, <3>6, <3>7, <3>8, <3>9 DEF Entry
  <2> QED BY <2>1, <2>2
<1>12. g.frames = Low(Shown(l)) /\ Shown(l) \in Nat /\ Shown(l) <= Total(g)
  <2>1. PICK n : n = Shown(k)
    OBVIOUS
  <2>2. n \in Nat /\ f.frames = Low(n) /\ n <= Total(f) /\ 1 \in Nat
    BY <1>1, <2>1 DEF Whole
  <2>3. Shown(l) = IF c.sound THEN n ELSE n + 1
    BY <1>3, <1>4, <2>1, ShownMore
  <2>4. Low(Low(n) + 1) = Low(n + 1)
    BY <2>2, LowAdds
  <2>5. g.frames = Low(Shown(l))
    BY <2>2, <2>3, <2>4
  <2> QED BY <1>10, <2>2, <2>3, <2>5
<1>13. /\ SoundOf(k) \in Seq(Nat) /\ SoundOf(l) = SoundOf(k) \o c.data
       /\ SoundOf(l) \in Seq(Nat) /\ Len(SoundOf(l)) = Len(SoundOf(k)) + Len(c.data)
  <2>1. SoundOf(k) \in Seq(Nat) /\ SoundOf(l) = SoundOf(k) \o c.data
    BY <1>3, <1>4, SoundMore
  <2> QED BY <1>3, <2>1, ConcatProperties
<1>14. g.samples = Low(Len(SoundOf(l)))
  <2>1. PICK n, j : n = Len(SoundOf(k)) /\ j = Len(c.data)
    OBVIOUS
  <2>2. n \in Nat /\ j \in Nat /\ f.samples = Low(n)
    BY <1>1, <1>3, <1>13, <2>1 DEF Whole
  <2>3. Low(Low(n) + j) = Low(n + j)
    BY <2>2, LowAdds
  <2> QED BY <1>13, <2>1, <2>2, <2>3
<1>15. Len(SoundOf(l)) <= Total(g)
  <2>1. PICK n, j, m, x : n = Len(SoundOf(k)) /\ j = Len(c.data) /\ m = Even(c.size) /\ x = Total(f)
    OBVIOUS
  <2>2. n \in Nat /\ j \in Nat /\ n <= x
    BY <1>1, <1>3, <1>13, <2>1 DEF Whole
  <2>3. m \in Nat /\ x \in Nat /\ j <= m /\ Total(g) = x + 8 + m
    BY <1>3, <1>10, <2>1, <2>2
  <2> QED BY <1>13, <2>1, <2>2, <2>3
<1>16. Growing(g)
  <2>1. f.end = f.movi_pos + Total(f)
    BY DEF Growing
  <2>2. g.end = g.movi_pos + Total(g)
    <3>1. PICK p, t, m : p = f.movi_pos /\ t = Total(f) /\ m = Even(c.size)
      OBVIOUS
    <3>2. p \in Nat /\ t \in Nat /\ m \in Nat /\ f.end = p + t /\ Total(g) = t + 8 + m
      BY <1>3, <1>10, <2>1, <3>1
    <3>3. g.end = f.end + 8 + m /\ g.movi_pos = p
      BY <3>1
    <3> QED BY <3>2, <3>3
  <2> QED BY <2>2 DEF Growing
<1>17. g.movi_pos = Width(Header(g.audio)) - 4
  BY DEF Whole
<1>18. Whole(g)
  <2>1. Len(g.index) = Len(g.chunks) /\ \A z \in 1 .. Len(g.index) : Entry(g, z)
    BY <1>1, <1>5, <1>8, <1>11
  <2> QED BY <1>1, <1>10, <1>12, <1>13, <1>14, <1>15, <1>17, <2>1 DEF Whole
<1> QED BY <1>1, <1>13, <1>16, <1>18

\* What stays when a chunk is added.
Rest(f, g) == g.audio = f.audio /\ g.headless = f.headless

\* The place of the next chunk, in 32 bits.
LEMMA LowEnd == ASSUME NEW f, Whole(f), Growing(f) PROVE Low(f.end - f.movi_pos) \in Nat
<1>1. PICK n : n = f.end - f.movi_pos
  OBVIOUS
<1>2. n \in Nat /\ 0 \in Nat
  BY <1>1 DEF Growing, Whole, Files
<1> QED BY <1>1, <1>2, LowAdds

\* A picture more (avi_recorder_add_frame) keeps the file whole.
LEMMA FrameKeeps ==
  ASSUME NEW f, Whole(f), Growing(f), NEW size \in Nat, NEW g, g = avi_recorder_add_frame(f, size)
  PROVE  Whole(g) /\ Growing(g) /\ Rest(f, g) /\ SoundOf(g.chunks) = SoundOf(f.chunks)
<1>1. PICK c : c = [sound |-> FALSE, size |-> size, data |-> <<>>]
  OBVIOUS
<1>2. c \in Chunks
  <2>1. <<>> \in Seq(Nat)
    OBVIOUS
  <2> QED BY <1>1, <2>1 DEF Chunks
<1>3. f \in Files
  BY DEF Whole
<1>4. PICK e : e = [at |-> Low(f.end - f.movi_pos), size |-> c.size, sound |-> c.sound]
  OBVIOUS
<1>5. e \in Entries
  <2>1. Low(f.end - f.movi_pos) \in Nat
    BY LowEnd
  <2> QED BY <1>2, <1>4, <2>1 DEF Entries, Chunks
<1>0. PICK cap : cap = IF IndexFull(f) THEN NextCap(f) ELSE f.cap
  OBVIOUS
<1>01. cap \in Nat
  <2>1. f.cap \in Nat
    BY <1>3 DEF Files
  <2> QED BY <1>0, <2>1, CapNext
<1>6. PICK h : h = Chunk(f, FALSE, size, <<>>)
  OBVIOUS
<1>7. h = [f EXCEPT !.cap = cap, !.index = Append(f.index, e), !.chunks = Append(f.chunks, c),
                    !.end = f.end + 8 + Even(size)]
  BY <1>0, <1>1, <1>4, <1>6 DEF Chunk, Padded
<1>8. /\ Append(f.index, e) \in Seq(Entries) /\ Append(f.chunks, c) \in Seq(Chunks)
      /\ f.end + 8 + Even(size) \in Nat
  <2>1. f.index \in Seq(Entries) /\ f.chunks \in Seq(Chunks) /\ f.end \in Nat
    BY <1>3 DEF Files
  <2>2. Append(f.index, e) \in Seq(Entries) /\ Append(f.chunks, c) \in Seq(Chunks)
    BY <1>2, <1>5, <2>1, AppendProperties
  <2>3. Even(size) \in Nat
    BY EvenIn
  <2> QED BY <2>1, <2>2, <2>3
<1>9. /\ h \in Files
      /\ h.index = Append(f.index, e) /\ h.chunks = Append(f.chunks, c)
      /\ h.end = f.end + 8 + Even(size) /\ h.audio = f.audio /\ h.headless = f.headless
      /\ h.movi_pos = f.movi_pos /\ h.closed = f.closed /\ h.frames = f.frames
      /\ h.samples = f.samples /\ h.maxa = f.maxa /\ h.maxv = f.maxv
  BY <1>01, <1>3, <1>7, <1>8 DEF Files
<1>10. PICK m : m = Larger(f.maxv, size)
  OBVIOUS
<1>11. m \in Nat /\ f.maxv <= m /\ size <= m
  BY <1>3, <1>10 DEF Larger, Files
<1>12. g = [h EXCEPT !.maxv = m, !.frames = Low(h.frames + 1)]
  BY <1>6, <1>9, <1>10 DEF avi_recorder_add_frame
<1>13. /\ g \in Files
       /\ g.index = Append(f.index, e) /\ g.chunks = Append(f.chunks, c)
       /\ g.end = f.end + 8 + Even(size) /\ g.audio = f.audio /\ g.headless = f.headless
       /\ g.movi_pos = f.movi_pos /\ g.closed = f.closed /\ g.frames = Low(f.frames + 1)
       /\ g.samples = f.samples /\ g.maxa = f.maxa /\ g.maxv = m
  <2>1. PICK n : n = h.frames + 1
    OBVIOUS
  <2>2. g \in Files
    <3>0. h \in Files
      BY <1>9
    <3>a. h.frames \in Nat
      BY ONLY <3>0 DEF Files
    <3>b. PICK z : z = h.frames
      OBVIOUS
    <3>c. z \in Nat /\ n = z + 1
      BY ONLY <2>1, <3>a, <3>b
    <3>1. n \in Nat /\ 0 \in Nat
      BY ONLY <3>c
    <3>2. Low(n) \in Nat
      BY <3>1, LowAdds
    <3>3. h \in Files /\ m \in Nat /\ Low(h.frames + 1) \in Nat
      BY <1>9, <1>11, <2>1, <3>2
    <3> QED BY ONLY <3>3, <1>12 DEF Files
  <2>3. /\ g.index = h.index /\ g.chunks = h.chunks /\ g.end = h.end /\ g.audio = h.audio
        /\ g.headless = h.headless /\ g.movi_pos = h.movi_pos /\ g.closed = h.closed
        /\ g.frames = Low(h.frames + 1) /\ g.samples = h.samples /\ g.maxa = h.maxa /\ g.maxv = m
    BY <1>9, <1>12 DEF Files
  <2> QED BY <1>9, <2>2, <2>3
<1>14. /\ c.size = size /\ c.sound = FALSE /\ Len(c.data) = 0 /\ c.data = <<>>
       /\ Low(f.samples + 0) = f.samples /\ 0 <= size
  <2>1. PICK n : n = Len(SoundOf(f.chunks))
    OBVIOUS
  <2>2. n \in Nat /\ 0 \in Nat /\ f.samples = Low(n)
    BY <2>1 DEF Whole
  <2>3. Low(Low(n) + 0) = Low(n + 0) /\ n + 0 = n
    BY <2>2, LowAdds
  <2> QED BY <1>1, <2>2, <2>3
<1>15. ~g.closed /\ f.maxa <= g.maxa /\ f.maxv <= g.maxv
  BY <1>3, <1>11, <1>13 DEF Growing, Files
<1>16. Whole(g) /\ Growing(g) /\ SoundOf(g.chunks) = SoundOf(f.chunks) \o c.data
  BY <1>2, <1>4, <1>11, <1>13, <1>14, <1>15, ChunkKeeps
<1>17. SoundOf(f.chunks) \o <<>> = SoundOf(f.chunks)
  <2>1. SoundOf(f.chunks) \in Seq(Nat)
    BY DEF Whole
  <2> QED BY <2>1, ConcatEmptySeq
<1> QED BY <1>13, <1>14, <1>16, <1>17 DEF Rest

\* Sound more (avi_recorder_add_audio) keeps it whole, and is heard at its end.
LEMMA AudioKeeps ==
  ASSUME NEW f, Whole(f), Growing(f), NEW data \in Seq(Nat), NEW g,
         g = avi_recorder_add_audio(f, data)
  PROVE  /\ Whole(g) /\ Growing(g) /\ Rest(f, g)
         /\ SoundOf(g.chunks) = IF f.audio THEN SoundOf(f.chunks) \o data ELSE SoundOf(f.chunks)
<1>1. CASE ~f.audio
  BY <1>1 DEF avi_recorder_add_audio, Rest
<1>2. CASE f.audio /\ data = <<>>
  <2>1. SoundOf(f.chunks) \in Seq(Nat)
    BY DEF Whole
  <2>2. SoundOf(f.chunks) \o <<>> = SoundOf(f.chunks)
    BY <2>1, ConcatEmptySeq
  <2>3. g = f
    BY <1>2 DEF avi_recorder_add_audio
  <2> QED BY <1>2, <2>2, <2>3 DEF Rest
<1>3. CASE f.audio /\ data # <<>>
  <2>1. PICK n, c : n = 4 * Len(data) /\ c = [sound |-> TRUE, size |-> n, data |-> data]
    OBVIOUS
  <2>2. n \in Nat /\ c \in Chunks /\ Len(data) \in Nat
    <3>1. Len(data) \in Nat
      OBVIOUS
    <3>2. n \in Nat
      BY <2>1, <3>1
    <3> QED BY <2>1, <3>1, <3>2 DEF Chunks
  <2>3. f \in Files
    BY DEF Whole
  <2>4. PICK e, cap : /\ e = [at |-> Low(f.end - f.movi_pos), size |-> c.size, sound |-> c.sound]
                      /\ cap = IF IndexFull(f) THEN NextCap(f) ELSE f.cap
    OBVIOUS
  <2>5. e \in Entries /\ cap \in Nat
    <3>1. Low(f.end - f.movi_pos) \in Nat
      BY LowEnd
    <3>2. cap \in Nat
      <4>1. f.cap \in Nat
        BY <2>3 DEF Files
      <4> QED BY <2>4, <4>1, CapNext
    <3> QED BY <2>2, <2>4, <3>1, <3>2 DEF Entries, Chunks
  <2>6. PICK h : h = Chunk(f, TRUE, n, data)
    OBVIOUS
  <2>7. h = [f EXCEPT !.cap = cap, !.index = Append(f.index, e), !.chunks = Append(f.chunks, c),
                      !.end = f.end + 8 + Even(n)]
    BY <2>1, <2>4, <2>6 DEF Chunk, Padded
  <2>8. /\ Append(f.index, e) \in Seq(Entries) /\ Append(f.chunks, c) \in Seq(Chunks)
        /\ f.end + 8 + Even(n) \in Nat
    <3>1. f.index \in Seq(Entries) /\ f.chunks \in Seq(Chunks) /\ f.end \in Nat
      BY <2>3 DEF Files
    <3>2. Append(f.index, e) \in Seq(Entries) /\ Append(f.chunks, c) \in Seq(Chunks)
      BY <2>2, <2>5, <3>1, AppendProperties
    <3>3. Even(n) \in Nat
      BY <2>2, EvenIn
    <3> QED BY <3>1, <3>2, <3>3
  <2>9. /\ h \in Files
        /\ h.index = Append(f.index, e) /\ h.chunks = Append(f.chunks, c)
        /\ h.end = f.end + 8 + Even(n) /\ h.audio = f.audio /\ h.headless = f.headless
        /\ h.movi_pos = f.movi_pos /\ h.closed = f.closed /\ h.frames = f.frames
        /\ h.samples = f.samples /\ h.maxa = f.maxa /\ h.maxv = f.maxv
    BY <2>3, <2>5, <2>7, <2>8 DEF Files
  <2>10. PICK m : m = Larger(f.maxa, n)
    OBVIOUS
  <2>11. m \in Nat /\ f.maxa <= m /\ n <= m
    BY <2>2, <2>3, <2>10 DEF Larger, Files
  <2>12. g = [h EXCEPT !.maxa = m, !.samples = Low(h.samples + Len(data))]
    BY <1>3, <2>1, <2>6, <2>9, <2>10 DEF avi_recorder_add_audio
  <2>13. /\ g \in Files
         /\ g.index = Append(f.index, e) /\ g.chunks = Append(f.chunks, c)
         /\ g.end = f.end + 8 + Even(n) /\ g.audio = f.audio /\ g.headless = f.headless
         /\ g.movi_pos = f.movi_pos /\ g.closed = f.closed /\ g.frames = f.frames
         /\ g.samples = Low(f.samples + Len(data)) /\ g.maxa = m /\ g.maxv = f.maxv
    <3>1. PICK j : j = h.samples + Len(data)
      OBVIOUS
    <3>2. g \in Files
      <4>1. j \in Nat /\ 0 \in Nat
        <5>1. h.samples \in Nat
          BY <2>9 DEF Files
        <5> QED BY <2>2, <3>1, <5>1
      <4>2. Low(j) \in Nat
        BY <4>1, LowAdds
      <4>3. h \in Files /\ m \in Nat /\ Low(h.samples + Len(data)) \in Nat
        BY <2>9, <2>11, <3>1, <4>2
      <4> QED BY ONLY <2>12, <4>3 DEF Files
    <3>3. /\ g.index = h.index /\ g.chunks = h.chunks /\ g.end = h.end /\ g.audio = h.audio
          /\ g.headless = h.headless /\ g.movi_pos = h.movi_pos /\ g.closed = h.closed
          /\ g.frames = h.frames /\ g.samples = Low(h.samples + Len(data))
          /\ g.maxa = m /\ g.maxv = h.maxv
      BY <2>9, <2>12 DEF Files
    <3> QED BY <2>9, <3>2, <3>3
  <2>14. c.size = n /\ c.sound = TRUE /\ c.data = data /\ Len(data) <= n
    BY <2>1, <2>2
  <2>15. ~g.closed /\ f.maxa <= g.maxa /\ f.maxv <= g.maxv
    BY <2>3, <2>11, <2>13 DEF Growing, Files
  <2>16. Whole(g) /\ Growing(g) /\ SoundOf(g.chunks) = SoundOf(f.chunks) \o c.data
    BY <2>2, <2>4, <2>11, <2>13, <2>14, <2>15, ChunkKeeps
  <2> QED BY <1>3, <2>13, <2>14, <2>16 DEF Rest
<1> QED BY <1>1, <1>2, <1>3

\* The patches (avi_recorder_close) are those of what the file holds.
LEMMA CloseKeeps ==
  ASSUME NEW f, Whole(f), Growing(f), NEW g, g = avi_recorder_close(f)
  PROVE  Whole(g) /\ Done(g) /\ Rest(f, g) /\ g.chunks = f.chunks
<1>1. f \in Files /\ f.end = f.movi_pos + Total(f) /\ Total(f) \in Nat
  BY DEF Whole, Growing
<1>2. PICK m, e, x : /\ m = f.end - f.movi_pos /\ e = f.end + 8 + 16 * Len(f.index)
                     /\ x = 16 * Len(f.index)
  OBVIOUS
<1>3. /\ m = Total(f) /\ e \in Nat /\ e >= 8 /\ f.movi_pos \in Nat /\ x \in Nat
      /\ e = f.movi_pos + Total(f) + 8 + x
  <2>1. f.end \in Nat /\ f.movi_pos \in Nat /\ Len(f.index) \in Nat
    BY <1>1 DEF Files
  <2>2. PICK t : t = Total(f)
    OBVIOUS
  <2>3. t \in Nat /\ f.end = f.movi_pos + t
    BY <1>1, <2>2
  <2>4. m = t
    BY <1>2, <2>1, <2>3
  <2>5. e \in Nat /\ e >= 8 /\ x \in Nat /\ e = f.movi_pos + t + 8 + x
    <3>1. PICK p, l : p = f.movi_pos /\ l = Len(f.index)
      OBVIOUS
    <3>2. p \in Nat /\ l \in Nat /\ x = 16 * l /\ e = p + t + 8 + x
      BY <1>2, <2>1, <2>3, <3>1
    <3>3. x \in Nat
      BY <3>2
    <3> QED BY <2>3, <3>1, <3>2, <3>3
  <2> QED BY <2>1, <2>2, <2>4, <2>5
<1>4. PICK p : p = {Patch(AVI_RIFF_SIZE_POS, Low(e - 8)), Patch(f.movi_pos - 4, Low(m)),
                    Patch(AVI_AVIH_TOTALFRAMES_POS, f.frames), Patch(AVI_AVIH_SUGGBUF_POS, f.maxv),
                    Patch(AVI_STRH_LENGTH_POS, f.frames), Patch(AVI_STRH_SUGGBUF_POS, f.maxv)}
                   \cup (IF f.audio THEN {Patch(AVI_AUDIO_STRH_LENGTH_POS, f.samples),
                                          Patch(AVI_AUDIO_STRH_SUGGBUF_POS, f.maxa)}
                         ELSE {})
  OBVIOUS
<1>5. g = [f EXCEPT !.end = e, !.idx1 = Low(x), !.patches = p, !.closed = TRUE]
  BY <1>2, <1>4 DEF avi_recorder_close, Patch
<1>6. f.movi_pos - 4 \in Nat
  <2>1. f.audio \in BOOLEAN
    BY <1>1 DEF Files
  <2>2. HeaderHas(Header(f.audio), f.audio)
    BY <2>1, HeaderIs
  <2>3. f.movi_pos = Width(Header(f.audio)) - 4
    BY DEF Whole
  <2> QED BY <2>2, <2>3 DEF HeaderHas
<1>7. p \in SUBSET [pos : Nat, v : Nat]
  <2>1. f.frames \in Nat /\ f.maxv \in Nat /\ f.maxa \in Nat /\ f.samples \in Nat
    BY <1>1 DEF Files
  <2>2. \A pos \in Nat, v \in Nat : Patch(pos, v) \in [pos : Nat, v : Nat]
    BY DEF Patch
  <2>3. /\ AVI_RIFF_SIZE_POS \in Nat /\ AVI_AVIH_TOTALFRAMES_POS \in Nat
        /\ AVI_AVIH_SUGGBUF_POS \in Nat /\ AVI_STRH_LENGTH_POS \in Nat
        /\ AVI_STRH_SUGGBUF_POS \in Nat /\ AVI_AUDIO_STRH_LENGTH_POS \in Nat
        /\ AVI_AUDIO_STRH_SUGGBUF_POS \in Nat
    BY DEF AVI_RIFF_SIZE_POS, AVI_AVIH_TOTALFRAMES_POS, AVI_AVIH_SUGGBUF_POS, AVI_STRH_DATA_POS,
           AVI_STRH_LENGTH_POS, AVI_STRH_SUGGBUF_POS, AVI_AUDIO_STRH_DATA_POS,
           AVI_AUDIO_STRH_LENGTH_POS, AVI_AUDIO_STRH_SUGGBUF_POS
  <2>4. Low(e - 8) \in Nat /\ Low(m) \in Nat
    <3>1. PICK y : y = e - 8
      OBVIOUS
    <3>2. y \in Nat /\ m \in Nat /\ 0 \in Nat
      BY <1>1, <1>3, <3>1
    <3> QED BY <3>1, <3>2, LowAdds
  <2>5. PICK P : P = [pos : Nat, v : Nat]
    OBVIOUS
  <2>6. \A pos \in Nat, v \in Nat : Patch(pos, v) \in P
    BY <2>2, <2>5
  <2>7. /\ Patch(AVI_RIFF_SIZE_POS, Low(e - 8)) \in P /\ Patch(f.movi_pos - 4, Low(m)) \in P
        /\ Patch(AVI_AVIH_TOTALFRAMES_POS, f.frames) \in P
        /\ Patch(AVI_AVIH_SUGGBUF_POS, f.maxv) \in P
        /\ Patch(AVI_STRH_LENGTH_POS, f.frames) \in P /\ Patch(AVI_STRH_SUGGBUF_POS, f.maxv) \in P
        /\ Patch(AVI_AUDIO_STRH_LENGTH_POS, f.samples) \in P
        /\ Patch(AVI_AUDIO_STRH_SUGGBUF_POS, f.maxa) \in P
    BY <1>6, <2>1, <2>3, <2>4, <2>6
  <2>8. p \subseteq P
    BY ONLY <1>4, <2>7
  <2> QED BY <2>5, <2>8
<1>70. Low(x) \in Nat
  <2>1. 0 \in Nat
    OBVIOUS
  <2> QED BY <1>3, <2>1, LowAdds
<1>8. /\ g \in Files /\ g.end = e /\ g.patches = p /\ g.closed /\ g.idx1 = Low(x)
      /\ g.audio = f.audio /\ g.headless = f.headless /\ g.movi_pos = f.movi_pos
      /\ g.frames = f.frames /\ g.samples = f.samples /\ g.maxv = f.maxv /\ g.maxa = f.maxa
      /\ g.index = f.index /\ g.chunks = f.chunks
  BY <1>1, <1>3, <1>5, <1>7, <1>70 DEF Files
<1>9. Whole(g)
  BY <1>8 DEF Whole, Entry, Total
<1>10. Done(g)
  <2>1. Total(g) = m
    BY <1>3, <1>8 DEF Total
  <2>2. g.end = g.movi_pos + Total(g) + 8 + 16 * Len(g.index) /\ g.idx1 = Low(16 * Len(g.index))
    BY <1>2, <1>3, <1>8, <2>1
  <2>3. g.patches = {Patch(AVI_RIFF_SIZE_POS, Low(g.end - 8)), Patch(g.movi_pos - 4, Low(Total(g))),
                  Patch(AVI_AVIH_TOTALFRAMES_POS, g.frames), Patch(AVI_AVIH_SUGGBUF_POS, g.maxv),
                  Patch(AVI_STRH_LENGTH_POS, g.frames), Patch(AVI_STRH_SUGGBUF_POS, g.maxv)}
                 \cup (IF g.audio THEN {Patch(AVI_AUDIO_STRH_LENGTH_POS, g.samples),
                                        Patch(AVI_AUDIO_STRH_SUGGBUF_POS, g.maxa)}
                       ELSE {})
    BY <1>4, <1>8, <2>1
  <2> QED BY <1>8, <2>2, <2>3 DEF Done
<1> QED BY <1>8, <1>9, <1>10 DEF Rest

\* A file that was finished says of itself what a reader finds.
LEMMA DoneWhole ==
  ASSUME Whole(avi), Done(avi)
  PROVE  /\ HeaderIsWhole
         /\ Patched("riff_size", Low(avi.end - 8))
         /\ Patched("movi_size", Low(Total(avi)))
         /\ Patched("total_frames", avi.frames) /\ Patched("video_length", avi.frames)
         /\ avi.audio => Patched("audio_length", avi.samples)
         /\ Patched("suggested", avi.maxv) /\ Patched("video_suggested", avi.maxv)
         /\ \A p \in avi.patches :
              \E f \in {"riff_size", "movi_size", "total_frames", "suggested", "video_length",
                        "video_suggested", "audio_length", "audio_suggested"} : p.pos \in PosOf(f)
<1>1. avi.audio \in BOOLEAN
  BY DEF Whole, Files
<1>2. PICK h : h = Header(avi.audio)
  OBVIOUS
<1>3. HeaderHas(h, avi.audio)
  BY <1>1, <1>2, HeaderIs
<1>4. \A name : PosOf(name) = PosIn(h, name)
  BY <1>2 DEF PosOf, PosIn
<1>5. /\ AVI_RIFF_SIZE_POS = 4 /\ AVI_AVIH_TOTALFRAMES_POS = 48
      /\ AVI_AVIH_SUGGBUF_POS = 60 /\ AVI_STRH_LENGTH_POS = 140
      /\ AVI_STRH_SUGGBUF_POS = 144 /\ AVI_AUDIO_STRH_LENGTH_POS = 264
      /\ AVI_AUDIO_STRH_SUGGBUF_POS = 268
  BY DEF AVI_RIFF_SIZE_POS, AVI_AVIH_TOTALFRAMES_POS, AVI_AVIH_SUGGBUF_POS, AVI_STRH_DATA_POS,
         AVI_STRH_LENGTH_POS, AVI_STRH_SUGGBUF_POS, AVI_AUDIO_STRH_DATA_POS,
         AVI_AUDIO_STRH_LENGTH_POS, AVI_AUDIO_STRH_SUGGBUF_POS
<1>6. avi.movi_pos - 4 = Width(h) - 8
  <2>1. avi.movi_pos = Width(h) - 4
    BY <1>2 DEF Whole
  <2>2. Width(h) \in Nat
    BY <1>3 DEF HeaderHas
  <2> QED BY <2>1, <2>2
<1>7. /\ AVI_RIFF_SIZE_POS \in PosOf("riff_size") /\ avi.movi_pos - 4 \in PosOf("movi_size")
      /\ AVI_AVIH_TOTALFRAMES_POS \in PosOf("total_frames")
      /\ AVI_AVIH_SUGGBUF_POS \in PosOf("suggested")
      /\ AVI_STRH_LENGTH_POS \in PosOf("video_length")
      /\ AVI_STRH_SUGGBUF_POS \in PosOf("video_suggested")
      /\ avi.audio => /\ AVI_AUDIO_STRH_LENGTH_POS \in PosOf("audio_length")
                      /\ AVI_AUDIO_STRH_SUGGBUF_POS \in PosOf("audio_suggested")
  BY <1>3, <1>4, <1>5, <1>6 DEF HeaderHas
<1>8. \A pos, v : Patch(pos, v).pos = pos /\ Patch(pos, v).v = v
  BY DEF Patch
<1>9. \A name, pos, v : pos \in PosOf(name) /\ Patch(pos, v) \in avi.patches => Patched(name, v)
  BY <1>8 DEF Patched
<1>10. /\ Patch(AVI_RIFF_SIZE_POS, Low(avi.end - 8)) \in avi.patches
       /\ Patch(avi.movi_pos - 4, Low(Total(avi))) \in avi.patches
       /\ Patch(AVI_AVIH_TOTALFRAMES_POS, avi.frames) \in avi.patches
       /\ Patch(AVI_AVIH_SUGGBUF_POS, avi.maxv) \in avi.patches
       /\ Patch(AVI_STRH_LENGTH_POS, avi.frames) \in avi.patches
       /\ Patch(AVI_STRH_SUGGBUF_POS, avi.maxv) \in avi.patches
       /\ avi.audio => Patch(AVI_AUDIO_STRH_LENGTH_POS, avi.samples) \in avi.patches
  BY DEF Done
<1>11. ASSUME NEW p \in avi.patches
       PROVE  \E f \in {"riff_size", "movi_size", "total_frames", "suggested", "video_length",
                        "video_suggested", "audio_length", "audio_suggested"} : p.pos \in PosOf(f)
  <2>1. \/ p.pos \in {AVI_RIFF_SIZE_POS, avi.movi_pos - 4, AVI_AVIH_TOTALFRAMES_POS,
                      AVI_AVIH_SUGGBUF_POS, AVI_STRH_LENGTH_POS, AVI_STRH_SUGGBUF_POS}
        \/ avi.audio /\ p.pos \in {AVI_AUDIO_STRH_LENGTH_POS, AVI_AUDIO_STRH_SUGGBUF_POS}
    <3>1. CASE avi.audio
      BY <1>8, <3>1 DEF Done
    <3>2. CASE ~avi.audio
      BY <1>8, <3>2 DEF Done
    <3> QED BY <3>1, <3>2
  <2> QED BY <1>7, <2>1
<1> QED BY <1>1, <1>7, <1>9, <1>10, <1>11, HeaderWhole

-----------------------------------------------------------------------------
(* The tap *)

\* A remainder with at most one lap.
Slot(t, k) == (t + k) % TAP_CAP

\* A remainder below two laps.
LEMMA OneLap ==
  ASSUME NEW N \in Nat \ {0}, NEW x \in 0 .. 2 * N - 1
  PROVE  x % N = IF x < N THEN x ELSE x - N
<1>1. PICK q, r : q = x \div N /\ r = x % N
  OBVIOUS
<1>2. q \in Int /\ r \in 0 .. N - 1 /\ x = N * q + r
  BY <1>1
<1>3. ASSUME NEW a \in Int, NEW b \in Int, a < b PROVE N * b >= N * a + N
  <2>1. b - a - 1 \in Nat BY <1>3
  <2>2. N * (b - a - 1) >= 0 BY <2>1
  <2>3. N * (b - a - 1) = N * b - N * a - N OBVIOUS
  <2> QED BY <2>2, <2>3
<1>4. N * 0 = 0 /\ N * 1 = N /\ N * q \in Int
  BY <1>2
<1>5. ~(q < 0)
  <2> SUFFICES ASSUME q < 0 PROVE FALSE
    OBVIOUS
  <2>1. N * 0 >= N * q + N
    BY <1>2, <1>3
  <2> QED BY <1>2, <1>4, <2>1
<1>6. ~(1 < q)
  <2> SUFFICES ASSUME 1 < q PROVE FALSE
    OBVIOUS
  <2>1. N * q >= N * 1 + N
    BY <1>2, <1>3
  <2> QED BY <1>2, <1>4, <2>1
<1>7. q = 0 \/ q = 1
  BY <1>2, <1>5, <1>6
<1> QED BY <1>1, <1>2, <1>4, <1>7

\* The sizes are numbers.
LEMMA CapIn == TAP_CAP \in Nat \ {0} /\ TAP_DRAIN_MAX \in Nat /\ FrameSamples \in Nat
BY AviConstants

\* A slot of the ring, with one lap at most.
LEMMA SlotIs ==
  ASSUME NEW t \in 0 .. TAP_CAP - 1, NEW k \in 0 .. TAP_CAP
  PROVE  /\ Slot(t, k) = (IF t + k < TAP_CAP THEN t + k ELSE t + k - TAP_CAP)
         /\ Slot(t, k) \in 0 .. TAP_CAP - 1
<1>1. TAP_CAP \in Nat \ {0}
  BY CapIn
<1>2. PICK x, N : x = t + k /\ N = TAP_CAP
  OBVIOUS
<1>3. N \in Nat \ {0} /\ x \in 0 .. 2 * N - 1
  BY <1>1, <1>2
<1>4. x % N = IF x < N THEN x ELSE x - N
  BY <1>3, OneLap
<1>5. Slot(t, k) = x % N
  BY <1>2 DEF Slot
<1> QED BY <1>1, <1>2, <1>3, <1>4, <1>5

\* Two steps, a whole lap, and different steps.
LEMMA SlotSum ==
  ASSUME NEW t \in 0 .. TAP_CAP - 1, NEW m \in 0 .. TAP_CAP, NEW k \in 0 .. TAP_CAP,
         NEW s \in 0 .. TAP_CAP, s = m + k
  PROVE  Slot(Slot(t, m), k) = Slot(t, s)
<1>1. TAP_CAP \in Nat \ {0}
  BY CapIn
<1>2. PICK u : u = Slot(t, m)
  OBVIOUS
<1>3. u = (IF t + m < TAP_CAP THEN t + m ELSE t + m - TAP_CAP) /\ u \in 0 .. TAP_CAP - 1
  BY <1>2, SlotIs
<1>4. Slot(u, k) = IF u + k < TAP_CAP THEN u + k ELSE u + k - TAP_CAP
  BY <1>3, SlotIs
<1>5. Slot(t, s) = IF t + s < TAP_CAP THEN t + s ELSE t + s - TAP_CAP
  BY SlotIs
<1>6. Slot(u, k) = Slot(t, s)
  BY <1>1, <1>3, <1>4, <1>5
<1> QED BY <1>2, <1>6

LEMMA SlotLap == ASSUME NEW t \in 0 .. TAP_CAP - 1 PROVE Slot(t, TAP_CAP) = t
<1>1. TAP_CAP \in Nat \ {0} /\ TAP_CAP \in 0 .. TAP_CAP
  BY CapIn
<1>2. Slot(t, TAP_CAP) = IF t + TAP_CAP < TAP_CAP THEN t + TAP_CAP ELSE t + TAP_CAP - TAP_CAP
  BY <1>1, SlotIs
<1> QED BY <1>1, <1>2

LEMMA SlotApart ==
  ASSUME NEW t \in 0 .. TAP_CAP - 1, NEW k \in 0 .. TAP_CAP - 1, NEW m \in 0 .. TAP_CAP - 1, k # m
  PROVE  Slot(t, k) # Slot(t, m)
<1>1. TAP_CAP \in Nat \ {0}
  BY CapIn
<1>2. k \in 0 .. TAP_CAP /\ m \in 0 .. TAP_CAP
  BY <1>1
<1>3. Slot(t, k) = IF t + k < TAP_CAP THEN t + k ELSE t + k - TAP_CAP
  BY <1>2, SlotIs
<1>4. Slot(t, m) = IF t + m < TAP_CAP THEN t + m ELSE t + m - TAP_CAP
  BY <1>2, SlotIs
<1> QED BY <1>1, <1>3, <1>4

Rings == [on : BOOLEAN, buf : [0 .. TAP_CAP - 1 -> Nat], tail : 0 .. TAP_CAP - 1,
          count : 0 .. TAP_CAP]

\* What the ring holds is the end of what was generated.
Ends(r, n) ==
  /\ r \in Rings /\ n \in Nat /\ r.count <= n
  /\ \A k \in 0 .. TAP_CAP - 1 : k < r.count => r.buf[Slot(r.tail, k)] = n - r.count + 1 + k

\* What a ring is made of.
LEMMA RingIn ==
  ASSUME NEW r \in Rings
  PROVE  /\ TAP_CAP \in Nat \ {0} /\ r.on \in BOOLEAN /\ r.buf \in [0 .. TAP_CAP - 1 -> Nat]
         /\ r.tail \in 0 .. TAP_CAP - 1 /\ r.count \in 0 .. TAP_CAP
BY CapIn DEF Rings

\* A sample pushed is the last of the ring, and the oldest goes when it is full.
LEMMA PushKeeps ==
  ASSUME NEW r, NEW n, Ends(r, n), NEW q, q = PushOne(r, n + 1)
  PROVE  /\ Ends(q, n + 1) /\ q.on = r.on
         /\ q.count = IF r.count = TAP_CAP THEN TAP_CAP ELSE r.count + 1
<1>1. /\ r \in Rings /\ n \in Nat /\ r.count <= n
      /\ TAP_CAP \in Nat \ {0} /\ r.on \in BOOLEAN /\ r.buf \in [0 .. TAP_CAP - 1 -> Nat]
      /\ r.tail \in 0 .. TAP_CAP - 1 /\ r.count \in 0 .. TAP_CAP
  BY RingIn DEF Ends
<1>2. PICK p, b : p = Slot(r.tail, r.count) /\ b = [r.buf EXCEPT ![p] = n + 1]
  OBVIOUS
<1>3. p \in 0 .. TAP_CAP - 1
  BY <1>1, <1>2, SlotIs
<1>4. b \in [0 .. TAP_CAP - 1 -> Nat] /\ b[p] = n + 1
      /\ \A z \in 0 .. TAP_CAP - 1 : z # p => b[z] = r.buf[z]
  BY <1>1, <1>2, <1>3
<1>5. PICK t, c : /\ t = (IF r.count = TAP_CAP THEN Slot(r.tail, 1) ELSE r.tail)
                  /\ c = (IF r.count = TAP_CAP THEN TAP_CAP ELSE r.count + 1)
  OBVIOUS
<1>6. t \in 0 .. TAP_CAP - 1 /\ c \in 0 .. TAP_CAP
  <2>1. 1 \in 0 .. TAP_CAP
    BY <1>1
  <2>2. Slot(r.tail, 1) \in 0 .. TAP_CAP - 1
    BY <1>1, <2>1, SlotIs
  <2> QED BY <1>1, <1>5, <2>2
<1>7. q = [r EXCEPT !.buf = b, !.tail = t, !.count = c]
  BY <1>1, <1>2, <1>5 DEF PushOne, Slot, Rings
<1>8. q \in Rings /\ q.on = r.on /\ q.buf = b /\ q.tail = t /\ q.count = c
  BY <1>1, <1>4, <1>6, <1>7 DEF Rings
<1>9. c <= n + 1
  BY <1>1, <1>5
<1>10. ASSUME NEW k \in 0 .. TAP_CAP - 1, k < c PROVE b[Slot(t, k)] = n + 1 - c + 1 + k
  <2>0. k \in 0 .. TAP_CAP /\ 1 \in 0 .. TAP_CAP
    BY <1>1
  <2>1. CASE r.count # TAP_CAP /\ k < r.count
    <3>1. Slot(r.tail, k) \in 0 .. TAP_CAP - 1
      BY <1>1, <2>0, SlotIs
    <3>2. Slot(r.tail, k) # p
      <4>1. r.count \in 0 .. TAP_CAP - 1 /\ k # r.count
        BY <1>1, <2>1
      <4> QED BY <1>1, <1>2, <4>1, SlotApart
    <3>3. r.buf[Slot(r.tail, k)] = n - r.count + 1 + k
      BY <2>1 DEF Ends
    <3>4. b[Slot(r.tail, k)] = n - r.count + 1 + k
      BY <1>4, <3>1, <3>2, <3>3
    <3>5. t = r.tail /\ n - r.count + 1 + k = n + 1 - c + 1 + k
      BY <1>1, <1>5, <2>1
    <3> QED BY <3>4, <3>5
  <2>2. CASE r.count # TAP_CAP /\ k = r.count
    <3>1. t = r.tail /\ n + 1 = n + 1 - c + 1 + k
      BY <1>1, <1>5, <2>2
    <3> QED BY <1>2, <1>4, <2>2, <3>1
  <2>3. CASE r.count = TAP_CAP
    <3>1. p = r.tail
      BY <1>1, <1>2, <2>3, SlotLap
    <3>2. k + 1 \in 0 .. TAP_CAP
      BY <1>1
    <3>3. Slot(t, k) = Slot(r.tail, k + 1)
      <4>1. PICK s : s = k + 1
        OBVIOUS
      <4>2. s \in 0 .. TAP_CAP /\ s = 1 + k
        BY <3>2, <4>1
      <4>3. Slot(Slot(r.tail, 1), k) = Slot(r.tail, s)
        BY <1>1, <2>0, <4>2, SlotSum
      <4> QED BY <1>5, <2>3, <4>1, <4>3
    <3>4. CASE k = TAP_CAP - 1
      <4>1. k + 1 = TAP_CAP /\ n + 1 = n + 1 - c + 1 + k
        BY <1>1, <1>5, <2>3, <3>4
      <4>2. Slot(t, k) = p
        BY <1>2, <2>3, <3>3, <4>1
      <4> QED BY <1>4, <4>1, <4>2
    <3>5. CASE k # TAP_CAP - 1
      <4>1. PICK s : s = k + 1
        OBVIOUS
      <4>2. /\ s \in 0 .. TAP_CAP - 1 /\ s < r.count /\ s \in 0 .. TAP_CAP
            /\ s # 0 /\ 0 \in 0 .. TAP_CAP - 1
        BY <1>1, <2>3, <3>5, <4>1
      <4>3. r.buf[Slot(r.tail, s)] = n - r.count + 1 + s
        BY <4>2 DEF Ends
      <4>4. Slot(r.tail, s) \in 0 .. TAP_CAP - 1 /\ Slot(r.tail, s) # p
        <5>1. Slot(r.tail, s) \in 0 .. TAP_CAP - 1
          BY <1>1, <4>2, SlotIs
        <5>2. Slot(r.tail, s) # Slot(r.tail, 0)
          BY <1>1, <4>2, SlotApart
        <5>3. Slot(r.tail, 0) = r.tail
          <6>1. 0 \in 0 .. TAP_CAP
            BY <1>1
          <6>2. Slot(r.tail, 0) = IF r.tail + 0 < TAP_CAP THEN r.tail + 0 ELSE r.tail + 0 - TAP_CAP
            BY <1>1, <6>1, SlotIs
          <6> QED BY <1>1, <6>2
        <5> QED BY <3>1, <5>1, <5>2, <5>3
      <4>5. b[Slot(r.tail, s)] = n - r.count + 1 + s
        BY <1>4, <4>3, <4>4
      <4>6. n - r.count + 1 + s = n + 1 - c + 1 + k
        BY <1>1, <1>5, <2>3, <4>1
      <4> QED BY <3>3, <4>1, <4>5, <4>6
    <3> QED BY <3>4, <3>5
  <2>4. \/ r.count # TAP_CAP /\ k < r.count
        \/ r.count # TAP_CAP /\ k = r.count
        \/ r.count = TAP_CAP
    BY <1>1, <1>5, <1>10
  <2> QED BY <2>1, <2>2, <2>3, <2>4
<1>11. Ends(q, n + 1)
  <2>1. n + 1 \in Nat
    BY <1>1
  <2>2. PICK o : o = n + 1
    OBVIOUS
  <2>3. \A k \in 0 .. TAP_CAP - 1 : k < q.count => q.buf[Slot(q.tail, k)] = o - q.count + 1 + k
    <3> TAKE k \in 0 .. TAP_CAP - 1
    <3> HAVE k < q.count
    <3>1. b[Slot(t, k)] = n + 1 - c + 1 + k
      BY <1>8, <1>10
    <3>2. n + 1 - c + 1 + k = o - c + 1 + k
      BY <1>1, <1>6, <2>2
    <3>3. q.buf[Slot(q.tail, k)] = b[Slot(t, k)] /\ q.count = c
      BY <1>8
    <3> QED BY <3>1, <3>2, <3>3
  <2>4. q \in Rings /\ o \in Nat /\ q.count <= o
    BY <1>8, <1>9, <2>1, <2>2
  <2> QED BY <2>2, <2>3, <2>4 DEF Ends
<1> QED BY <1>5, <1>8, <1>11

\* One or two samples are pushed.
Pushes(g, r, first, n) ==
  g = [z \in 0 .. n |-> IF z = 0 THEN r ELSE PushOne(g[z - 1], first + z - 1)]

LEMMA PushIs ==
  ASSUME NEW r, NEW first \in Nat, NEW n \in 1 .. 2
  PROVE  tap_push(r, first, n) =
           IF ~r.on THEN r
           ELSE IF n = 1 THEN PushOne(r, first) ELSE PushOne(PushOne(r, first), first + 1)
<1>1. PICK a, b : a = PushOne(r, first) /\ b = PushOne(a, first + 1)
  OBVIOUS
<1>2. PICK g : g = [z \in 0 .. n |-> IF z = 0 THEN r ELSE IF z = 1 THEN a ELSE b]
  OBVIOUS
<1>3. Pushes(g, r, first, n)
  <2>1. ASSUME NEW z \in 0 .. n PROVE g[z] = IF z = 0 THEN r ELSE PushOne(g[z - 1], first + z - 1)
    <3>1. CASE z = 0
      BY <1>2, <3>1
    <3>2. CASE z = 1
      <4>1. g[1] = a /\ g[0] = r
        BY <1>2, <3>2
      <4>2. z - 1 = 0 /\ first + z - 1 = first
        BY <3>2
      <4> QED BY <1>1, <3>2, <4>1, <4>2
    <3>3. CASE z = 2
      <4>1. g[2] = b /\ g[1] = a
        BY <1>2, <3>3
      <4>2. z - 1 = 1 /\ first + z - 1 = first + 1
        BY <3>3
      <4> QED BY <1>1, <3>3, <4>1, <4>2
    <3> QED BY <3>1, <3>2, <3>3
  <2>2. g = [z \in 0 .. n |-> g[z]]
    BY <1>2
  <2> QED BY <2>1, <2>2 DEF Pushes
<1>4. PICK h : h = CHOOSE f : Pushes(f, r, first, n)
  OBVIOUS
<1>5. Pushes(h, r, first, n)
  BY <1>3, <1>4
<1>6. \A z \in 0 .. n : h[z] = IF z = 0 THEN r ELSE PushOne(h[z - 1], first + z - 1)
  BY <1>5 DEF Pushes
<1>7. h[1] = a
  <2>1. h[0] = r
    BY <1>6
  <2>2. h[1] = PushOne(h[1 - 1], first + 1 - 1)
    BY <1>6
  <2>3. 1 - 1 = 0 /\ first + 1 - 1 = first
    OBVIOUS
  <2> QED BY <1>1, <2>1, <2>2, <2>3
<1>8. n = 2 => h[2] = b
  <2> HAVE n = 2
  <2>1. h[2] = PushOne(h[2 - 1], first + 2 - 1)
    BY <1>6
  <2>2. 2 - 1 = 1 /\ first + 2 - 1 = first + 1
    OBVIOUS
  <2> QED BY <1>1, <1>7, <2>1, <2>2
<1>9. tap_push(r, first, n) = IF r.on THEN h[n] ELSE r
  BY <1>4 DEF tap_push, Pushes
<1>10. n = 1 \/ n = 2
  OBVIOUS
<1> QED BY <1>1, <1>7, <1>8, <1>9, <1>10

\* What is drained is the oldest of it, and the rest stays.
LEMMA DrainKeeps ==
  ASSUME NEW r, NEW n, Ends(r, n), NEW q, q = audio_avi_tap_drain(r), NEW d, d = Drained(r)
  PROVE  /\ d \in Seq(Nat) /\ Len(d) <= r.count
         /\ \A z \in 1 .. Len(d) : d[z] = n - r.count + z
         /\ Ends(q, n) /\ q.on = r.on /\ q.count = r.count - Len(d)
<1>1. /\ r \in Rings /\ n \in Nat /\ r.count <= n
      /\ TAP_CAP \in Nat \ {0} /\ r.on \in BOOLEAN /\ r.buf \in [0 .. TAP_CAP - 1 -> Nat]
      /\ r.tail \in 0 .. TAP_CAP - 1 /\ r.count \in 0 .. TAP_CAP
  BY RingIn DEF Ends
<1>2. PICK m : m = IF r.count < TAP_DRAIN_MAX THEN r.count ELSE TAP_DRAIN_MAX
  OBVIOUS
<1>3. m \in Nat /\ m <= r.count
  BY <1>1, <1>2, CapIn
<1>4. d = [z \in 1 .. m |-> r.buf[(r.tail + z - 1) % TAP_CAP]]
  BY <1>2 DEF Drained
<1>5. ASSUME NEW z \in 1 .. m
      PROVE  d[z] = n - r.count + z /\ d[z] \in Nat
  <2>1. PICK k : k = z - 1
    OBVIOUS
  <2>2. k \in 0 .. TAP_CAP - 1 /\ k < r.count /\ r.tail + z - 1 = r.tail + k
    BY <1>1, <1>3, <2>1
  <2>3. r.buf[Slot(r.tail, k)] = n - r.count + 1 + k
    BY <2>2 DEF Ends
  <2>4. d[z] = r.buf[Slot(r.tail, k)]
    BY <1>4, <2>2 DEF Slot
  <2> QED BY <1>1, <2>1, <2>3, <2>4
<1>6. d \in Seq(Nat) /\ Len(d) = m
  <2>1. d \in [1 .. m -> Nat]
    BY <1>4, <1>5
  <2> QED BY <1>3, <2>1
<1>7. PICK t : t = Slot(r.tail, m)
  OBVIOUS
<1>8. m \in 0 .. TAP_CAP /\ r.count - m \in 0 .. TAP_CAP
  BY <1>1, <1>3
<1>9. /\ t \in 0 .. TAP_CAP - 1
      /\ t = IF r.tail + m < TAP_CAP THEN r.tail + m ELSE r.tail + m - TAP_CAP
  BY <1>1, <1>7, <1>8, SlotIs
<1>10. q = [r EXCEPT !.tail = t, !.count = r.count - m]
  <2>1. Drained(r) = d
    OBVIOUS
  <2> QED BY <1>6, <1>7, <2>1 DEF audio_avi_tap_drain, Slot
<1>11. q \in Rings /\ q.on = r.on /\ q.buf = r.buf /\ q.tail = t /\ q.count = r.count - m
  BY <1>1, <1>8, <1>9, <1>10 DEF Rings
<1>12. ASSUME NEW k \in 0 .. TAP_CAP - 1, k < q.count
       PROVE  q.buf[Slot(q.tail, k)] = n - q.count + 1 + k
  <2>1. /\ m + k \in 0 .. TAP_CAP - 1 /\ m + k < r.count
        /\ m + k \in 0 .. TAP_CAP /\ k \in 0 .. TAP_CAP
    BY <1>1, <1>3, <1>11, <1>12
  <2>2. r.buf[Slot(r.tail, m + k)] = n - r.count + 1 + (m + k)
    BY <2>1 DEF Ends
  <2>3. Slot(t, k) = Slot(r.tail, m + k)
    <3>1. PICK s : s = m + k
      OBVIOUS
    <3>2. s \in 0 .. TAP_CAP
      BY <2>1, <3>1
    <3>3. Slot(Slot(r.tail, m), k) = Slot(r.tail, s)
      BY <1>1, <1>8, <2>1, <3>1, <3>2, SlotSum
    <3> QED BY <1>7, <3>1, <3>3
  <2> QED BY <1>1, <1>3, <1>11, <2>2, <2>3
<1>13. Ends(q, n)
  BY <1>1, <1>3, <1>11, <1>12 DEF Ends
<1> QED BY <1>3, <1>5, <1>6, <1>11, <1>13

-----------------------------------------------------------------------------
(* The inductive invariant *)

\* The sound s in the file, of n samples with d dropped and c in the ring.
Heard(s, c, n, d) ==
  /\ s \in Seq(Nat) /\ c \in Nat /\ n \in Nat /\ d \in Nat
  /\ Len(s) + c + d = n
  /\ \A z \in 1 .. Len(s) : s[z] <= n - c
  /\ \A z \in 1 .. Len(s) - 1 : s[z] < s[z + 1]
  /\ d = 0 => \A z \in 1 .. Len(s) : s[z] = z

\* The file is one that grows until it is closed; what was generated is in it,
\* in the ring behind it, or dropped.
Recorded(f, r, n, d, st) ==
  /\ Whole(f)
  /\ IF st = "over" THEN Done(f) ELSE Growing(f)
  /\ Ends(r, n) /\ d \in Nat
  /\ r.on => f.audio /\ ~f.headless
  /\ ~r.on => r.count = 0
  /\ f.headless => f.audio
  /\ IF f.audio THEN Heard(SoundOf(f.chunks), r.count, n, d) ELSE SoundOf(f.chunks) = <<>>

AviInv == Recorded(avi, ring, made, dropped, stage)

\* More is heard: the next samples, in order.
LEMMA HeardMore ==
  ASSUME NEW s, NEW c, NEW n, NEW d, Heard(s, c, n, d),
         NEW t \in Seq(Nat), NEW b \in Nat, NEW m \in Nat, m - b = n - c + Len(t),
         \A z \in 1 .. Len(t) : t[z] = n - c + z
  PROVE  Heard(s \o t, b, m, d)
<1>1. PICK u, j, k : u = s \o t /\ j = Len(s) /\ k = Len(t)
  OBVIOUS
<1>2. /\ s \in Seq(Nat) /\ c \in Nat /\ n \in Nat /\ d \in Nat /\ j \in Nat /\ k \in Nat
      /\ j + c + d = n
  BY <1>1 DEF Heard
<1>3. /\ u \in Seq(Nat) /\ Len(u) = j + k
      /\ \A z \in 1 .. j + k : u[z] = IF z <= j THEN s[z] ELSE t[z - j]
  BY <1>1, <1>2, ConcatProperties
<1>4. /\ \A z \in 1 .. j : u[z] = s[z] /\ s[z] \in Nat /\ s[z] <= n - c
      /\ \A z \in 1 .. j - 1 : s[z] < s[z + 1]
      /\ d = 0 => \A z \in 1 .. j : s[z] = z
  <2>1. \A z \in 1 .. j : u[z] = s[z]
    BY <1>2, <1>3
  <2>2. \A z \in 1 .. j : s[z] \in Nat
    BY <1>1, <1>2, ElementOfSeq
  <2> QED BY <1>1, <2>1, <2>2 DEF Heard
<1>5. ASSUME NEW z \in 1 .. j + k, z > j PROVE u[z] = n - c + (z - j)
  <2>1. PICK h : h = z - j
    OBVIOUS
  <2>2. h \in 1 .. k
    BY <1>2, <1>5, <2>1
  <2>3. u[z] = t[h]
    BY <1>2, <1>3, <1>5, <2>1
  <2> QED BY <1>1, <2>1, <2>2, <2>3
<1>6. ASSUME NEW z \in 1 .. j + k PROVE u[z] <= m - b
  <2>1. CASE z <= j
    <3>1. z \in 1 .. j
      BY <1>2, <2>1
    <3> QED BY <1>1, <1>2, <1>4, <3>1
  <2>2. CASE z > j
    BY <1>1, <1>2, <1>5, <2>2
  <2> QED BY <1>2, <2>1, <2>2
<1>7. ASSUME NEW z \in 1 .. j + k - 1 PROVE u[z] < u[z + 1]
  <2>1. CASE z < j
    <3>1. z \in 1 .. j /\ z + 1 \in 1 .. j /\ z \in 1 .. j - 1
      BY <1>2, <2>1
    <3> QED BY <1>4, <3>1
  <2>2. CASE z = j
    <3>1. z \in 1 .. j /\ z + 1 \in 1 .. j + k /\ z + 1 > j
      BY <1>2, <2>2
    <3>2. u[z + 1] = n - c + (z + 1 - j)
      <4>1. PICK h : h = z + 1
        OBVIOUS
      <4>2. h \in 1 .. j + k /\ h > j
        BY <3>1, <4>1
      <4>3. u[h] = n - c + (h - j)
        BY <1>5, <4>2
      <4>4. n - c + (h - j) = n - c + (z + 1 - j)
        BY <1>2, <4>1
      <4> QED BY <4>1, <4>3, <4>4
    <3>3. u[z] <= n - c /\ u[z] \in Nat
      BY <1>4, <3>1
    <3> QED BY <1>2, <2>2, <3>2, <3>3
  <2>3. CASE z > j
    <3>1. z \in 1 .. j + k /\ z + 1 \in 1 .. j + k /\ z + 1 > j
      BY <1>2, <2>3
    <3>2. u[z] = n - c + (z - j) /\ u[z + 1] = n - c + (z + 1 - j)
      <4>1. PICK h : h = z + 1
        OBVIOUS
      <4>2. h \in 1 .. j + k /\ h > j
        BY <3>1, <4>1
      <4>3. u[h] = n - c + (h - j) /\ u[z] = n - c + (z - j)
        BY <1>5, <2>3, <3>1, <4>2
      <4>4. n - c + (h - j) = n - c + (z + 1 - j)
        BY <1>2, <4>1
      <4> QED BY <4>1, <4>3, <4>4
    <3> QED BY <1>2, <3>2
  <2> QED BY <1>2, <2>1, <2>2, <2>3
<1>8. ASSUME d = 0, NEW z \in 1 .. j + k PROVE u[z] = z
  <2>1. CASE z <= j
    <3>1. z \in 1 .. j
      BY <1>2, <2>1
    <3> QED BY <1>4, <1>8, <3>1
  <2>2. CASE z > j
    <3>1. u[z] = n - c + (z - j)
      BY <1>5, <2>2
    <3>2. n - c = j
      BY <1>2, <1>8
    <3> QED BY <1>2, <3>1, <3>2
  <2> QED BY <1>2, <2>1, <2>2
<1>9. j + k + b + d = m
  <2>1. m - b = n - c + k
    BY <1>1
  <2> QED BY <1>2, <2>1
<1>10. Heard(u, b, m, d)
  BY <1>2, <1>3, <1>6, <1>7, <1>8, <1>9 DEF Heard
<1> QED BY <1>1, <1>10

\* Samples that go to the ring, or push its oldest out.
LEMMA HeardPush ==
  ASSUME NEW s, NEW c, NEW n, NEW d, Heard(s, c, n, d),
         NEW b \in Nat, NEW m \in Nat, NEW e \in Nat,
         m - b - e = n - c - d, e >= d, m - b >= n - c
  PROVE  Heard(s, b, m, e)
<1>1. PICK j : j = Len(s)
  OBVIOUS
<1>2. /\ s \in Seq(Nat) /\ c \in Nat /\ n \in Nat /\ d \in Nat /\ j \in Nat /\ j + c + d = n
      /\ \A z \in 1 .. j : s[z] \in Nat /\ s[z] <= n - c
  <2>1. s \in Seq(Nat)
    BY DEF Heard
  <2>2. \A z \in 1 .. j : s[z] \in Nat
    BY <1>1, <2>1, ElementOfSeq
  <2> QED BY <1>1, <2>2 DEF Heard
<1>3. j + b + e = m
  BY <1>2
<1>4. \A z \in 1 .. j : s[z] <= m - b
  BY <1>2
<1>5. e = 0 => d = 0
  BY <1>2
<1> QED BY <1>1, <1>2, <1>3, <1>4, <1>5 DEF Heard

\* A file just opened, and an empty ring.
LEMMA InitAvi == AviInit => AviInv
<1> SUFFICES ASSUME AviInit PROVE AviInv
  OBVIOUS
<1>1. PICK mode \in {"headless", "tap", "silent"} :
        /\ avi = Opened(mode # "silent", mode = "headless")
        /\ ring = IF mode = "tap" THEN audio_avi_tap_enable ELSE NoTap
  BY DEF AviInit
<1>2. made = 0 /\ dropped = 0 /\ stage = "sound"
  BY DEF AviInit
<1>3. PICK audio \in BOOLEAN, headless \in BOOLEAN :
        audio = (mode # "silent") /\ headless = (mode = "headless")
  OBVIOUS
<1>4. headless => audio
  BY <1>3
<1>5. Width(Header(audio)) \in Nat /\ Width(Header(audio)) - 4 \in Nat
  <2>1. HeaderHas(Header(audio), audio)
    BY HeaderIs
  <2> QED BY <2>1 DEF HeaderHas
<1>6. PICK w : w = Width(Header(audio))
  OBVIOUS
<1>7. avi = [audio |-> audio, headless |-> headless, movi_pos |-> w - 4, end |-> w, frames |-> 0,
             samples |-> 0, maxv |-> 0, maxa |-> 0, cap |-> 0, index |-> <<>>, chunks |-> <<>>,
             patches |-> {}, idx1 |-> 0, closed |-> FALSE]
  BY <1>1, <1>3, <1>6 DEF Opened
<1>8. <<>> \in Seq(Chunks) /\ <<>> \in Seq(Entries) /\ {} \in SUBSET [pos : Nat, v : Nat]
  OBVIOUS
<1>9. avi \in Files
  BY <1>5, <1>6, <1>7, <1>8 DEF Files
<1>10. /\ avi.audio = audio /\ avi.headless = headless /\ avi.movi_pos = w - 4 /\ avi.end = w
       /\ avi.frames = 0 /\ avi.samples = 0 /\ avi.index = <<>> /\ avi.chunks = <<>>
       /\ avi.closed = FALSE
  BY <1>7
<1>11. SoundOf(<<>>) = <<>>
  BY SoundNone
<1>12. Shown(<<>>) = 0
  <2>1. PICK c : c = <<>>
    OBVIOUS
  <2>2. DOMAIN c = {}
    BY <2>1
  <2>3. {z \in DOMAIN c : ~c[z].sound} = {}
    BY <2>2
  <2> QED BY <2>1, <2>3, FS_EmptySet DEF Shown
<1>13. Total(avi) = 4
  <2>1. Len(avi.chunks) + 1 = 1
    BY <1>10
  <2> QED BY <1>8, <1>10, <2>1, OffsetFirst DEF Total
<1>14. Whole(avi)
  <2>1. Len(avi.index) = 0 /\ Len(avi.chunks) = 0 /\ Len(SoundOf(avi.chunks)) = 0
    BY <1>10, <1>11
  <2>2. \A z \in 1 .. Len(avi.index) : Entry(avi, z)
    BY <2>1
  <2>3. SoundOf(avi.chunks) \in Seq(Nat)
    <3>1. <<>> \in Seq(Nat)
      OBVIOUS
    <3> QED BY <1>10, <1>11, <3>1
  <2>4. Low(0) = 0
    <3>1. 0 \in Nat /\ 0 < Word
      BY AviConstants
    <3> QED BY <3>1, LowAdds
  <2>5. Shown(avi.chunks) = 0 /\ avi.frames = Low(0) /\ avi.samples = Low(0)
    BY <1>10, <1>12, <2>4
  <2> QED BY <1>6, <1>9, <1>10, <1>13, <2>1, <2>2, <2>3, <2>5 DEF Whole
<1>15. Growing(avi)
  BY <1>5, <1>6, <1>10, <1>13 DEF Growing
<1>16. Ends(ring, made) /\ ring.count = 0 /\ ring.on = (mode = "tap")
  <2>1. PICK b : b = [z \in 0 .. TAP_CAP - 1 |-> 0]
    OBVIOUS
  <2>2. ring = [on |-> mode = "tap", buf |-> b, tail |-> 0, count |-> 0]
    BY <1>1, <2>1 DEF audio_avi_tap_enable, NoTap
  <2>3. b \in [0 .. TAP_CAP - 1 -> Nat] /\ 0 \in 0 .. TAP_CAP - 1 /\ 0 \in 0 .. TAP_CAP
    BY <2>1, CapIn
  <2>4. ring \in Rings
    BY <2>2, <2>3 DEF Rings
  <2>5. \A k \in 0 .. TAP_CAP - 1 : ~(k < 0)
    BY CapIn
  <2> QED BY <1>2, <2>2, <2>4, <2>5 DEF Ends
<1>17. Heard(<<>>, 0, 0, 0)
  <2>1. <<>> \in Seq(Nat) /\ Len(<<>>) = 0
    OBVIOUS
  <2> QED BY <2>1 DEF Heard
<1>18. ring.on => avi.audio /\ ~avi.headless
  BY <1>1, <1>3, <1>10, <1>16
<1>19. stage # "over" /\ 0 \in Nat
  BY <1>2
<1> QED BY <1>2, <1>4, <1>10, <1>11, <1>14, <1>15, <1>16, <1>17, <1>18, <1>19 DEF AviInv, Recorded

-----------------------------------------------------------------------------
(* Its steps *)

\* The audio thread pushes what it generated.
LEMMA PushStep == ASSUME AviInv, audio_callback PROVE AviInv'
<1>1. PICK f, r, c, d : f = avi /\ r = ring /\ c = r.count /\ d = dropped
  OBVIOUS
<1>0. PICK n \in 1 .. 2 :
        /\ made' = (IF r.on THEN made + n ELSE made)
        /\ ring' = tap_push(r, made + 1, n)
        /\ dropped' = (IF r.on /\ c + n > TAP_CAP THEN d + (c + n - TAP_CAP) ELSE d)
  BY <1>1 DEF audio_callback
<1>2. PICK q, m, e :
        /\ m = (IF r.on THEN made + n ELSE made)
        /\ q = tap_push(r, made + 1, n)
        /\ e = (IF r.on /\ c + n > TAP_CAP THEN d + (c + n - TAP_CAP) ELSE d)
        /\ made' = m /\ ring' = q /\ dropped' = e
  BY <1>0
<1>3. avi' = f /\ stage' = stage
  BY <1>1 DEF audio_callback
<1>4. /\ Whole(f) /\ Ends(r, made) /\ d \in Nat /\ (r.on => f.audio /\ ~f.headless)
      /\ (~r.on => c = 0) /\ (f.headless => f.audio)
      /\ IF stage = "over" THEN Done(f) ELSE Growing(f)
      /\ IF f.audio THEN Heard(SoundOf(f.chunks), c, made, d) ELSE SoundOf(f.chunks) = <<>>
  BY <1>1 DEF AviInv, Recorded
<1>5. /\ made \in Nat /\ c \in Nat /\ c <= made /\ TAP_CAP \in Nat \ {0} /\ c <= TAP_CAP
      /\ made + 1 \in Nat /\ (made + 1) + 1 = made + 2
  <2>1. r \in Rings /\ made \in Nat /\ c <= made
    BY <1>1, <1>4 DEF Ends
  <2>2. TAP_CAP \in Nat \ {0} /\ c \in 0 .. TAP_CAP
    BY <1>1, <2>1, RingIn
  <2> QED BY <2>1, <2>2
<1>6. CASE ~r.on
  <2>1. q = r /\ m = made /\ e = d
    BY <1>2, <1>5, <1>6, PushIs
  <2> QED BY <1>1, <1>2, <1>3, <1>4, <2>1 DEF AviInv, Recorded
<1>7. CASE r.on
  <2>1. PICK a : a = PushOne(r, made + 1)
    OBVIOUS
  <2>2. Ends(a, made + 1) /\ a.on = r.on /\ a.count = IF c = TAP_CAP THEN TAP_CAP ELSE c + 1
    BY <1>1, <1>4, <2>1, PushKeeps
  <2>3. /\ Ends(q, m) /\ q.on = r.on
        /\ q.count = IF c + n > TAP_CAP THEN TAP_CAP ELSE c + n
    <3>1. CASE n = 1
      <4>1. q = a /\ m = made + 1
        BY <1>2, <1>5, <1>7, <2>1, <3>1, PushIs
      <4> QED BY <1>5, <2>2, <3>1, <4>1
    <3>2. CASE n = 2
      <4>1. PICK k : k = made + 1
        OBVIOUS
      <4>2. q = PushOne(a, k + 1) /\ m = k + 1
        BY <1>2, <1>5, <1>7, <2>1, <3>2, <4>1, PushIs
      <4>3. Ends(a, k)
        BY <2>2, <4>1
      <4>4. /\ Ends(q, k + 1) /\ q.on = a.on
            /\ q.count = IF a.count = TAP_CAP THEN TAP_CAP ELSE a.count + 1
        BY <4>2, <4>3, PushKeeps
      <4>5. q.count = IF c + n > TAP_CAP THEN TAP_CAP ELSE c + n
        BY <1>5, <2>2, <3>2, <4>4
      <4> QED BY <2>2, <4>2, <4>4, <4>5
    <3>3. n = 1 \/ n = 2
      OBVIOUS
    <3> QED BY <3>1, <3>2, <3>3
  <2>4. PICK b : b = q.count
    OBVIOUS
  <2>5. /\ b \in Nat /\ m \in Nat /\ e \in Nat /\ e >= d /\ m - b >= made - c
        /\ m - b - e = made - c - d
    BY <1>2, <1>4, <1>5, <1>7, <2>3, <2>4
  <2>6. Heard(SoundOf(f.chunks), b, m, e)
    <3>1. Heard(SoundOf(f.chunks), c, made, d)
      BY <1>4, <1>7
    <3> QED BY <2>5, <3>1, HeardPush
  <2> QED BY <1>2, <1>3, <1>4, <1>7, <2>3, <2>4, <2>5, <2>6 DEF AviInv, Recorded
<1> QED BY <1>6, <1>7

\* Samples go to the file, or are lost for want of an index.
SoundIn(f, g, d, e, data) ==
  \/ g = avi_recorder_add_audio(f, data) /\ e = d
  \/ g = f /\ e = d + Len(data)

\* The samples that follow the n - c that are heard.
Follow(data, c, n, b, m) ==
  /\ c \in Nat /\ n \in Nat /\ b \in Nat /\ m \in Nat /\ m - b = n - c + Len(data)
  /\ \A z \in 1 .. Len(data) : data[z] = n - c + z

\* Either way the file is whole and nothing else is missing.
LEMMA SoundAdded ==
  ASSUME NEW f, NEW g, Whole(f), Growing(f), f.audio, NEW d \in Nat, NEW e,
         NEW data \in Seq(Nat), SoundIn(f, g, d, e, data),
         NEW c, NEW n, NEW b, NEW m, Heard(SoundOf(f.chunks), c, n, d), Follow(data, c, n, b, m)
  PROVE  /\ Whole(g) /\ Growing(g) /\ g.audio = f.audio /\ g.headless = f.headless
         /\ Heard(SoundOf(g.chunks), b, m, e) /\ e \in Nat
<1>1. CASE g = avi_recorder_add_audio(f, data) /\ e = d
  <2>1. /\ Whole(g) /\ Growing(g) /\ Rest(f, g)
        /\ SoundOf(g.chunks) = IF f.audio THEN SoundOf(f.chunks) \o data ELSE SoundOf(f.chunks)
    BY <1>1, AudioKeeps
  <2>2. Heard(SoundOf(f.chunks) \o data, b, m, d)
    BY HeardMore DEF Follow
  <2> QED BY <1>1, <2>1, <2>2 DEF Rest
<1>2. CASE g = f /\ e = d + Len(data)
  <2>1. PICK l : l = Len(data)
    OBVIOUS
  <2>2. e = d + l /\ l \in Nat /\ m - b = n - c + l /\ n \in Nat /\ c \in Nat
        /\ b \in Nat /\ m \in Nat
    BY <1>2, <2>1 DEF Follow
  <2>3. e \in Nat /\ e >= d /\ m - b - e = n - c - d /\ m - b >= n - c
    BY <2>2
  <2>4. Heard(SoundOf(f.chunks), b, m, e)
    BY <2>2, <2>3, HeardPush
  <2> QED BY <1>2, <2>3, <2>4
<1> QED BY <1>1, <1>2 DEF SoundIn

\* Without SDL the samples of the frame go to the file at once.
LEMMA HeadlessStep == ASSUME AviInv, run_headless_audio_sinks PROVE AviInv'
<1>1. PICK f, g, r : f = avi /\ g = avi' /\ r = ring
  OBVIOUS
<1>2. ring' = r /\ stage = "sound" /\ stage' = "picture"
  BY <1>1 DEF run_headless_audio_sinks
<1>3. /\ Whole(f) /\ Growing(f) /\ Ends(r, made) /\ dropped \in Nat
      /\ (r.on => f.audio /\ ~f.headless) /\ (~r.on => r.count = 0) /\ (f.headless => f.audio)
      /\ IF f.audio THEN Heard(SoundOf(f.chunks), r.count, made, dropped)
                    ELSE SoundOf(f.chunks) = <<>>
  BY <1>1, <1>2 DEF AviInv, Recorded
<1>4. f.headless \in BOOLEAN
  BY <1>3 DEF Whole, Files
<1>5. CASE ~f.headless
  <2>1. g = f /\ made' = made /\ dropped' = dropped
    BY <1>1, <1>5 DEF run_headless_audio_sinks
  <2>2. stage' # "over"
    BY <1>2
  <2> QED BY <1>1, <1>2, <1>3, <2>1, <2>2 DEF AviInv, Recorded
<1>6. CASE f.headless
  <2>1. PICK data, m : data = [z \in 1 .. FrameSamples |-> made + z] /\ m = made + FrameSamples
    OBVIOUS
  <2>2. AddSound(data) /\ made' = m
    BY <1>1, <1>6, <2>1 DEF run_headless_audio_sinks
  <2>3. made \in Nat /\ FrameSamples \in Nat /\ r \in Rings
    BY <1>3, CapIn DEF Ends
  <2>4. data \in Seq(Nat) /\ Len(data) = FrameSamples
        /\ \A z \in 1 .. Len(data) : data[z] = made + z
    <3>1. data \in [1 .. FrameSamples -> Nat]
      BY <2>1, <2>3
    <3> QED BY <2>1, <2>3, <3>1
  <2>5. ~r.on /\ r.count = 0 /\ f.audio
    BY <1>3, <1>6
  <2>6. /\ Heard(SoundOf(f.chunks), 0, made, dropped)
        /\ \A z \in 1 .. Len(data) : data[z] = made - 0 + z
        /\ m \in Nat /\ 0 \in Nat /\ Len(data) \in Nat /\ made \in Nat
        /\ m = made + Len(data)
    BY <1>3, <2>1, <2>3, <2>4, <2>5
  <2>7. /\ Whole(g) /\ Growing(g) /\ g.audio = f.audio /\ g.headless = f.headless
        /\ Heard(SoundOf(g.chunks), 0, m, dropped') /\ dropped' \in Nat
    <3>1. PICK d, e : d = dropped /\ e = dropped'
      OBVIOUS
    <3>2. SoundIn(f, g, d, e, data)
      BY <1>1, <2>2, <3>1 DEF SoundIn, AddSound
    <3>3. d \in Nat /\ Heard(SoundOf(f.chunks), 0, made, d)
      BY <1>3, <2>6, <3>1
    <3>4. Follow(data, 0, made, 0, m)
      BY <2>6 DEF Follow
    <3> QED BY <1>3, <2>4, <2>5, <3>1, <3>2, <3>3, <3>4, SoundAdded
  <2>8. Ends(r, m)
    BY <2>1, <2>3, <2>5 DEF Ends
  <2>9. stage' # "over"
    BY <1>2
  <2> QED BY <1>1, <1>2, <1>3, <1>6, <2>2, <2>5, <2>7, <2>8, <2>9 DEF AviInv, Recorded
<1> QED BY <1>4, <1>5, <1>6

\* A picture is added, or its encoding failed.
LEMMA PictureStep == ASSUME AviInv, run_video_recording PROVE AviInv'
<1>1. PICK f, g : f = avi /\ g = avi'
  OBVIOUS
<1>2. ring' = ring /\ made' = made /\ dropped' = dropped /\ stage = "picture" /\ stage' # "over"
  BY DEF run_video_recording
<1>3. Whole(f) /\ Growing(f)
  BY <1>1, <1>2 DEF AviInv, Recorded
<1>4. /\ Whole(g) /\ Growing(g) /\ g.audio = f.audio /\ g.headless = f.headless
      /\ SoundOf(g.chunks) = SoundOf(f.chunks)
  <2>1. CASE g = f
    BY <1>3, <2>1
  <2>2. CASE \E size \in JpegSizes : g = avi_recorder_add_frame(f, size)
    <3>1. PICK size \in Nat : g = avi_recorder_add_frame(f, size)
      BY <2>2, AviConstants
    <3> QED BY <1>3, <3>1, FrameKeeps DEF Rest
  <2>3. g = f \/ \E size \in JpegSizes : g = avi_recorder_add_frame(f, size)
    BY <1>1 DEF run_video_recording
  <2> QED BY <2>1, <2>2, <2>3
<1> QED BY <1>1, <1>2, <1>4 DEF AviInv, Recorded

\* The oldest of the ring goes to the file.
LEMMA DrainStep ==
  ASSUME AviInv, stage # "over", stage' # "over", avi.audio,
         AddSound(Drained(ring)), ring' = audio_avi_tap_drain(ring), made' = made
  PROVE  AviInv' /\ avi'.audio
<1>1. PICK f, g, r, q, d : f = avi /\ g = avi' /\ r = ring /\ q = ring' /\ d = Drained(r)
  OBVIOUS
<1>2. /\ Whole(f) /\ Growing(f) /\ Ends(r, made) /\ dropped \in Nat
      /\ (r.on => f.audio /\ ~f.headless) /\ (~r.on => r.count = 0) /\ (f.headless => f.audio)
      /\ Heard(SoundOf(f.chunks), r.count, made, dropped)
  BY <1>1 DEF AviInv, Recorded
<1>3. /\ d \in Seq(Nat) /\ Len(d) <= r.count
      /\ \A z \in 1 .. Len(d) : d[z] = made - r.count + z
      /\ Ends(q, made) /\ q.on = r.on /\ q.count = r.count - Len(d)
  <2>1. q = audio_avi_tap_drain(r)
    BY <1>1
  <2> QED BY <1>1, <1>2, <2>1, DrainKeeps
<1>4. PICK c, b, l : c = r.count /\ b = q.count /\ l = Len(d)
  OBVIOUS
<1>5. made \in Nat /\ c \in Nat /\ b \in Nat /\ l \in Nat /\ l <= c /\ b = c - l
  <2>1. made \in Nat /\ r \in Rings
    BY <1>2 DEF Ends
  <2>2. c \in 0 .. TAP_CAP /\ TAP_CAP \in Nat
    BY <1>4, <2>1, RingIn
  <2> QED BY <1>3, <1>4, <2>1, <2>2
<1>6. /\ Whole(g) /\ Growing(g) /\ g.audio = f.audio /\ g.headless = f.headless
      /\ Heard(SoundOf(g.chunks), b, made, dropped') /\ dropped' \in Nat
  <2>1. made - b = made - c + Len(d)
    BY <1>4, <1>5
  <2>2. \A z \in 1 .. Len(d) : d[z] = made - c + z
    BY <1>3, <1>4
  <2>3. Heard(SoundOf(f.chunks), c, made, dropped)
    BY <1>2, <1>4
  <2>4. AddSound(d) /\ f.audio
    BY <1>1
  <2>5. PICK h, e : h = dropped /\ e = dropped'
    OBVIOUS
  <2>6. SoundIn(f, g, h, e, d)
    BY <1>1, <2>4, <2>5 DEF SoundIn, AddSound
  <2>7. h \in Nat /\ Heard(SoundOf(f.chunks), c, made, h)
    BY <1>2, <2>3, <2>5
  <2>8. Follow(d, c, made, b, made)
    BY <1>5, <2>1, <2>2 DEF Follow
  <2> QED BY <1>2, <1>3, <2>4, <2>5, <2>6, <2>7, <2>8, SoundAdded
<1>7. ~q.on => b = 0
  BY <1>2, <1>3, <1>4, <1>5
<1>8. f.audio
  BY <1>1
<1> QED BY <1>1, <1>2, <1>3, <1>4, <1>6, <1>7, <1>8 DEF AviInv, Recorded

\* The tap goes when it is empty.
LEMMA TapGoes ==
  ASSUME AviInv, stage # "over", stage' # "over", ring.count = 0, ring' = NoTap, avi' = avi,
         made' = made, dropped' = dropped
  PROVE  AviInv'
<1>1. PICK b : b = [z \in 0 .. TAP_CAP - 1 |-> 0]
  OBVIOUS
<1>2. ring' = [on |-> FALSE, buf |-> b, tail |-> 0, count |-> 0]
  BY <1>1 DEF NoTap
<1>3. b \in [0 .. TAP_CAP - 1 -> Nat] /\ 0 \in 0 .. TAP_CAP - 1 /\ 0 \in 0 .. TAP_CAP
  BY <1>1, CapIn
<1>4. ring' \in Rings
  BY <1>2, <1>3 DEF Rings
<1>5. made \in Nat
  BY DEF AviInv, Recorded, Ends
<1>6. \A k \in 0 .. TAP_CAP - 1 : ~(k < 0)
  BY CapIn
<1>7. ring'.on = FALSE /\ ring'.count = 0
  BY <1>2
<1>8. PICK q : q = ring'
  OBVIOUS
<1>9. Ends(q, made) /\ ~q.on /\ q.count = 0
  BY <1>4, <1>5, <1>6, <1>7, <1>8 DEF Ends
<1> QED BY <1>8, <1>9 DEF AviInv, Recorded

\* The last of the ring goes to the file, then the tap goes.
LEMMA FlushStep == ASSUME AviInv, Flush PROVE AviInv'
<1>1. stage = "flush" /\ stage # "over" /\ made' = made
  BY DEF Flush
<1>2. CASE ring.count > 0
  <2>1. /\ AddSound(Drained(ring))
        /\ ring' = audio_avi_tap_drain(ring) /\ stage' # "over"
    BY <1>1, <1>2 DEF Flush
  <2>2. ring.count # 0
    BY <1>2
  <2>3. avi.audio
    BY <2>2 DEF AviInv, Recorded
  <2> QED BY <1>1, <2>1, <2>3, DrainStep
<1>3. CASE ~(ring.count > 0)
  <2>1. ring' = NoTap /\ stage' = "close" /\ avi' = avi /\ dropped' = dropped
    BY <1>3 DEF Flush
  <2>2. ring.count \in Nat
    <3>1. ring \in Rings
      BY DEF AviInv, Recorded, Ends
    <3> QED BY <3>1, RingIn
  <2>3. ring.count = 0 /\ stage' # "over"
    BY <1>3, <2>1, <2>2
  <2> QED BY <1>1, <2>1, <2>3, TapGoes
<1> QED BY <1>2, <1>3

\* The file is closed.
LEMMA CloseStep == ASSUME AviInv, CloseFile PROVE AviInv'
<1>1. PICK f, g : f = avi /\ g = avi'
  OBVIOUS
<1>2. /\ ring' = ring /\ made' = made /\ dropped' = dropped /\ stage = "close" /\ stage' = "over"
      /\ g = avi_recorder_close(f)
  BY <1>1 DEF CloseFile
<1>3. Whole(f) /\ Growing(f)
  BY <1>1, <1>2 DEF AviInv, Recorded
<1>4. Whole(g) /\ Done(g) /\ g.audio = f.audio /\ g.headless = f.headless /\ g.chunks = f.chunks
  BY <1>2, <1>3, CloseKeeps DEF Rest
<1> QED BY <1>1, <1>2, <1>4 DEF AviInv, Recorded

\* DrainTap needs a recording with sound.
AviStages == stage = "drain" => avi.audio

\* The recorder keeps, through every step of the audio thread and of the main
\* loop, that the file is whole, that the ring holds the end of what was
\* generated, and that nothing else is missing (avi_recorder_add_frame,
\* avi_recorder_add_audio, tap_push, audio_avi_tap_drain, avi_recorder_close).
THEOREM AviInvariance == AviSpec => [](AviInv /\ AviStages)
<1>1. AviInit => AviInv /\ AviStages
  BY InitAvi DEF AviInit, AviStages
<1>2. ASSUME AviInv, AviStages, [AviNext]_aviVars PROVE AviInv' /\ AviStages'
  <2>1. CASE audio_callback
    BY <1>2, <2>1, PushStep DEF audio_callback, AviStages
  <2>2. CASE run_headless_audio_sinks
    <3>1. AviStages'
      BY <2>2 DEF run_headless_audio_sinks, AviStages
    <3> QED BY <1>2, <2>2, <3>1, HeadlessStep
  <2>3. CASE run_video_recording
    <3>1. AviInv'
      BY <1>2, <2>3, PictureStep
    <3>2. AviStages'
      <4>1. CASE ~(~avi.headless /\ avi.audio)
        BY <2>3, <4>1 DEF run_video_recording, AviStages
      <4>2. CASE avi.audio
        <5>1. Whole(avi) /\ Growing(avi)
          BY <1>2, <2>3 DEF AviInv, Recorded, run_video_recording
        <5>2. avi'.audio = avi.audio
          <6>1. avi' = avi \/ \E size \in Nat : avi' = avi_recorder_add_frame(avi, size)
            BY <2>3, AviConstants DEF run_video_recording
          <6>2. PICK f, g : f = avi /\ g = avi'
            OBVIOUS
          <6>3. g = f \/ \E size \in Nat : g = avi_recorder_add_frame(f, size)
            BY <6>1, <6>2
          <6>4. g.audio = f.audio
            BY <5>1, <6>2, <6>3, FrameKeeps DEF Rest
          <6> QED BY <6>2, <6>4
        <5> QED BY <4>2, <5>2 DEF AviStages
      <4> QED BY <4>1, <4>2
    <3> QED BY <3>1, <3>2
  <2>4. CASE DrainTap
    <3>1. /\ stage # "over" /\ stage' # "over" /\ made' = made
          /\ AddSound(Drained(ring))
          /\ ring' = audio_avi_tap_drain(ring) /\ stage' # "drain"
      BY <2>4 DEF DrainTap
    <3>2. avi.audio
      BY <1>2, <2>4 DEF DrainTap, AviStages
    <3>3. AviInv'
      BY <1>2, <3>1, <3>2, DrainStep
    <3> QED BY <3>1, <3>3 DEF AviStages
  <2>5. CASE Finish
    <3>1. avi' = avi /\ ring' = ring /\ made' = made /\ dropped' = dropped
          /\ stage # "over" /\ stage' # "over" /\ stage' # "drain"
      BY <2>5 DEF Finish
    <3> QED BY <1>2, <3>1 DEF AviInv, Recorded, AviStages
  <2>6. CASE Flush
    <3>1. stage' # "drain"
      BY <2>6 DEF Flush
    <3> QED BY <1>2, <2>6, <3>1, FlushStep DEF AviStages
  <2>7. CASE CloseFile
    <3>1. stage' # "drain"
      BY <2>7 DEF CloseFile
    <3> QED BY <1>2, <2>7, <3>1, CloseStep DEF AviStages
  <2>8. CASE UNCHANGED aviVars
    BY <1>2, <2>8 DEF aviVars, AviInv, AviStages
  <2> QED BY <1>2, <2>1, <2>2, <2>3, <2>4, <2>5, <2>6, <2>7, <2>8 DEF AviNext
<1> QED BY <1>1, <1>2, PTL DEF AviSpec

\* What the invariant says of a closed file is what a reader finds in it.
LEMMA WholeIsSound == AviInv => RecordingIsWhole
<1> SUFFICES ASSUME AviInv PROVE RecordingIsWhole
  OBVIOUS
<1>1. PICK s, c : s = SoundOf(avi.chunks) /\ c = ring.count
  OBVIOUS
<1>2. /\ Whole(avi) /\ (stage = "over" => Done(avi)) /\ (stage # "over" => Growing(avi))
      /\ Ends(ring, made) /\ (ring.on => avi.audio) /\ (~ring.on => c = 0)
      /\ IF avi.audio THEN Heard(s, c, made, dropped) ELSE s = <<>>
  BY <1>1 DEF AviInv, Recorded
<1>3. avi.audio \in BOOLEAN /\ avi.closed \in BOOLEAN /\ s \in Seq(Nat)
  BY <1>1, <1>2 DEF Whole, Files
<1>4. DOMAIN s = 1 .. Len(s)
  BY <1>3
<1>5. /\ \A z \in 1 .. Len(s) - 1 : s[z] < s[z + 1]
      /\ dropped = 0 => \A z \in DOMAIN s : s[z] = z
      /\ avi.audio => Len(s) + c + dropped = made
  <2>1. CASE avi.audio
    BY <1>2, <1>4, <2>1 DEF Heard
  <2>2. CASE ~avi.audio
    <3>1. s = <<>> /\ Len(s) = 0
      BY <1>2, <2>2
    <3> QED BY <1>4, <2>2, <3>1
  <2> QED BY <2>1, <2>2
<1>6. ASSUME avi.closed
      PROVE  /\ HeaderIsWhole
             /\ Patched("suggested", avi.maxv) /\ Patched("video_suggested", avi.maxv)
             /\ \A z \in DOMAIN avi.index :
                  /\ avi.index[z].size = avi.chunks[z].size
                  /\ avi.index[z].sound = avi.chunks[z].sound
                  /\ avi.index[z].size <= IF avi.index[z].sound THEN avi.maxa ELSE avi.maxv
             /\ \A p \in avi.patches :
                  \E f \in {"riff_size", "movi_size", "total_frames", "suggested", "video_length",
                            "video_suggested", "audio_length", "audio_suggested"} :
                    p.pos \in PosOf(f)
  <2>1. Done(avi) /\ Whole(avi)
    BY <1>2, <1>6 DEF Growing
  <2>2. \A z \in DOMAIN avi.index :
          /\ avi.index[z].size = avi.chunks[z].size
          /\ avi.index[z].sound = avi.chunks[z].sound
          /\ avi.index[z].size <= IF avi.index[z].sound THEN avi.maxa ELSE avi.maxv
    <3> TAKE z \in DOMAIN avi.index
    <3>1. avi.index \in Seq(Entries)
      BY <1>2 DEF Whole, Files
    <3>2. z \in 1 .. Len(avi.index)
      BY <3>1
    <3>3. Entry(avi, z)
      BY <1>2, <3>2 DEF Whole
    <3> QED BY <3>3 DEF Entry
  <2> QED BY <2>1, <2>2, DoneWhole
<1>7. ASSUME avi.closed, Fits
      PROVE  /\ Patched("riff_size", avi.end - 8)
             /\ Patched("movi_size", ChunkAt(Len(avi.chunks) + 1))
             /\ Patched("total_frames", Pictures) /\ Patched("video_length", Pictures)
             /\ avi.audio => Patched("audio_length", Len(s))
             /\ avi.idx1 = 16 * Len(avi.index)
             /\ \A z \in DOMAIN avi.index : avi.index[z].at = ChunkAt(z)
  <2>1. Done(avi) /\ Whole(avi)
    BY <1>2, <1>7 DEF Growing
  <2>2. \A z : ChunkAt(z) = OffsetOf(avi.chunks, z)
    BY DEF ChunkAt, OffsetOf
  <2>3. PICK e, t, x, k : /\ e = avi.end - 8 /\ t = Total(avi) /\ x = 16 * Len(avi.index)
                          /\ k = Pictures
    OBVIOUS
  <2>4. /\ e \in Nat /\ t \in Nat /\ x \in Nat /\ k \in Nat /\ e < Word
        /\ t <= e /\ x <= e /\ k <= t /\ Len(s) <= t
    <3>1. PICK p, l : p = avi.movi_pos /\ l = Len(avi.index)
      OBVIOUS
    <3>2. p \in Nat /\ l \in Nat /\ t \in Nat /\ k \in Nat /\ k <= t /\ Len(s) <= t
      BY <1>1, <2>1, <2>3, <3>1 DEF Whole, Files, Pictures, Shown
    <3>3. avi.end = p + t + 8 + x /\ x = 16 * l
      BY <2>1, <2>3, <3>1 DEF Done
    <3>4. x \in Nat
      BY <3>2, <3>3
    <3>5. e = p + t + x
      BY <2>3, <3>2, <3>3, <3>4
    <3>6. e < Word
      BY <1>7, <2>3 DEF Fits
    <3> QED BY <3>2, <3>4, <3>5, <3>6
  <2>5. ASSUME NEW n \in Nat, n <= e PROVE Low(n) = n
    <3>1. n < Word /\ 0 \in Nat
      BY <2>4, <2>5, FirstIn
    <3> QED BY <3>1, LowAdds
  <2>6. Len(s) \in Nat /\ Len(s) <= e /\ k <= e /\ e <= e
    BY <1>3, <2>4
  <2>7. Low(e) = e /\ Low(t) = t /\ Low(x) = x /\ Low(k) = k /\ Low(Len(s)) = Len(s)
    BY <2>4, <2>5, <2>6
  <2>8. /\ Patched("riff_size", Low(e)) /\ Patched("movi_size", Low(t))
        /\ Patched("total_frames", avi.frames) /\ Patched("video_length", avi.frames)
        /\ avi.audio => Patched("audio_length", avi.samples)
    BY <2>1, <2>3, DoneWhole
  <2>9. avi.frames = k /\ avi.samples = Len(s) /\ avi.idx1 = x
    BY <1>1, <2>1, <2>3, <2>7 DEF Whole, Done, Pictures, Shown
  <2>10. ChunkAt(Len(avi.chunks) + 1) = t
    BY <2>2, <2>3 DEF Total
  <2>11. ASSUME NEW z \in DOMAIN avi.index PROVE avi.index[z].at = ChunkAt(z)
    <3>1. avi.index \in Seq(Entries)
      BY <1>2 DEF Whole, Files
    <3>2. z \in 1 .. Len(avi.index)
      BY <3>1
    <3>3. Entry(avi, z)
      BY <1>2, <3>2 DEF Whole
    <3>4. PICK o : o = OffsetOf(avi.chunks, z)
      OBVIOUS
    <3>5. avi.index[z].at = Low(o) /\ o \in Nat /\ o <= t
      BY <2>3, <3>3, <3>4 DEF Entry
    <3>6. o <= e
      BY <2>4, <3>5
    <3> QED BY <2>2, <2>5, <3>4, <3>5, <3>6
  <2> QED BY <2>3, <2>7, <2>8, <2>9, <2>10, <2>11
<1> QED BY <1>1, <1>5, <1>6, <1>7 DEF RecordingIsWhole

\* A finished recording is whole: every patched value lies in its field and, as
\* long as 32 bits measure the file, says what the file holds, the index names
\* the chunks that are there, and the sound is all that was generated but what
\* the full ring or a failing index dropped.
THEOREM RecordingWhole == AviSpec => []RecordingIsWhole
BY AviInvariance, WholeIsSound, PTL
=============================================================================
