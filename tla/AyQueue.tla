------------------------------ MODULE AyQueue ------------------------------
(***************************************************************************)
(* The register writes of the PSG on their way from the CPU thread to the  *)
(* audio thread (audio/ay3891x.c): a lock-free ring with one producer,     *)
(* ay_write_data_timed, and one consumer, ay_generate.                     *)
(*                                                                         *)
(* A step is at most one access to memory that both threads use; the       *)
(* orderings of the code (acquire, release) make such steps appear in      *)
(* order to the other thread.  The tone, noise and envelope generators are *)
(* left out: play is the shadow of the registers that drives them.         *)
(***************************************************************************)
EXTENDS Integers, Sequences

CONSTANTS
  Regs,      \* the sound registers, 0 to 13 in the code
  Vals,      \* their values
  FirstReg,  \* register 0
  Zero,      \* the value after ay_init
  Size,      \* AY_EVENT_QUEUE_SIZE
  Samples,   \* num_samples, the length of a buffer
  MaxCycle   \* bound on the CPU's cycle counter

ASSUME ZeroAssumption == FirstReg \in Regs /\ Zero \in Vals
ASSUME SizeAssumption == Size \in Nat /\ Size >= 2
ASSUME SamplesAssumption == Samples \in Nat \ {0}
ASSUME MaxCycleAssumption == MaxCycle \in Nat

VARIABLES
  registers,   \* the authoritative registers
  cycles,      \* cpu.cycles
  wpc,         \* where the CPU thread is in ay_write_data_timed
  wev,         \* the event it writes
  seeded,      \* play_seeded
  timed,       \* timed_mode
  evq,         \* the ring
  evq_head,    \* next slot to write
  evq_tail,    \* next slot to read
  cur_cycle,   \* cycle of the last write that was queued
  gpc,         \* where the audio thread is in ay_generate
  left,        \* registers that mirror_main_to_play has still to copy
  held,        \* the one that it has read and not yet stored
  ev,          \* next slot to replay
  head,        \* evq_head as the audio thread saw it
  span,        \* the cycles the buffer covers
  i,           \* samples produced
  last_gen_cycle,
  play,        \* play.sregs
  lost         \* history: a write found the ring full

cpuVars == <<registers, cycles, wpc, wev>>
modeVars == <<seeded, timed>>
audioVars == <<gpc, left, held, ev, head, span, i, last_gen_cycle>>
vars == <<cpuVars, modeVars, evq, evq_head, evq_tail, cur_cycle, audioVars,
          play, lost>>

Slots == 0 .. Size - 1
Cycles == 0 .. MaxCycle
Event == [cycle : Cycles, reg : Regs, val : Vals]

\* Variant: the index is not masked.
SuccUnmasked(s) == s + 1

\* The slot after s.
Succ(s) == IF s + 1 = Size THEN 0 ELSE s + 1

NoSpan == [start |-> 0, end |-> 0]

\* The zeroes of a slot that was never written.  They also stand for a local
\* variable of a function that has returned.
NoEvent == [cycle |-> 0, reg |-> FirstReg, val |-> Zero]

\* ay_init
Init ==
  /\ registers = [r \in Regs |-> Zero]
  /\ cycles = 0
  /\ wpc = "idle"
  /\ wev = NoEvent
  /\ evq = [s \in Slots |-> NoEvent]
  /\ seeded = FALSE
  /\ timed = FALSE
  /\ evq_head = 0
  /\ evq_tail = 0
  /\ cur_cycle = 0
  /\ gpc = "idle"
  /\ left = {}
  /\ held = {}
  /\ ev = 0
  /\ head = 0
  /\ span = NoSpan
  /\ i = 0
  /\ last_gen_cycle = 0
  /\ play = registers
  /\ lost = FALSE

-----------------------------------------------------------------------------
(* The CPU thread: ay_write_data_timed *)

\* The authoritative register comes first.
WriteRegister(r, v) ==
  /\ wpc = "idle"
  /\ registers' = [registers EXCEPT ![r] = v]
  /\ wev' = [cycle |-> cycles, reg |-> r, val |-> v]
  /\ wpc' = "seed"
  /\ UNCHANGED <<cycles, modeVars, evq, evq_head, evq_tail, cur_cycle,
                 audioVars, play, lost>>

\* The first timed write seeds the shadow and turns the timed path on.
seed_play ==
  /\ wpc = "seed"
  /\ play' = IF seeded THEN play ELSE registers
  /\ seeded' = TRUE
  /\ timed' = TRUE
  /\ wpc' = "check"
  /\ UNCHANGED <<registers, cycles, wev, evq, evq_head, evq_tail, cur_cycle,
                 audioVars, lost>>

\* Variant: the slot that keeps full apart from empty is used too.
CheckAllowsLast ==
  /\ wpc = "check"
  /\ wpc' = "fill"
  /\ UNCHANGED <<registers, cycles, wev, modeVars, evq, evq_head, evq_tail,
                 cur_cycle, audioVars, play, lost>>

\* A full ring drops the write.
CheckRoom ==
  /\ wpc = "check"
  /\ IF Succ(evq_head) = evq_tail
     THEN wpc' = "idle" /\ wev' = NoEvent /\ lost' = TRUE
     ELSE wpc' = "fill" /\ UNCHANGED <<wev, lost>>
  /\ UNCHANGED <<registers, cycles, modeVars, evq, evq_head, evq_tail,
                 cur_cycle, audioVars, play>>

FillSlot ==
  /\ wpc = "fill"
  /\ evq' = [evq EXCEPT ![evq_head] = wev]
  /\ wpc' = "publish"
  /\ UNCHANGED <<registers, cycles, wev, modeVars, evq_head, evq_tail,
                 cur_cycle, audioVars, play, lost>>

PublishHead ==
  /\ wpc = "publish"
  /\ evq_head' = Succ(evq_head)
  /\ wpc' = "stamp"
  /\ UNCHANGED <<registers, cycles, wev, modeVars, evq, evq_tail, cur_cycle,
                 audioVars, play, lost>>

StampCycle ==
  /\ wpc = "stamp"
  /\ cur_cycle' = wev.cycle
  /\ wev' = NoEvent
  /\ wpc' = "idle"
  /\ UNCHANGED <<registers, cycles, modeVars, evq, evq_head, evq_tail,
                 audioVars, play, lost>>

WriteStep == seed_play \/ CheckRoom \/ FillSlot \/ PublishHead \/ StampCycle

\* Time passes between two writes; a reset of the CPU starts it again.
CpuTime ==
  /\ wpc = "idle"
  /\ cycles' \in {0, cycles + 1} \cap Cycles
  /\ UNCHANGED <<registers, wpc, wev, modeVars, evq, evq_head, evq_tail,
                 cur_cycle, audioVars, play, lost>>

-----------------------------------------------------------------------------
(* The audio thread: ay_generate *)

GenerateBegin ==
  /\ gpc = "idle"
  /\ IF timed
     THEN gpc' = "head" /\ ev' = evq_tail /\ UNCHANGED left
     ELSE gpc' = "mirror" /\ left' = Regs /\ UNCHANGED ev
  /\ UNCHANGED <<cpuVars, modeVars, evq, evq_head, evq_tail, cur_cycle, held,
                 head, span, i, last_gen_cycle, play, lost>>

\* The immediate path copies the registers byte by byte: a byte is read and
\* then stored, with the CPU thread in between.
mirror_main_to_play ==
  /\ gpc = "mirror"
  /\ \/ /\ left = {} /\ held = {}
        /\ gpc' = "idle"
        /\ UNCHANGED <<left, held, play>>
     \/ \E r \in left :
          /\ held = {}
          /\ held' = {<<r, registers[r]>>}
          /\ left' = left \ {r}
          /\ UNCHANGED <<gpc, play>>
     \/ \E c \in held :
          /\ play' = [play EXCEPT ![c[1]] = c[2]]
          /\ held' = {}
          /\ UNCHANGED <<gpc, left>>
  /\ UNCHANGED <<cpuVars, modeVars, evq, evq_head, evq_tail, cur_cycle, ev,
                 head, span, i, last_gen_cycle, lost>>

LoadHead ==
  /\ gpc = "head"
  /\ head' = evq_head
  /\ gpc' = "span"
  /\ UNCHANGED <<cpuVars, modeVars, evq, evq_head, evq_tail, cur_cycle, left,
                 held, ev, span, i, last_gen_cycle, play, lost>>

\* From the end of the previous buffer to the last write.
LoadSpan ==
  /\ gpc = "span"
  /\ LET start == IF last_gen_cycle = 0 /\ head # ev
                  THEN evq[ev].cycle ELSE last_gen_cycle
     IN span' = [start |-> IF start > cur_cycle THEN cur_cycle ELSE start,
                 end |-> cur_cycle]
  /\ i' = 0
  /\ gpc' = "render"
  /\ UNCHANGED <<cpuVars, modeVars, evq, evq_head, evq_tail, cur_cycle, left,
                 held, ev, head, last_gen_cycle, play, lost>>

\* Variant: the offset is not clamped to the last sample.
OffsetUnclamped(c) ==
  LET length == span.end - span.start
      rel == IF c > span.start THEN c - span.start ELSE 0
  IN IF length = 0 THEN 0 ELSE (rel * Samples) \div length

\* The sample at which an event of cycle c is due.
Offset(c) ==
  LET length == span.end - span.start
      rel == IF c > span.start THEN c - span.start ELSE 0
      o == (rel * Samples) \div length
  IN IF length = 0 THEN 0 ELSE IF o >= Samples THEN Samples - 1 ELSE o

Due == ev # head /\ Offset(evq[ev].cycle) <= i

\* Variant: one event is replayed and the others of the buffer are skipped.
ReplayOnlyFirst ==
  /\ gpc = "render" /\ i < Samples
  /\ Due
  /\ play' = [play EXCEPT ![evq[ev].reg] = evq[ev].val]
  /\ UNCHANGED <<cpuVars, modeVars, evq, evq_head, evq_tail, cur_cycle, gpc,
                 left, held, head, span, i, last_gen_cycle, lost>>
  /\ ev' = head

ReplayEvent ==
  /\ gpc = "render" /\ i < Samples
  /\ Due
  /\ play' = [play EXCEPT ![evq[ev].reg] = evq[ev].val]
  /\ ev' = Succ(ev)
  /\ UNCHANGED <<cpuVars, modeVars, evq, evq_head, evq_tail, cur_cycle, gpc,
                 left, held, head, span, i, last_gen_cycle, lost>>

ProduceSample ==
  /\ gpc = "render" /\ i < Samples
  /\ ~Due
  /\ i' = i + 1
  /\ UNCHANGED <<cpuVars, modeVars, evq, evq_head, evq_tail, cur_cycle, gpc,
                 left, held, ev, head, span, last_gen_cycle, play, lost>>

\* Variant: the head is read again, past the events of this buffer.
ReleaseToNewHead ==
  /\ gpc = "render" /\ i = Samples
  /\ evq_tail' = evq_head
  /\ last_gen_cycle' = span.end
  /\ gpc' = "idle"
  /\ ev' = 0 /\ head' = 0 /\ span' = NoSpan /\ i' = 0
  /\ UNCHANGED <<cpuVars, modeVars, evq, evq_head, cur_cycle, left, held, play,
                 lost>>

\* The slots are given back once the buffer is complete.
ReleaseSlots ==
  /\ gpc = "render" /\ i = Samples
  /\ evq_tail' = head
  /\ last_gen_cycle' = span.end
  /\ gpc' = "idle"
  /\ ev' = 0 /\ head' = 0 /\ span' = NoSpan /\ i' = 0
  /\ UNCHANGED <<cpuVars, modeVars, evq, evq_head, cur_cycle, left, held, play,
                 lost>>

GenerateStep ==
  \/ mirror_main_to_play \/ LoadHead \/ LoadSpan
  \/ ReplayEvent \/ ProduceSample \/ ReleaseSlots

ay_generate == GenerateBegin \/ GenerateStep

Next ==
  \/ \E r \in Regs, v \in Vals : WriteRegister(r, v)
  \/ WriteStep
  \/ CpuTime
  \/ ay_generate

Spec == Init /\ [][Next]_vars

\* A write that began ends, and SDL asks for one buffer after the other.
FairSpec == Spec /\ WF_vars(WriteStep) /\ WF_vars(ay_generate)

-----------------------------------------------------------------------------
(* Properties *)

TypeOK ==
  /\ registers \in [Regs -> Vals]
  /\ cycles \in Cycles
  /\ wpc \in {"idle", "seed", "check", "fill", "publish", "stamp"}
  /\ wev \in Event
  /\ seeded \in BOOLEAN
  /\ timed \in BOOLEAN
  /\ evq \in [Slots -> Event]
  /\ evq_head \in Slots
  /\ evq_tail \in Slots
  /\ cur_cycle \in Cycles
  /\ gpc \in {"idle", "mirror", "head", "span", "render"}
  /\ left \subseteq Regs
  /\ held \subseteq Regs \X Vals
  /\ ev \in Slots
  /\ head \in Slots
  /\ span \in [start : Cycles, end : Cycles]
  /\ i \in 0 .. Samples
  /\ last_gen_cycle \in Cycles
  /\ play \in [Regs -> Vals]
  /\ lost \in BOOLEAN

\* Steps from slot a to slot b, and the slot k steps after a.
Dist(a, b) == IF a <= b THEN b - a ELSE b - a + Size
At(a, k) == IF a + k < Size THEN a + k ELSE a + k - Size

\* The next slot to replay: the released ones are behind the tail, the ones
\* of the present buffer behind ev.
Position == IF gpc = "render" THEN ev ELSE evq_tail

\* The audio thread never reads a slot that the CPU thread is writing: the
\* slot at evq_head is none of those from the next one to replay up to the
\* head that ay_generate has seen, however stale both indices are.
SlotsAreOwned ==
  wpc \in {"fill", "publish"} /\ gpc \in {"span", "render"}
    => \A k \in 0 .. Size - 1 :
         k < Dist(Position, head) => At(Position, k) # evq_head

\* Nothing is left over: at the end of a buffer every event of the snapshot
\* has been replayed, also one whose cycle the stale span does not reach
\* ("All snapshot events have been applied", ay_generate).
BufferReplaysAll ==
  gpc = "render" /\ i = Samples => ev = head

\* Playback catches up: when no event is under way and none was lost, what is
\* heard is what the program wrote, whatever happened while the timed path
\* was turned on.
PlaybackCatchesUp ==
  wpc = "idle" /\ gpc = "idle" /\ evq_head = evq_tail /\ ~lost
    => play = registers

\* Both: no event is left over by a buffer, and none that was written is
\* missing once the ring is empty.
PlaybackIsComplete == BufferReplaysAll /\ PlaybackCatchesUp

\* A value that stays in a register is heard in the end, however the CPU
\* thread goes on writing, as long as ay_write_data_timed met no full ring.
WritesAreHeard ==
  \A r \in Regs, v \in Vals :
    <>[](registers[r] = v /\ ~lost) => <>[](play[r] = v)

Queued == [k \in 1 .. Dist(Position, evq_head) |->
            LET e == evq[At(Position, k - 1)] IN <<e.reg, e.val>>]

\* The write under way is the newest one.
Unheard == IF wpc \in {"seed", "check", "fill", "publish"}
           THEN Append(Queued, <<wev.reg, wev.val>>) ELSE Queued

Replay == INSTANCE SoundReplay WITH waiting <- Unheard, copying <- held

\* The ring is the replay that audio.h promises: every queued write once, in
\* order, and only the newest one may be lost.
ImplementsReplay == Replay!Spec

\* The load of a savestate, which the CPU thread does while the audio thread
\* goes on calling ay_generate: nothing pauses it.  The load restores the cycle
\* counter and the registers, then ay_sound_resync copies the registers to the
\* shadow and empties the ring.  The loads during mirror_main_to_play are left
\* out: it copies the new registers next time.
ay_sound_resync ==
  /\ wpc = "idle" /\ gpc # "mirror"
  /\ cycles' \in Cycles
  /\ registers' \in [Regs -> Vals]
  /\ play' = registers'
  /\ evq_tail' = evq_head
  /\ last_gen_cycle' = 0
  /\ seeded' = TRUE
  /\ UNCHANGED <<wpc, wev, timed, evq, evq_head, cur_cycle, gpc, left, held, ev,
                 head, span, i, lost>>

\* With loads, the ring no longer keeps the property below; every theorem about
\* Spec is about the emulator between two loads.
ResyncSpec == Init /\ [][Next \/ ay_sound_resync]_vars

\* After a load the sound is the one of the savestate: "mirror them into the
\* playback shadow and clear the (now meaningless) pending event queue so
\* timing restarts cleanly" (ay_sound_resync).  An ay_generate that is under
\* way still replays its snapshot of the old events onto the new shadow.
SoundIsRestored == timed => PlaybackCatchesUp

=============================================================================
