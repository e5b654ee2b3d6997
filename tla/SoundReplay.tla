---------------------------- MODULE SoundReplay ----------------------------
(***************************************************************************)
(* What the playback of the PSG promises (audio.h): the audio thread       *)
(* replays the register writes of the CPU thread in order, each one once,  *)
(* onto a shadow of the registers.  Only the newest write may be lost.     *)
(*                                                                         *)
(* The shadow may also start from the registers, all at once or one after  *)
(* the other.  A register that is copied may be written, and the write may *)
(* even be lost, before the copy is stored.                                *)
(***************************************************************************)
EXTENDS Sequences, SequencesExt

CONSTANTS Regs, Vals

VARIABLES
  registers,  \* what the program wrote
  play,       \* what is heard
  waiting,    \* the writes between the two, oldest first
  copying,    \* the register that is being copied, as it was read
  lost        \* a write was lost

vars == <<registers, play, waiting, copying, lost>>

Init ==
  /\ registers \in [Regs -> Vals]
  /\ play = registers
  /\ waiting = <<>>
  /\ copying = {}
  /\ lost = FALSE

Write(r, v) ==
  /\ registers' = [registers EXCEPT ![r] = v]
  /\ waiting' = Append(waiting, <<r, v>>)
  /\ UNCHANGED <<play, copying, lost>>

Lose ==
  /\ waiting # <<>>
  /\ waiting' = Front(waiting)
  /\ lost' = TRUE
  /\ UNCHANGED <<registers, play, copying>>

Replay ==
  /\ waiting # <<>>
  /\ play' = [play EXCEPT ![Head(waiting)[1]] = Head(waiting)[2]]
  /\ waiting' = Tail(waiting)
  /\ UNCHANGED <<registers, copying, lost>>

CopyAll ==
  /\ play' = registers
  /\ UNCHANGED <<registers, waiting, copying, lost>>

ReadOne(r) ==
  /\ copying = {}
  /\ copying' = {<<r, registers[r]>>}
  /\ UNCHANGED <<registers, play, waiting, lost>>

StoreOne ==
  /\ \E c \in copying : play' = [play EXCEPT ![c[1]] = c[2]]
  /\ copying' = {}
  /\ UNCHANGED <<registers, waiting, lost>>

Next ==
  \/ \E r \in Regs, v \in Vals : Write(r, v)
  \/ Lose \/ Replay \/ CopyAll
  \/ \E r \in Regs : ReadOne(r)
  \/ StoreOne

Spec == Init /\ [][Next]_vars

=============================================================================
