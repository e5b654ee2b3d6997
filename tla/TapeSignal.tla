----------------------------- MODULE TapeSignal -----------------------------
(***************************************************************************)
(* The cassette at the level of its signal (src/io/cassette.c).  The       *)
(* generator turns the bytes of a tape into half pulses on the line; the   *)
(* capture times rising edge to rising edge and rebuilds the bytes.  The   *)
(* ROM's CSAVE emits the generator's waveform on PB7, which closes the     *)
(* loop between the two.  Both                                             *)
(* run once per instruction of the CPU, so that an edge is seen up to      *)
(* Jitter cycles late, and the generator carries the overshoot over to the *)
(* next half pulse.  A step of this module is an edge of the line: the     *)
(* instructions between two edges change nothing but the count of cycles.  *)
(***************************************************************************)
EXTENDS Integers, Sequences

CONSTANTS
    SignalTapes,   \* the tapes that may be played: sequences of bytes
    Leader,        \* CAS_LEADER_SYNCS, small
    Jitter         \* how late an edge may be seen, in cycles

VARIABLES
    cas,       \* cassette_t
    cap,       \* tape_capture_t
    late       \* how late the last edge came: -cyc_to_edge before += dur

signalVars == <<cas, cap, late>>

CAS_HALF_ONE == 208
CAS_HALF_LONG == 416
CAS_FRAME_BITS == 14
CAS_SYNC_BYTE == 22
CAS_PERIOD_THRESH == 512

BitOf(byte, i) == (byte \div 2^i) % 2

Ones(byte) == BitOf(byte, 0) + BitOf(byte, 1) + BitOf(byte, 2) + BitOf(byte, 3)
            + BitOf(byte, 4) + BitOf(byte, 5) + BitOf(byte, 6) + BitOf(byte, 7)

\* A parity over nine bits that is even, as an earlier version wrote it.
MutEncode(byte) ==
    [i \in 0 .. CAS_FRAME_BITS - 1 |->
        CASE i = 0 -> 0
          [] i \in 1 .. 8 -> BitOf(byte, i - 1)
          [] i = 9 -> Ones(byte) % 2
          [] OTHER -> 1]

\* A frame: start bit, data with the least significant bit first, odd parity
\* and four stop bits.
cassette_encode_frame(byte) ==
    [i \in 0 .. CAS_FRAME_BITS - 1 |->
        CASE i = 0 -> 0
          [] i \in 1 .. 8 -> BitOf(byte, i - 1)
          [] i = 9 -> 1 - (Ones(byte) % 2)
          [] OTHER -> 1]

\* cassette_signal_begin rewinds: a leader of sync bytes, then the buffer.
cassette_rewind(tape) ==
    [buf |-> tape, byte_pos |-> 0, bit_pos |-> CAS_FRAME_BITS,
     frame |-> cassette_encode_frame(0), half |-> 0, leader_left |-> Leader,
     level |-> TRUE, finished |-> FALSE]

tape_capture_begin ==
    [primed |-> FALSE, last |-> FALSE, have_prev |-> FALSE, since |-> 0,
     state |-> "hunt", bitcount |-> 0, cur_byte |-> 0, out |-> <<>>]

SignalInit ==
    /\ \E t \in SignalTapes : cas = cassette_rewind(t)
    /\ cap = tape_capture_begin
    /\ late = 0

-----------------------------------------------------------------------------
(* The generator.                                                          *)

\* The frame that the next half pulse belongs to, or nothing at the end.
LoadFrame(c) ==
    CASE c.bit_pos < CAS_FRAME_BITS -> c
      [] c.bit_pos >= CAS_FRAME_BITS /\ c.leader_left > 0 ->
            [c EXCEPT !.leader_left = @ - 1, !.frame = cassette_encode_frame(CAS_SYNC_BYTE),
                      !.bit_pos = 0, !.half = 0]
      [] c.bit_pos >= CAS_FRAME_BITS /\ c.leader_left = 0 /\ c.byte_pos < Len(c.buf) ->
            [c EXCEPT !.byte_pos = @ + 1, !.frame = cassette_encode_frame(c.buf[c.byte_pos + 1]),
                      !.bit_pos = 0, !.half = 0]
      [] OTHER -> [c EXCEPT !.finished = TRUE, !.level = TRUE]

\* The half pulse that starts now: its level, and what follows it.
cassette_step(c) ==
    LET f == LoadFrame(c) IN
    IF f.finished THEN f
    ELSE IF f.half = 0 THEN [f EXCEPT !.level = FALSE, !.half = 1]
    ELSE [f EXCEPT !.level = TRUE, !.half = 0, !.bit_pos = @ + 1]

\* How long the half pulse lasts: the second half carries the bit.
Duration(c) ==
    IF c.half = 1 \/ c.frame[c.bit_pos - 1] = 1 THEN CAS_HALF_ONE ELSE CAS_HALF_LONG

-----------------------------------------------------------------------------
(* The capture.                                                            *)

\* One decoded bit: hunt the start bit, take eight data bits, burn the parity.
tape_capture_bit(tc, bit) ==
    CASE tc.state = "hunt" ->
            IF bit = 0 THEN [tc EXCEPT !.state = "data", !.bitcount = 0, !.cur_byte = 0] ELSE tc
      [] tc.state = "data" ->
            LET b == (tc.cur_byte \div 2) + bit * 128 IN
            IF tc.bitcount + 1 < 8
            THEN [tc EXCEPT !.cur_byte = b, !.bitcount = @ + 1]
            ELSE [tc EXCEPT !.cur_byte = b, !.state = "burn", !.out = Append(@, b)]
      [] OTHER -> [tc EXCEPT !.state = "hunt"]

\* One sample: the first seeds the level, the first rising edge the time; of
\* the others only rising edges count.  since is cyc - prev_edge_cyc.
tape_capture_sample(tc, pb7, elapsed) ==
    LET t == [tc EXCEPT !.last = pb7, !.since = @ + elapsed]
        edge == ~tc.last /\ pb7
    IN IF ~tc.primed THEN [tc EXCEPT !.primed = TRUE, !.last = pb7]
       ELSE IF ~edge THEN t
       ELSE IF ~tc.have_prev THEN [t EXCEPT !.have_prev = TRUE, !.since = 0]
       ELSE [tape_capture_bit(t, IF t.since < CAS_PERIOD_THRESH THEN 1 ELSE 0)
                EXCEPT !.since = 0]

\* cassette_tick and tape_capture_sample, at the end of an instruction in
\* which the half pulse ran out, o cycles late.
cassette_tick ==
    /\ ~cas.finished
    /\ \E o \in 0 .. Jitter :
        LET c == cassette_step(cas)
            \* the first edge comes at once: cyc_to_edge starts at 0
            dur == IF cas.half = 0 /\ cas.bit_pos = CAS_FRAME_BITS /\ cas.leader_left = Leader
                   THEN 0 ELSE Duration(cas)
        IN /\ cas' = c
           /\ late' = o
           /\ cap' = tape_capture_sample(cap, c.level, dur - late + o)

SignalNext == cassette_tick

-----------------------------------------------------------------------------
(* Properties.                                                             *)

Played == [i \in 1 .. Leader + Len(cas.buf) |->
              IF i <= Leader THEN CAS_SYNC_BYTE ELSE cas.buf[i - Leader]]

\* Every frame carries an odd number of ones in data and parity: ROM 1.1
\* checks it and reports "Errors found" otherwise (cassette_encode_frame).
FramesAreOdd ==
    LET f == cas.frame IN
    (f[1] + f[2] + f[3] + f[4] + f[5] + f[6] + f[7] + f[8] + f[9]) % 2 = 1

\* Whatever the instructions' lengths do to the edges, the capture rebuilds
\* the bytes that the generator plays, in order and none too many, and has
\* all of them at the end of the tape (cassette_step, tape_capture_bit,
\* tape_capture_sample).
SignalIsDecoded ==
    /\ FramesAreOdd
    /\ Len(cap.out) <= Len(Played)
    /\ \A i \in 1 .. Len(cap.out) : cap.out[i] = Played[i]
    /\ cas.finished => Len(cap.out) = Len(Played)
=============================================================================
