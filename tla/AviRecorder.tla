---------------------------- MODULE AviRecorder -----------------------------
(***************************************************************************)
(* The video recorder: the AVI file with its back-patched sizes and its    *)
(* index (avi_recorder.c), the ring that carries the sound of the SDL      *)
(* audio thread to the main loop (audio_output.c, the AVI tap), and the    *)
(* main loop that feeds both and finalises the file (main.c).              *)
(*                                                                         *)
(* A sample is its number.  A file is what its bytes mean: the header's    *)
(* fields with their widths, the chunks of the movi list with their sizes, *)
(* and the 32-bit values patched in at their positions.                    *)
(***************************************************************************)
EXTENDS Naturals, Sequences, FiniteSets

CONSTANTS
  TAP_CAP,        \* sample-frames of the ring
  TAP_DRAIN_MAX,  \* sample-frames drained in a frame
  FrameSamples,   \* sample-frames generated in a frame without SDL
  JpegSizes,      \* sizes an encoded image may have
  Word,           \* how many values 32 bits have
  FirstCap,       \* entries of the index when it is first made
  MaxPictures,    \* bound: video frames
  MaxSamples      \* bound: samples generated

ASSUME AviConstants ==
  /\ {TAP_CAP, Word, FirstCap} \subseteq Nat \ {0}
  /\ {TAP_DRAIN_MAX, FrameSamples, MaxPictures, MaxSamples} \subseteq Nat
  \* One chunk is far from 4 GB; the file need not be.
  /\ JpegSizes \subseteq 0 .. Word - 1

VARIABLES
  avi,     \* the recorder and its file
  ring,    \* the tap: tap_buf, tap_tail, tap_count
  made,    \* history: samples generated for the recording
  dropped, \* history: samples dropped, by a full ring or for want of an index
  stage    \* where the main loop is

aviVars == <<avi, ring, made, dropped, stage>>

-----------------------------------------------------------------------------
(* The header, field by field: names, widths and the sizes it announces.   *)

Field(name, w) == [name |-> name, w |-> w, says |-> 0]
Says(name, v) == [name |-> name, w |-> 4, says |-> v]
U32(names) == [i \in DOMAIN names |-> Field(names[i], 4)]
U16(names) == [i \in DOMAIN names |-> Field(names[i], 2)]

Avih == <<Field("avih", 4), Says("avih_size", 56)>>
        \o U32(<<"usec", "max_bps", "padding", "flags", "total_frames", "initial", "streams",
                 "suggested", "width", "height", "r0", "r1", "r2", "r3">>)

Strh(length, suggested) ==
    <<Field("strh", 4), Says("strh_size", 56)>>
    \o U32(<<"type", "handler", "flags">>) \o U16(<<"priority", "language">>)
    \o U32(<<"initial", "scale", "rate", "start", length, suggested, "quality", "sample_size">>)
    \o U16(<<"left", "top", "right", "bottom">>)

BitmapInfo == <<Field("strf", 4), Says("strf_size", 40)>>
              \o U32(<<"size", "width", "height">>) \o U16(<<"planes", "bits">>)
              \o U32(<<"compression", "image", "xppm", "yppm", "used", "important">>)

WaveFormat == <<Field("strf", 4), Says("strf_size", 18)>>
              \o U16(<<"tag", "channels">>) \o U32(<<"per_second", "bytes_per_second">>)
              \o U16(<<"align", "bits", "extra">>)

List(name, size, body) ==
    <<Field("LIST", 4), Says(name, size), Field(name, 4)>> \o body

VideoStrl == List("strl", 116, Strh("video_length", "video_suggested") \o BitmapInfo)
AudioStrl == List("strl", 94, Strh("audio_length", "audio_suggested") \o WaveFormat)

Hdrl(audio) == List("hdrl", IF audio THEN 192 + 102 ELSE 192,
                    Avih \o VideoStrl \o (IF audio THEN AudioStrl ELSE <<>>))

\* All that avi_recorder_open_av writes.
Header(audio) ==
    <<Field("RIFF", 4), Field("riff_size", 4), Field("AVI", 4)>> \o Hdrl(audio)
    \o <<Field("LIST", 4), Field("movi_size", 4), Field("movi", 4)>>

Width(fields) ==
    LET upto[n \in 0 .. Len(fields)] == IF n = 0 THEN 0 ELSE upto[n - 1] + fields[n].w
    IN upto[Len(fields)]

\* The positions close() patches, as the source computes them.
AVI_RIFF_SIZE_POS == 4
AVI_AVIH_TOTALFRAMES_POS == 12 + 8 + 4 + 8 + 16
AVI_AVIH_SUGGBUF_POS == AVI_AVIH_TOTALFRAMES_POS + 12
AVI_STRH_DATA_POS == 12 + 8 + 4 + 64 + 12 + 8
AVI_STRH_LENGTH_POS == AVI_STRH_DATA_POS + 32
AVI_STRH_SUGGBUF_POS == AVI_STRH_DATA_POS + 36
AVI_AUDIO_STRH_DATA_POS == AVI_STRH_DATA_POS + 56 + 8 + 40 + 12 + 8
AVI_AUDIO_STRH_LENGTH_POS == AVI_AUDIO_STRH_DATA_POS + 32
AVI_AUDIO_STRH_SUGGBUF_POS == AVI_AUDIO_STRH_DATA_POS + 36

-----------------------------------------------------------------------------
(* The file.                                                               *)

Larger(a, b) == IF a > b THEN a ELSE b
Even(n) == n + (n % 2)

\* A payload is padded to an even length.
Padded(n) == Even(n)

\* What 32 bits keep of a number: positions in the file have more.
Low(n) == n % Word

Opened(audio, headless) ==
    [audio |-> audio, headless |-> headless, movi_pos |-> Width(Header(audio)) - 4,
     end |-> Width(Header(audio)), frames |-> 0, samples |-> 0, maxv |-> 0, maxa |-> 0, cap |-> 0,
     index |-> <<>>, chunks |-> <<>>, patches |-> {}, idx1 |-> 0, closed |-> FALSE]

\* The index grows when it is full, which takes memory and a capacity in 32 bits.
IndexFull(f) == Len(f.index) >= f.cap
NextCap(f) == IF f.cap = 0 THEN FirstCap ELSE 2 * f.cap
MayIndex(f) == IndexFull(f) => NextCap(f) < Word

\* The index entry is taken before the chunk is written, relative to 'movi'.
Chunk(f, sound, size, data) ==
    [f EXCEPT !.cap = IF IndexFull(f) THEN NextCap(f) ELSE @,
              !.index = Append(@, [at |-> Low(f.end - f.movi_pos), size |-> size, sound |-> sound]),
              !.chunks = Append(@, [sound |-> sound, size |-> size, data |-> data]),
              !.end = @ + 8 + Padded(size)]

avi_recorder_add_frame(f, size) ==
    [Chunk(f, FALSE, size, <<>>) EXCEPT !.maxv = Larger(@, size), !.frames = Low(@ + 1)]

avi_recorder_add_audio(f, data) ==
    IF ~f.audio \/ data = <<>> THEN f
    ELSE [Chunk(f, TRUE, 4 * Len(data), data) EXCEPT
             !.maxa = Larger(@, 4 * Len(data)), !.samples = Low(@ + Len(data))]

\* The index, then the values that were not known when the header was written.
avi_recorder_close(f) ==
    LET movi_size == Low(f.end - f.movi_pos)
        file_end == f.end + 8 + 16 * Len(f.index)
        patch(pos, v) == [pos |-> pos, v |-> v]
    IN [f EXCEPT
          !.end = file_end,
          !.idx1 = Low(16 * Len(f.index)),
          !.patches = {patch(AVI_RIFF_SIZE_POS, Low(file_end - 8)), patch(f.movi_pos - 4, movi_size),
                       patch(AVI_AVIH_TOTALFRAMES_POS, f.frames), patch(AVI_AVIH_SUGGBUF_POS, f.maxv),
                       patch(AVI_STRH_LENGTH_POS, f.frames), patch(AVI_STRH_SUGGBUF_POS, f.maxv)}
                      \cup (IF f.audio THEN {patch(AVI_AUDIO_STRH_LENGTH_POS, f.samples),
                                             patch(AVI_AUDIO_STRH_SUGGBUF_POS, f.maxa)}
                            ELSE {}),
          !.closed = TRUE]

-----------------------------------------------------------------------------
(* The tap.                                                                *)

\* The oldest sample goes when the ring is full.
PushOne(r, s) ==
    [r EXCEPT !.buf[(r.tail + r.count) % TAP_CAP] = s,
              !.tail = IF r.count = TAP_CAP THEN (@ + 1) % TAP_CAP ELSE @,
              !.count = IF @ = TAP_CAP THEN @ ELSE @ + 1]

tap_push(r, first, n) ==
    LET push[i \in 0 .. n] == IF i = 0 THEN r ELSE PushOne(push[i - 1], first + i - 1)
    IN IF r.on THEN push[n] ELSE r

Drained(r) ==
    LET n == IF r.count < TAP_DRAIN_MAX THEN r.count ELSE TAP_DRAIN_MAX
    IN [i \in 1 .. n |-> r.buf[(r.tail + i - 1) % TAP_CAP]]

audio_avi_tap_drain(r) ==
    [r EXCEPT !.tail = (@ + Len(Drained(r))) % TAP_CAP, !.count = @ - Len(Drained(r))]

NoTap == [on |-> FALSE, buf |-> [i \in 0 .. TAP_CAP - 1 |-> 0], tail |-> 0, count |-> 0]
audio_avi_tap_enable == [NoTap EXCEPT !.on = TRUE]

-----------------------------------------------------------------------------
(* The emulator.                                                           *)

\* Without SDL, with SDL and the tap, and with SDL when the tap has no memory.
AviInit ==
    /\ \E mode \in {"headless", "tap", "silent"} :
         /\ avi = Opened(mode # "silent", mode = "headless")
         /\ ring = IF mode = "tap" THEN audio_avi_tap_enable ELSE NoTap
    /\ made = 0
    /\ dropped = 0
    /\ stage = "sound"

\* The audio thread: the callback holds the device lock while it pushes.
audio_callback ==
    /\ ~avi.headless
    /\ \E n \in 1 .. 2 :
         /\ made + n <= MaxSamples
         /\ made' = IF ring.on THEN made + n ELSE made
         /\ ring' = tap_push(ring, made + 1, n)
         /\ dropped' = IF ring.on /\ ring.count + n > TAP_CAP
                    THEN dropped + (ring.count + n - TAP_CAP) ELSE dropped
    /\ UNCHANGED <<avi, stage>>

\* The samples are out of the ring; without room in the index they are lost,
\* and no caller looks.
AddSound(data) ==
    \/ /\ (avi.audio /\ data # <<>>) => MayIndex(avi)
       /\ avi' = avi_recorder_add_audio(avi, data)
       /\ UNCHANGED dropped
    \/ /\ avi.audio /\ data # <<>> /\ IndexFull(avi)
       /\ dropped' = dropped + Len(data)
       /\ UNCHANGED avi

\* Without SDL the frame's sound is generated by the main loop.
run_headless_audio_sinks ==
    /\ stage = "sound"
    /\ avi.headless => made + FrameSamples <= MaxSamples
    /\ stage' = "picture"
    /\ IF avi.headless
       THEN /\ AddSound([i \in 1 .. FrameSamples |-> made + i])
            /\ made' = made + FrameSamples
       ELSE UNCHANGED <<avi, made, dropped>>
    /\ UNCHANGED ring

\* The picture is added unless its encoding or its index entry fails, then what
\* the tap holds.
run_video_recording ==
    /\ stage = "picture"
    /\ \/ /\ avi.frames < MaxPictures /\ MayIndex(avi)
          /\ \E size \in JpegSizes : avi' = avi_recorder_add_frame(avi, size)
       \/ UNCHANGED avi
    /\ stage' = IF ~avi.headless /\ avi.audio THEN "drain" ELSE "sound"
    /\ UNCHANGED <<ring, made, dropped>>

\* The drain holds the device lock; the samples are written without it.
DrainTap ==
    /\ stage = "drain"
    /\ AddSound(Drained(ring))
    /\ ring' = audio_avi_tap_drain(ring)
    /\ stage' = "sound"
    /\ UNCHANGED made

\* The end of the run: the tail of the sound is flushed, then the tap goes.
Finish ==
    /\ stage = "sound"
    /\ stage' = "flush"
    /\ UNCHANGED <<avi, ring, made, dropped>>

\* Variant: one drain is taken for all.
MutFlush ==
    /\ stage = "flush"
    /\ AddSound(Drained(ring))
    /\ ring' = NoTap
    /\ stage' = "close"
    /\ UNCHANGED made

Flush ==
    /\ stage = "flush"
    /\ IF ring.count > 0
       THEN /\ AddSound(Drained(ring))
            /\ ring' = audio_avi_tap_drain(ring)
            /\ UNCHANGED stage
       ELSE /\ ring' = NoTap
            /\ stage' = "close"
            /\ UNCHANGED <<avi, dropped>>
    /\ UNCHANGED made

CloseFile ==
    /\ stage = "close"
    /\ avi' = avi_recorder_close(avi)
    /\ stage' = "over"
    /\ UNCHANGED <<ring, made, dropped>>

AviNext == \/ audio_callback \/ run_headless_audio_sinks \/ run_video_recording
           \/ DrainTap \/ Finish \/ Flush \/ CloseFile

AviSpec == AviInit /\ [][AviNext]_aviVars

-----------------------------------------------------------------------------
(* Properties.                                                             *)

\* Where a reader finds a field, and what it reads there.
PosOf(name) ==
    LET h == Header(avi.audio)
    IN {Width(SubSeq(h, 1, i - 1)) : i \in {j \in DOMAIN h : h[j].name = name}}
Patched(name, v) == \E p \in avi.patches : p.pos \in PosOf(name) /\ p.v = v

\* Where the chunks of the movi list are, from its name on.
ChunkAt(i) ==
    LET upto[n \in 0 .. i - 1] == IF n = 0 THEN 4 ELSE upto[n - 1] + 8 + Even(avi.chunks[n].size)
    IN upto[i - 1]

\* Chunk and list sizes a reader adds up.
HeaderIsWhole ==
    /\ Width(Avih) - 8 = 56
    /\ Width(Strh("length", "suggested")) - 8 = 56
    /\ Width(BitmapInfo) - 8 = 40 /\ Width(WaveFormat) - 8 = 18
    /\ Width(VideoStrl) - 8 = VideoStrl[2].says /\ Width(AudioStrl) - 8 = AudioStrl[2].says
    /\ Width(Hdrl(avi.audio)) - 8 = Hdrl(avi.audio)[2].says

Pictures == Cardinality({i \in DOMAIN avi.chunks : ~avi.chunks[i].sound})
SoundOf(chunks) ==
    LET upto[n \in 0 .. Len(chunks)] == IF n = 0 THEN <<>> ELSE upto[n - 1] \o chunks[n].data
    IN upto[Len(chunks)]

\* A file that 32 bits can measure.
Fits == avi.end - 8 < Word

\* The file a reader gets is whole: each value patched in lies in the field it
\* is meant for, and each index entry has the size and the kind of its chunk;
\* in a file that 32 bits can measure every value says what the file holds and
\* every entry names the place of its chunk.  The sound in the file is what was
\* generated, in order, and all that is missing is what the full ring or a
\* failing index dropped, up to the last sample before the tap was closed
\* (avi_recorder_add_audio, avi_recorder_close, tap_push, the final drain).
RecordingIsWhole ==
    LET sound == SoundOf(avi.chunks) IN
    /\ \A i \in 1 .. Len(sound) - 1 : sound[i] < sound[i + 1]
    /\ dropped = 0 => \A i \in DOMAIN sound : sound[i] = i
    /\ avi.audio => Len(sound) + ring.count + dropped = made
    /\ avi.closed =>
        /\ HeaderIsWhole
        /\ Patched("suggested", avi.maxv) /\ Patched("video_suggested", avi.maxv)
        /\ \A i \in DOMAIN avi.index :
             /\ avi.index[i].size = avi.chunks[i].size
             /\ avi.index[i].sound = avi.chunks[i].sound
             /\ avi.index[i].size <= IF avi.index[i].sound THEN avi.maxa ELSE avi.maxv
        /\ \A p \in avi.patches :
             \E f \in {"riff_size", "movi_size", "total_frames", "suggested", "video_length",
                       "video_suggested", "audio_length", "audio_suggested"} : p.pos \in PosOf(f)
    /\ avi.closed /\ Fits =>
        /\ Patched("riff_size", avi.end - 8)
        /\ Patched("movi_size", ChunkAt(Len(avi.chunks) + 1))
        /\ Patched("total_frames", Pictures) /\ Patched("video_length", Pictures)
        /\ avi.audio => Patched("audio_length", Len(sound))
        /\ avi.idx1 = 16 * Len(avi.index)
        /\ \A i \in DOMAIN avi.index : avi.index[i].at = ChunkAt(i)
=============================================================================
