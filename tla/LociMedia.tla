------------------------------ MODULE LociMedia ------------------------------
(***************************************************************************)
(* The media of the LOCI (loci_bus.c, op_mount and op_umount of            *)
(* loci_fs.c): the images its drives hold in memory, the pointer its       *)
(* floppy controller keeps into the selected one, and the tape with the    *)
(* command register that waits for the motor.                              *)
(*                                                                         *)
(* The content of an image, or of the file it comes from, is the number of *)
(* writes it has seen; Torn is that of a file written in part.  A buffer   *)
(* is a number; a freed one may be reused.                                 *)
(***************************************************************************)
EXTENDS Integers, FiniteSetsExt

CONSTANTS
    Drive,      \* the drives (4 in the code)
    Raw, Mfm,   \* host files: written back, or kept for the session only
    OnCard,       \* files of the SD image: mounted as a temporary copy
    MaxWrites,  \* bound: writes to one image
    TapeLen,    \* bytes of the tape file at mount
    LeadIn,     \* synthetic bytes after a rewind (8)
    FrameBits,  \* bits of an encoded byte (14)
    OverMount   \* a drive or a file that is in use may be mounted again

ASSUME LociMediaAssumption ==
    /\ {MaxWrites, TapeLen, LeadIn, FrameBits} \subseteq Nat \ {0} /\ OverMount \in BOOLEAN

VARIABLES
    img,    \* per drive: the buffer (0: none), its file ("web": none), its content
    host,   \* the content of each file
    want,   \* history: the writes made to each file through an image
    warned, \* history: the files of which the log said they were not, or not wholly, written back
    fdc,    \* dsk_selected, the buffer the controller points to, intrq, intena, the CPU's bit
    tap     \* the tape
mediaVars == <<img, host, want, warned, fdc, tap>>

File == Raw \cup Mfm \cup OnCard
Torn == -1
Outcome == {"saved", "refused", "short"}
Mounted(f) == \E d \in Drive : img[d].file = f
NoImage == [buf |-> 0, file |-> "", ver |-> 0]
Buffers == {img[d].buf : d \in Drive} \ {0}
NewBuf(im) == Min((1 .. Cardinality(Drive) + 1) \ {im[d].buf : d \in Drive})
NoTape == [fp |-> FALSE, size |-> 0, at |-> 0, lead |-> 0, bit |-> 0, cmd |-> "", motor |-> FALSE, got |-> ""]

MediaInit ==
    /\ img = [d \in Drive |-> NoImage]
    /\ host = [f \in File |-> 0] /\ want = [f \in File |-> 0] /\ warned = {}
    /\ fdc = [sel |-> Min(Drive), disk |-> 0, intrq |-> FALSE, intena |-> FALSE, irq |-> FALSE]
    /\ tap = NoTape

-----------------------------------------------------------------------------
(* Disks.                                                                  *)

\* loci_apply_dsk_selection: the controller takes the selected drive's buffer.
loci_apply_dsk_selection(k, im) == [k EXCEPT !.disk = im[k.sel].buf]

\* loci_dsk_flush of some drives, in their order: MFM and web images have nowhere to
\* go, and the temporary copy of a card's file takes the writes of its image.  A file
\* that cannot be opened, or is written short, is only reported.
loci_dsk_flush(D, how) ==
    LET back == {d \in D : img[d].buf # 0 /\ img[d].file \in Raw}
        wrote(f) == {d \in back : img[d].file = f /\ how[d] # "refused"}
    IN /\ host' = [f \in File |-> IF wrote(f) = {} THEN host[f]
                                  ELSE IF how[Max(wrote(f))] = "short" THEN Torn
                                  ELSE img[Max(wrote(f))].ver]
       /\ warned' = warned \cup {img[d].file : d \in {e \in back : how[e] # "saved"}}

\* loci_dsk_open: what the drive held is freed, unsaved, before the file is read, which
\* may fail.
loci_dsk_open(d, f, readable) ==
    LET gone == [img EXCEPT ![d] = NoImage]
        im == [img EXCEPT ![d] = [buf |-> NewBuf(gone), file |-> f, ver |-> host[f]]]
    IN IF ~readable THEN img' = gone /\ UNCHANGED fdc
       ELSE /\ img' = im
            /\ fdc' = IF fdc.sel = d THEN loci_apply_dsk_selection(fdc, im) ELSE fdc

\* loci_dsk_open_web: the header is fetched before anything is freed.
loci_dsk_open_web(d) ==
    LET im == [img EXCEPT ![d] = [buf |-> NewBuf([img EXCEPT ![d] = NoImage]), file |-> "web", ver |-> 0]]
    IN /\ img' = im
       /\ fdc' = IF fdc.sel = d THEN loci_apply_dsk_selection(fdc, im) ELSE fdc

\* A mount.  A name that is not found, a copy that cannot be made out of the SD image
\* and a server that does not answer change nothing.  A file that no drive held starts
\* from what is there: its history does too.
op_mount(d, f, readable) ==
    /\ OverMount \/ (img[d].buf = 0 /\ ~Mounted(f))
    /\ IF f = "web" THEN readable /\ loci_dsk_open_web(d) ELSE loci_dsk_open(d, f, readable)
    /\ IF f \in Raw /\ readable /\ ~Mounted(f)
       THEN want' = [want EXCEPT ![f] = host[f]] /\ warned' = warned \ {f}
       ELSE UNCHANGED <<want, warned>>
    /\ UNCHANGED <<host, tap>>

\* op_umount -> loci_dsk_close: the image is freed whatever became of the write-back.
loci_dsk_close(d, how) ==
    /\ loci_dsk_flush({d}, how)
    /\ img' = [img EXCEPT ![d] = NoImage]
    /\ fdc' = IF fdc.sel = d THEN [fdc EXCEPT !.disk = 0] ELSE fdc
    /\ UNCHANGED <<want, tap>>

\* A write to $0314: interrupt enable and drive; the CPU's bit is recomputed.
loci_dsk_write(d, ena) ==
    LET k == IF d = fdc.sel THEN fdc ELSE loci_apply_dsk_selection([fdc EXCEPT !.sel = d], img)
    IN /\ fdc' = [k EXCEPT !.intena = ena, !.irq = ena /\ fdc.intrq]
       /\ UNCHANGED <<img, host, want, warned, tap>>

\* The controller ends a command, or its status is read.
Intrq(v) ==
    /\ fdc.intrq # v
    /\ fdc' = [fdc EXCEPT !.intrq = v, !.irq = v /\ (@ \/ fdc.intena)]
    /\ UNCHANGED <<img, host, want, warned, tap>>

\* The controller writes a sector into the buffer it points to; that mends no torn file.
WriteSector ==
    /\ fdc.disk # 0
    /\ \E d \in Drive : img[d].buf = fdc.disk /\ img[d].ver < MaxWrites
        /\ LET v == IF img[d].ver = Torn THEN Torn ELSE img[d].ver + 1
           IN /\ img' = [img EXCEPT ![d].ver = v]
              /\ want' = IF img[d].file \in Raw THEN [want EXCEPT ![img[d].file] = v] ELSE want
    /\ UNCHANGED <<host, warned, fdc, tap>>

\* F5: the CPU's bits are cleared, the controller and the mounts stay.
ResetCpu ==
    /\ fdc.irq /\ fdc' = [fdc EXCEPT !.irq = FALSE]
    /\ UNCHANGED <<img, host, want, warned, tap>>

-----------------------------------------------------------------------------
(* The tape.                                                               *)

loci_tap_open ==
    /\ tap' = [NoTape EXCEPT !.fp = TRUE, !.size = TapeLen, !.cmd = tap.cmd, !.motor = tap.motor]
    /\ UNCHANGED <<img, host, want, warned, fdc>>
loci_tap_close ==
    /\ tap.fp /\ tap' = [tap EXCEPT !.fp = FALSE, !.size = 0, !.at = 0]
    /\ UNCHANGED <<img, host, want, warned, fdc>>

\* tap_read_byte_host: the lead-in, then the file, then nothing.
ReadByte(t) ==
    IF ~t.fp THEN [t EXCEPT !.got = "none"]
    ELSE IF t.lead < LeadIn THEN [t EXCEPT !.lead = @ + 1, !.got = "sync"]
    ELSE IF t.at = t.size THEN [t EXCEPT !.got = "none"]
    ELSE [t EXCEPT !.at = @ + 1, !.got = "byte"]

\* tap_exec_cmd: REW and FFW always run, the others wait for the motor.
Protected == {"play", "bit", "rec"}
tap_exec_cmd(t) ==
    LET done == [t EXCEPT !.cmd = ""]
    IN CASE t.cmd \in Protected /\ ~t.motor -> t
         [] t.cmd = "rew" -> IF t.fp THEN [done EXCEPT !.at = 0, !.bit = 0, !.lead = 0] ELSE done
         [] t.cmd = "ffw" -> IF t.fp THEN [done EXCEPT !.at = t.size] ELSE done
         [] t.cmd = "play" -> ReadByte(done)
         [] t.cmd = "bit" -> [(IF t.bit = 0 THEN ReadByte(done) ELSE done) EXCEPT !.bit = (t.bit + 1) % FrameBits]
         [] t.cmd = "rec" -> IF t.fp /\ t.at < TapeLen + MaxWrites
                             THEN [done EXCEPT !.at = @ + 1, !.size = Max({t.size, t.at + 1})] ELSE done
         [] OTHER -> done

\* $0315: the command is latched, then tried.
loci_tap_write(c) ==
    /\ tap' = tap_exec_cmd([tap EXCEPT !.cmd = c])
    /\ UNCHANGED <<img, host, want, warned, fdc>>
loci_tap_motor(on) ==
    /\ tap.motor # on
    /\ LET t == [tap EXCEPT !.motor = on]
       IN tap' = IF on /\ tap.cmd # "" THEN tap_exec_cmd(t) ELSE t
    /\ UNCHANGED <<img, host, want, warned, fdc>>

\* The position is clamped to the last byte; a seek to 0 brings the lead-in back.
op_tap_seek(p) ==
    /\ tap.fp
    /\ LET q == IF tap.size > 0 /\ p >= tap.size THEN tap.size - 1 ELSE p
       IN tap' = [tap EXCEPT !.at = q, !.lead = IF q = 0 THEN 0 ELSE @]
    /\ UNCHANGED <<img, host, want, warned, fdc>>

\* Every drive is flushed and freed; the device is gone.
loci_cleanup(how) ==
    /\ loci_dsk_flush(Drive, how)
    /\ img' = [d \in Drive |-> NoImage] /\ fdc' = [fdc EXCEPT !.disk = 0]
    /\ tap' = NoTape /\ UNCHANGED want

DiskNext ==
    \/ \E d \in Drive, f \in File \cup {"web"}, readable \in BOOLEAN : op_mount(d, f, readable)
    \/ \E how \in [Drive -> Outcome] : loci_cleanup(how) \/ \E d \in Drive : loci_dsk_close(d, how)
    \/ \E d \in Drive, ena \in BOOLEAN : loci_dsk_write(d, ena)
    \/ \E v \in BOOLEAN : Intrq(v)
    \/ WriteSector \/ ResetCpu
TapeNext ==
    \/ loci_tap_open \/ loci_tap_close
    \/ \E c \in Protected \cup {"rew", "ffw"} : loci_tap_write(c)
    \/ \E on \in BOOLEAN : loci_tap_motor(on)
    \/ \E p \in 0 .. TapeLen : op_tap_seek(p)

-----------------------------------------------------------------------------
\* The controller never points to a buffer that was freed or that another drive holds,
\* and the CPU's interrupt bit never outlives what raised it.
ControllerHoldsDrive ==
    /\ fdc.disk = img[fdc.sel].buf
    /\ \A d, e \in Drive : d # e /\ img[d].buf # 0 => img[d].buf # img[e].buf
    /\ fdc.irq => fdc.intrq

\* Nothing written to a raw image is lost without a word: a file that no drive holds has
\* every write that went through one since it was mounted, unless the log says that it
\* was not written back.
WritesReachTheFile ==
    \A f \in Raw : Mounted(f) \/ f \in warned \/ host[f] = want[f]

\* The completion handshake of $0315: a command is left pending only while the motor
\* is off and the command needs it; the position stays within the tape.
TapeHandshake ==
    /\ tap.cmd # "" => tap.cmd \in Protected /\ ~tap.motor
    /\ tap.at <= tap.size /\ tap.bit \in 0 .. FrameBits - 1

MediaIsSafe == ControllerHoldsDrive /\ WritesReachTheFile /\ TapeHandshake
=============================================================================
