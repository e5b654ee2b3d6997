-------------------------------- MODULE Tape --------------------------------
(***************************************************************************)
(* Tapes at the level of their bytes: the files that tap.c writes and      *)
(* reads, the hooks of tape_patches.c that give the ROM's CLOAD its bytes  *)
(* and turn its CSAVE into a .tap file, and the deferred fast-load of      *)
(* main.c.  The ROM (external) is a caller: it runs through its tape       *)
(* routines and each hook fires when the program counter reaches the       *)
(* address that rom_patches.c gives for it.                                *)
(*                                                                         *)
(* No LOCI card, no capture and no signal mode: the hooks are live.        *)
(***************************************************************************)
EXTENDS Integers, Sequences

CONSTANTS
    TapeFiles,     \* the tapes that -t may name: sequences of files, whose
                   \* names are shorter than tap_read_header's 15 characters
    Roms,          \* the ROMs that may be fitted: subsets of {"1.0", "1.1"}
    Programs,      \* what the user may type in: files
    MaxTapeOps     \* bound: CSAVEs, CLOADs and programs typed in

VARIABLES
    fitted,    \* emu->rom_patches: the version of the ROM
    ram,       \* the program area, and the ROM's header staging buffer
    deck,      \* tapebuf, tapeoffs, tape_loaded, tape_syncstack; its files
    csave,     \* csave_file, csave_in_progress, csave_snap_valid, ...
    disk,      \* the .tap files that CSAVE wrote on the host, by name
    fast,      \* the deferred fast-load
    pc,        \* where the ROM is
    job,       \* what the ROM does: the name it looks for, the header it read
    want,      \* history: the program that the last CSAVE had to save, {} if
               \* the host refused the file
    ops        \* how many operations the user has started

tapeVars == <<fitted, ram, deck, csave, disk, fast, pc, job, want, ops>>

Sync == 22      \* TAP_SYNC_BYTE
Marker == 36    \* TAP_MARKER

\* The cells of RAM that programs of this model use.
Cells == 1281 .. 1300

Hi(a) == a \div 256
Lo(a) == a % 256
Word(h, l) == h * 256 + l

EndOf(f) == f.start + Len(f.data) - 1

-----------------------------------------------------------------------------
(* tap.c: the format.                                                      *)

tap_write_header(f) ==
    <<Sync, Sync, Sync, Marker, 0, 0, f.type, f.auto,
      Hi(EndOf(f)), Lo(EndOf(f)), Hi(f.start), Lo(f.start), 0>>
    \o f.name \o <<0>>

\* tap_write_header and tap_write_data for every file of the tape.
Image(files) ==
    LET upto[n \in 0 .. Len(files)] ==
            IF n = 0 THEN <<>>
            ELSE upto[n - 1] \o tap_write_header(files[n]) \o files[n].data
    IN upto[Len(files)]

At(t, i) == IF i <= Len(t) THEN t[i] ELSE 0     \* read_byte past the end

skip_sync(t, from) ==
    LET q[i \in from .. Len(t) + 1] ==
            IF i <= Len(t) /\ t[i] = Sync THEN q[i + 1] ELSE i
    IN q[from]

\* Do the addresses at offset p + 4 of the header make a program?
Plausible(t, endAt) ==
    LET end == Word(At(t, endAt), At(t, endAt + 1))
        start == Word(At(t, endAt + 2), At(t, endAt + 3))
    IN start < end /\ start >= 256 /\ end < 49152

IsType(b) == b \in {0, 128, 192}

\* How far the 32 bytes behind the marker go that the reader looks at.
Window(t, p) == IF Len(t) - p + 1 > 32 THEN 32 ELSE Len(t) - p + 1

\* Which of the two header formats, and after how many padding bytes: the
\* 9-byte format first, then each padding with 7 bytes and with 9.
Format(t, p) ==
    LET left == Window(t, p)
        Fits(skip, sz) == /\ skip + 7 <= left
                          /\ IsType(At(t, p + skip))
                          /\ IF sz = 7 THEN Plausible(t, p + skip + 2)
                             ELSE skip > 0 /\ skip + 9 <= left /\ Plausible(t, p + skip + 4)
        order == <<<<0, 7>>, <<1, 7>>, <<1, 9>>, <<2, 7>>, <<2, 9>>,
                   <<3, 7>>, <<3, 9>>, <<4, 7>>, <<4, 9>>>>
        hits == {i \in DOMAIN order : Fits(order[i][1], order[i][2])}
    IN IF left >= 9 /\ IsType(At(t, p)) /\ Plausible(t, p + 4) THEN <<0, 9>>
       ELSE IF hits # {} THEN order[CHOOSE i \in hits : \A j \in hits : i <= j]
       ELSE <<0, 9>>

TAP_NAME_LEN == 16

\* The header that starts at from, and where its data start; ok is FALSE when
\* there is no marker.  The name ends at a zero, which is skipped, or where
\* the field or the window is full.
tap_read_header(t, from) ==
    LET m == skip_sync(t, from)
        fmt == Format(t, m + 1)
        p == m + 1 + fmt[1] + (IF fmt[2] = 9 THEN 2 ELSE 0)
        ends == {p + 7 + TAP_NAME_LEN - 1, m + 1 + Window(t, m + 1)}
        n == CHOOSE i \in p + 7 .. Len(t) + 1 :
                /\ i \in ends \/ t[i] = 0
                /\ \A j \in p + 7 .. i - 1 : j \notin ends /\ t[j] # 0
    IN [ok |-> At(t, m) = Marker,
        type |-> At(t, p), auto |-> At(t, p + 1),
        end |-> Word(At(t, p + 2), At(t, p + 3)),
        start |-> Word(At(t, p + 4), At(t, p + 5)),
        name |-> SubSeq(t, p + 7, n - 1),
        at |-> IF n \in ends THEN n ELSE n + 1]

\* tap_read_data: as many of the bytes as the tape still has.
tap_read_data(t, at, size) ==
    SubSeq(t, at, IF at + size - 1 < Len(t) THEN at + size - 1 ELSE Len(t))

-----------------------------------------------------------------------------
(* The names of CSAVE, as character codes.                                 *)

\* Capitals, digits and _-. are kept, small letters become capitals, the rest
\* is dropped; eleven characters at most.
Cleaned(name) ==
    LET Up(c) == IF c \in 97 .. 122 THEN c - 32 ELSE c
        Kept(c) == c \in 48 .. 57 \cup 65 .. 90 \cup {95, 45, 46}
        s == SelectSeq([i \in DOMAIN name |-> Up(name[i])], Kept)
    IN IF Len(s) < 11 THEN s ELSE SubSeq(s, 1, 11)

CSAVE_NAME == <<67, 83, 65, 86, 69>>
clean_name(name) == IF Cleaned(name) = <<>> THEN CSAVE_NAME ELSE Cleaned(name)

-----------------------------------------------------------------------------
(* main.c: the loading of a tape at start and the deferred fast-load.      *)

NoFast == [pending |-> FALSE, autoexec |-> FALSE, start |-> 0, end |-> 0,
           type |-> 0, auto |-> 0, data |-> <<>>]

NoJob == [name |-> <<>>, head |-> <<>>, got |-> <<>>, addr |-> 0, end |-> 0]

NoHeader == [start |-> 0, end |-> 0, auto |-> 0, type |-> 0]

Empty == [cells |-> [c \in Cells |-> 0], stage |-> NoHeader, name |-> <<>>,
          vartab |-> 0]

\* -t: the whole tape in the buffer.  With -f the first file is buffered for
\* the injection and the tape stands behind it.
TapeInit ==
    /\ fitted \in Roms
    /\ ram = Empty
    /\ csave = [open |-> FALSE, busy |-> FALSE, valid |-> FALSE,
                snap |-> NoHeader, fname |-> <<>>, path |-> <<>>]
    /\ disk = [n \in {Cleaned(p.name) : p \in Programs} |-> <<>>]
    /\ pc = "ready"
    /\ job = NoJob
    /\ want = {}
    /\ ops = 0
    /\ \E files \in TapeFiles :
        \E t \in {Image(files)} :
            \/ /\ fast = NoFast
               /\ deck = [buf |-> t, offs |-> 0, loaded |-> TRUE, sp |-> FALSE, files |-> files]
            \/ \E h \in {tap_read_header(t, 1)} :
                LET d == tap_read_data(t, h.at, h.end - h.start + 1)
                    rest == h.at + Len(d) - 1
                IN /\ h.ok
                   /\ fast = [pending |-> TRUE, autoexec |-> FALSE, start |-> h.start,
                              end |-> h.end, type |-> h.type, auto |-> h.auto, data |-> d]
                   /\ deck = [buf |-> IF rest < Len(t) THEN t ELSE <<>>,
                              offs |-> IF rest < Len(t) THEN rest ELSE 0,
                              loaded |-> rest < Len(t), sp |-> FALSE, files |-> files]

Poke(cells, at, data) ==
    [c \in Cells |-> IF c - at + 1 \in DOMAIN data THEN data[c - at + 1] ELSE cells[c]]

Cell(cells, a) == IF a \in Cells THEN cells[a] ELSE 0

\* The pointers of the lines of a BASIC program, from the text itself.
basic_rechain(cells) ==
    LET Last == 1300
        \* the address after the zero that ends the line whose text starts at a
        after[a \in 1281 .. Last + 6] ==
            IF a > Last \/ cells[a] = 0 THEN a + 1 ELSE after[a + 1]
        chain[p \in 1281 .. Last + 7] ==
            IF p + 4 > Last \/ Cell(cells, p + 1) = 0 THEN {}
            ELSE {<<p, after[p + 4]>>} \cup chain[after[p + 4]]
        ch == chain[1281]
    IN [c \in Cells |->
            IF \E l \in ch : l[1] = c
            THEN Lo((CHOOSE l \in ch : l[1] = c)[2])
            ELSE IF \E l \in ch : l[1] + 1 = c
            THEN Hi((CHOOSE l \in ch : l[1] + 1 = c)[2])
            ELSE cells[c]]

Injected(f) ==
    LET cells == Poke(ram.cells, f.start, f.data) IN
    [ram EXCEPT !.cells = IF f.type = 0 THEN basic_rechain(cells) ELSE cells,
                !.vartab = IF f.type = 0 THEN f.end + 1 ELSE @]

\* Phase 1, after the ROM's RAM test, and phase 2, at the READY prompt: a
\* BASIC program gets its RUN, a machine-code program with the flag its PC.
run_fastload_hooks ==
    /\ pc = "ready"
    /\ \/ /\ fast.pending
          /\ ram' = Injected(fast)
          /\ fast' = [fast EXCEPT !.pending = FALSE, !.autoexec = TRUE]
       \/ /\ fast.autoexec
          /\ UNCHANGED ram
          /\ fast' = [fast EXCEPT !.autoexec = FALSE]
    /\ UNCHANGED <<fitted, deck, csave, disk, pc, job, want, ops>>

-----------------------------------------------------------------------------
(* The user, at the prompt.                                                *)

Prompt == pc = "ready" /\ ~fast.pending /\ ~fast.autoexec /\ ops < MaxTapeOps /\ ops' = ops + 1

\* A program is typed in: it replaces the one in memory.
TypeIn ==
    /\ Prompt
    /\ \E p \in Programs :
        /\ ram' = [ram EXCEPT !.cells = Poke(Empty.cells, p.start, p.data),
                              !.vartab = EndOf(p) + 1]
    /\ UNCHANGED <<fitted, deck, csave, disk, fast, pc, job, want>>

\* CSAVE (external): the ROM stages the header and calls WriteFileHeader.
\* ROM 1.0 stages VARTAB, the first byte after the program, as the end.
CSAVE ==
    /\ Prompt
    /\ ram.vartab # 0
    /\ \E p \in Programs :
        LET end == IF fitted = "1.0" THEN ram.vartab ELSE ram.vartab - 1
            h == [start |-> 1281, end |-> end, auto |-> 0, type |-> 0]
        IN /\ ram' = [ram EXCEPT !.stage = h, !.name = p.name]
           /\ want' = {[name |-> p.name, type |-> 0, auto |-> 0, start |-> 1281,
                        data |-> [i \in 1 .. end - 1280 |-> Cell(ram.cells, 1280 + i)]]}
    /\ pc' = "writefileheader"
    /\ UNCHANGED <<fitted, deck, csave, disk, fast, job>>

\* CLOAD (external): of a name, or of the next file.
CLOAD ==
    /\ Prompt
    /\ pc' = "getsync"
    /\ \E n \in {p.name : p \in Programs} \cup {clean_name(p.name) : p \in Programs} \cup {<<>>} :
         job' = [NoJob EXCEPT !.name = n]
    /\ UNCHANGED <<fitted, ram, deck, csave, disk, fast, want>>

-----------------------------------------------------------------------------
(* tape_patches: CSAVE.                                                    *)

\* The header and the name, before the data loop reuses the staging buffer.
writefileheader_entry ==
    /\ pc = "writefileheader"
    /\ csave' = [csave EXCEPT !.snap = ram.stage, !.fname = ram.name, !.valid = TRUE]
    /\ pc' = "writeleader"
    /\ UNCHANGED <<fitted, ram, deck, disk, fast, job, want, ops>>

\* WriteFileHeader starts with its leader: the file is opened under the name
\* that is left of the program's, and the snapshot is dropped "between
\* CSAVEs".  The host may refuse: nothing is saved then.
writeleader_entry ==
    /\ pc = "writeleader"
    /\ \/ /\ csave.open
          /\ disk' = [disk EXCEPT ![csave.path] = @ \o <<Sync, Sync, Sync>>]
          /\ UNCHANGED <<csave, want>>
       \/ /\ ~csave.open
          /\ csave' = [csave EXCEPT !.open = TRUE, !.busy = TRUE, !.valid = FALSE,
                                    !.path = Cleaned(ram.name)]
          /\ disk' = [disk EXCEPT ![Cleaned(ram.name)] = <<Sync, Sync, Sync>>]
          /\ UNCHANGED want
       \/ /\ ~csave.open
          /\ want' = {}
          /\ UNCHANGED <<csave, disk>>
    /\ pc' = "putbyte"
    /\ UNCHANGED <<fitted, ram, deck, fast, job, ops>>

\* Header and data go through putbyte, which drops them.  The data loop of
\* ROM 1.0 (external) advances the start address in the staging buffer.
putbyte_entry ==
    /\ pc = "putbyte"
    /\ ram' = IF fitted = "1.0" THEN [ram EXCEPT !.stage.start = ram.stage.end] ELSE ram
    /\ pc' = "csave_end"
    /\ UNCHANGED <<fitted, deck, csave, disk, fast, job, want, ops>>

CsaveHeader == IF csave.valid THEN csave.snap ELSE ram.stage

\* csave_end: the tape is rebuilt from RAM, written over the file, if the host
\* opens it again, and put in the deck.  ROM 1.0 comes through here at the end of CLOAD as well.
csave_end ==
    /\ pc = "csave_end"
    /\ pc' = "ready"
    /\ IF ~csave.busy THEN UNCHANGED <<csave, deck, disk, want>>
       ELSE LET h == CsaveHeader
                len == IF h.end - h.start + 1 < 0 THEN 0 ELSE h.end - h.start + 1
                f == [name |-> clean_name(IF csave.valid THEN csave.fname ELSE ram.name),
                      type |-> h.type, auto |-> h.auto, start |-> h.start,
                      data |-> [i \in 1 .. len |-> Cell(ram.cells, h.start + i - 1)]]
                t == Image(<<f>>)
            IN /\ csave' = [csave EXCEPT !.busy = FALSE, !.open = FALSE, !.valid = FALSE]
               /\ \/ disk' = [disk EXCEPT ![csave.path] = t] /\ UNCHANGED want
                  \/ want' = {} /\ UNCHANGED disk
               /\ deck' = [buf |-> t, offs |-> 0, loaded |-> TRUE, sp |-> FALSE,
                           files |-> <<f>>]
    /\ UNCHANGED <<fitted, ram, fast, job, ops>>

-----------------------------------------------------------------------------
(* tape_patches: CLOAD.                                                    *)

\* The next sync byte from here, or the end of the tape.
Scan(from) ==
    LET q[i \in from .. Len(deck.buf)] ==
            IF i < Len(deck.buf) /\ deck.buf[i + 1] # Sync THEN q[i + 1] ELSE i
    IN q[from]

Rest == <<fitted, ram, csave, disk, fast, job, want, ops>>

\* Without a tape, and past its end, the ROM's own routine runs: silence.
getsync_entry ==
    /\ pc = "getsync"
    /\ LET at == Scan(deck.offs) IN
       IF ~deck.loaded THEN pc' = "silence" /\ UNCHANGED deck
       ELSE /\ deck' = [deck EXCEPT !.offs = at, !.sp = IF at < Len(deck.buf) THEN TRUE ELSE @]
            /\ pc' = IF at < Len(deck.buf) THEN "confirm" ELSE "silence"
    /\ UNCHANGED Rest

getsync_loop ==
    /\ pc = "getsync_loop"
    /\ LET at == Scan(deck.offs) IN
       IF ~deck.loaded \/ ~deck.sp THEN pc' = "silence" /\ UNCHANGED deck
       ELSE /\ deck' = [deck EXCEPT !.offs = at, !.sp = FALSE,
                                    !.loaded = at < Len(deck.buf)]
            /\ pc' = IF at < Len(deck.buf) THEN "confirm" ELSE "silence"
    /\ UNCHANGED Rest

NextByte(d) == [d EXCEPT !.offs = @ + 1]

\* What the ROM (external) does with a byte: confirm the sync up to the
\* marker, collect nine header bytes and the name, then store the data.  A
\* byte that is neither sync nor marker sends it back to look for another.
Received(b) ==
    LET h == job.head IN
    \/ /\ pc = "confirm"
       /\ \/ b = Sync /\ pc' = "confirm"
          \/ b = Marker /\ pc' = "header"
          \/ b \notin {Sync, Marker} /\ pc' \in {"getsync", "getsync_loop"}
       /\ job' = [job EXCEPT !.head = <<>>, !.got = <<>>]
       /\ UNCHANGED ram
    \/ /\ pc = "header"
       /\ job' = [job EXCEPT !.head = Append(@, b)]
       /\ pc' = IF Len(h) = 8 THEN "name" ELSE "header"
       /\ ram' = IF Len(h) < 8 THEN ram
                 ELSE [ram EXCEPT !.stage = [start |-> Word(h[7], h[8]), end |-> Word(h[5], h[6]),
                                             auto |-> h[4], type |-> h[3]]]
    \/ /\ pc = "name" /\ b # 0
       /\ job' = [job EXCEPT !.got = Append(@, b)]
       /\ pc' = "name"
       /\ UNCHANGED ram
    \/ /\ pc = "name" /\ b = 0
       /\ IF job.name \in {<<>>, job.got}
          THEN /\ job' = [job EXCEPT !.addr = ram.stage.start, !.end = ram.stage.end]
               /\ pc' = "data"
          ELSE UNCHANGED job /\ pc' = "getsync"
       /\ UNCHANGED ram
    \/ /\ pc = "data"
       /\ ram' = [ram EXCEPT !.cells = Poke(@, job.addr, <<b>>)]
       /\ job' = [job EXCEPT !.addr = @ + 1]
       /\ pc' = IF job.addr = job.end THEN "loaded" ELSE "data"

readbyte_entry ==
    /\ pc \in {"confirm", "header", "name", "data"}
    /\ IF deck.loaded /\ deck.offs < Len(deck.buf)
       THEN /\ deck' = NextByte(deck)
            /\ Received(deck.buf[deck.offs + 1])
       ELSE pc' = "silence" /\ UNCHANGED <<deck, job, ram>>
    /\ UNCHANGED <<fitted, csave, disk, fast, want, ops>>

\* cload_data_rts: the lines of a BASIC program are chained again.
cload_data_rts ==
    /\ pc = "loaded"
    /\ ram' = IF ram.stage.type = 0
              THEN [ram EXCEPT !.cells = basic_rechain(@), !.vartab = ram.stage.end + 1] ELSE ram
    /\ pc' = IF fitted = "1.0" THEN "csave_end" ELSE "ready"
    /\ UNCHANGED <<fitted, deck, csave, disk, fast, job, want, ops>>

\* The user leaves a CLOAD that hears nothing (RESET).
Break ==
    /\ pc = "silence"
    /\ pc' = "ready"
    /\ UNCHANGED <<fitted, ram, deck, csave, disk, fast, job, want, ops>>

TapeNext ==
    \/ run_fastload_hooks
    \/ TypeIn \/ CSAVE \/ CLOAD \/ Break
    \/ writefileheader_entry \/ writeleader_entry \/ putbyte_entry \/ csave_end
    \/ getsync_entry \/ getsync_loop \/ readbyte_entry \/ cload_data_rts

-----------------------------------------------------------------------------
(* Properties.                                                             *)

\* What memory holds after a file, whichever way it came in.
InMemory(f) ==
    LET cells == Poke(ram.cells, f.start, f.data) IN
    ram.cells = IF f.type = 0 THEN basic_rechain(cells) ELSE cells

\* The ROM stores exactly the data of a file of the tape, the one that was
\* asked for, whatever sync bytes its own data and those of the files before
\* it contain (getsync, readbyte and their recovery loop).
LoadIsExact ==
    pc = "loaded" =>
        \E i \in DOMAIN deck.files :
            LET f == deck.files[i] IN
            /\ job.name \in {<<>>, f.name}
            /\ job.got = f.name
            /\ ram.stage = [start |-> f.start, end |-> EndOf(f), auto |-> f.auto, type |-> f.type]
            /\ ram.cells = Poke(ram.cells, f.start, f.data)

\* The fast-load leaves in memory what CLOAD of the same file would, and the
\* tape at the next file (tap_read_header, run_fastload_hooks).
FastLoadIsLoad ==
    fast.autoexec =>
        LET f == deck.files[1] IN
        /\ InMemory(f)
        /\ fast.type = f.type /\ fast.auto = f.auto
        /\ deck.loaded = (Len(deck.files) > 1)
        /\ deck.loaded => deck.offs = Len(Image(<<f>>))

\* A CSAVE that ended has written the program that was in memory, under what
\* is left of its name, unless the host refused the file, and what the deck
\* has of that file is the program (csave_end).
SavedIsProgram ==
    \A p \in want :
        LET f == [p EXCEPT !.name = clean_name(@)]
            file == disk[Cleaned(p.name)]
        IN pc = "ready" =>
            /\ file = Image(<<f>>)
            /\ \A i \in DOMAIN deck.files :
                   deck.files[i].name = f.name /\ deck.buf = file => deck.files[i] = f

\* Loading and saving keep programs whole.
TapesAreKept == LoadIsExact /\ FastLoadIsLoad /\ SavedIsProgram
=============================================================================
