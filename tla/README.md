# A TLA+ model of Phosphoric

Phosphoric is a cycle-accurate emulator of the Oric-1 and Atmos computers: a
6502, a 6522 VIA, an AY-3-8912, a ULA, a family of expansion cards, and around
them a debugger, an HTTP control interface, a Chromecast server and a GDB stub.
This directory holds TLA+ specifications of the parts where a fault would
survive testing: threads that share state, skipped or batched cycles that must
be equivalent to single ones, interrupts that arrive at the wrong cycle, devices
whose delays race with accesses, sessions and media that users, programs and
commands change at the same time, and state that must survive a save and a load.
`PROJECT.json` maps the definitions to the lines they model.

Run a model with `tlc -config X.cfg M`; check proofs with `tlapm M.tla`.

## 1. Inventory

| Part | State it keeps | Operations | Interaction | What makes it correct |
|---|---|---|---|---|
| Control queue (`control_queue.c`) | FIFO of heap items, each with a condition and `done`; mutex, `count`, `shutting_down` | submit, drain, shutdown, destroy | HTTP threads submit, the frame loop drains, cleanup closes | each command once and in order; nobody waits for ever; no freed item is touched |
| HTTP server (`network/http_api.c`) | listening socket, running flag, a request | accept, read, route, reply, stop | producer of the queue | a request is run as it was sent, every client is served or released |
| VIA 6522 (`io/via6522.c`) | timers, shift register, ACR/PCR, IFR/IER, pins, `quiet`/`pending` | register read and write, pins, tick | CPU bus, cassette, printer, keyboard, IRQ line | skipped cycles change nothing; line equals flags; exact periods |
| CPU (`cpu/cpu6502.c`, `cpu/microseq.c`, `cpu/opcodes.c`) | registers, micro-operation plan, IRQ sources, NMI latch, one-shot pulses, samples | cycle, step, reset, irq set/clear/pulse, nmi | devices raise lines between cycles | each NMI once, bounded latency, delayed I flag; both engines alike |
| PSG (`audio/ay3891x.c`) | registers, event ring, playback shadow, generators | write, timed write, generate, resync | CPU thread and audio thread, no lock | in-order replay, no torn slot, playback converges |
| Emulation clock (`emu_clock.c`, `main.c`) | raster position, frame counters | emu_cycle, frame loop | drives everything | devices once per cycle, queue drained once per frame |
| Savestate (`savestate.c`) | sections of a file | save, load | reads and writes all of the above | resume equals an uninterrupted run |
| Floppy (`storage/disk.c`, `io/microdisc.c`, `io/jasmin.c`) | command phase, DRQ/INTRQ delays, the sector under the head, drives and their dirty flags | register access, tick, load, eject | IRQ line, write-back | a transfer moves every byte or says LOST DATA, nothing comes late, a written drive is marked |
| Media (`control_cmd_media.c`, `iomenu_glue.c`, `savestate.c`, exit of `main.c`) | images in drives, files, dirty flags, saved configuration, snapshots | insert, eject, reinsert, write-back, save, load, restart | user, guest, commands | what was written is in its file or still in its drive |
| ACIA and serial (`io/acia6551.c`, `io/acia6850.c`, `io/serial_backend.c`) | data registers, status, queue, interrupt line, transports' buffers | register access, tick, socket poll | IRQ line, host | bytes in order, overrun reported, line equals status |
| Modems (`io/serial_backend.c`, `io/serial_picowifi.c`) | mode, line buffer, ring, connection, settings | byte from the Oric, poll, far user | serial port, network | one connection, nothing lost unnoticed, NO CARRIER is given |
| Debugger, GDB stub, front ends | breakpoints, watchpoints, undo ring, trace, stop reason | step, continue, break, undo | frame loop, queue, REPL | no stop is missed, each is reported once, undo restores |
| Cast server, Chromecast client (`network/cast_server.c`, `network/castv2.c`) | client list, picture, sound ring, TLS connection, heartbeat | accept, stream, push, stop; connect, beat, disconnect | three threads with mutexes | each socket has one owner and is closed, nothing is used after its release |
| AVI recorder (`video/avi_recorder.c`, tap in `audio/audio_output.c`) | file, index, sizes, ring | add picture, add sound, close | audio thread, frame loop | the file says what it holds, sound is whole |
| LOCI (`io/loci_*.c`) | trap in the IRQ vector, session in XRAM, FAT volume, mounted images | button, boot, file operations, mounts | ROM, IRQ vector, disks and tape | the vector is put back, the volume stays consistent, images are those mounted |
| Cassette (`io/cassette.c`, `storage/tap.c`, `io/tape_patches.c`) | signal generator and capture, tape position, capture of CSAVE | half pulse, hooks of CLOAD and CSAVE | VIA, ROM | bytes come back as they were, programs load and save exactly |
| Cards (`cards.c`, `cli`, menu) | options, configuration, menu's choice | parse, restart, apply, save | builds the machine | the machine has the cards the user chose |
| Keyboard, joystick, typist, movie | matrix, pressed lists, held keys | host events, frames, replay | VIA's port, ROM's scanner | the matrix is what is held, text arrives as typed |

Hard behaviours: two threads without a lock (PSG, tap), three with one (queue),
several with their own mutexes (cast); state sampled one cycle and used in the
next (CPU); state computed lazily (VIA); partial state in files (savestate,
volume, recording); delays racing accesses (floppy, ACIA); several actors on one
object (drives, breakpoints, ROM, cards). The hazards are listed at their lines
in `PROJECT.json`.

## 2. Modules

| Module | Models | Role |
|---|---|---|
| `CommandService` | — | what a submitter may rely on: commands are run in the order they were accepted, each once, or refused |
| `ControlQueue` | `control_queue.c`, `http_api_stop`, cleanup | the queue with producers, the emulation thread and teardown |
| `HttpServer` | `http_api.c`, frame loop, cleanup | the server thread with its clients, over the service that the queue implements |
| `SteppedDevice` | — | a device that is stepped at every cycle |
| `ViaChip`, `ViaLazy` | `io/via6522.c`, `via_tick`, callers | the chip as a value; the chip with skipped cycles |
| `CpuInterrupts` | `microseq.c`, `cpu6502.c`, interrupt opcodes | interrupt recognition cycle by cycle, both engines |
| `CpuEngines` | `opcodes.c`, `addressing.c`, `microseq.c` | one instruction, any opcode, on both engines |
| `CpuSavestate` | CPU section of `savestate.c` | save and load on top of `CpuInterrupts` |
| `SoundReplay` | — | what playback promises: writes are replayed in order, only the newest may be lost; registers are copied whole or one by one |
| `AyQueue` | `audio/ay3891x.c`, `ay_sound_resync` | the event ring between CPU and audio thread; a load during playback |
| `Fdc`, `DiskBoard` | `storage/disk.c`; `io/microdisc.c`, `io/jasmin.c`, `control_cmd_media.c` | the WD1793 as a value; the chip on a board with drives, a guest program and a user |
| `Media` | `control_cmd_media.c`, `iomenu_glue.c`, `savestate.c`, `main.c` | floppies and tapes in drives, in files, in snapshots, in the configuration |
| `Acia6551`, `Acia6850`, `SerialPort` | `io/acia6551.c`, `io/acia6850.c` with `dtl2000.c`, `mageco.c`; `io/serial_backend.c` | the chips as values; a card with a transport behind it |
| `Modem` | `io/serial_backend.c` (Hayes), `io/serial_picowifi.c` | both modems between the Oric and a far user |
| `Debugger`, `DebugSession` | `debugger.c`, `utils/trace.c`; `main.c`, `control_cmd_debug.c`, `debugger_repl.c`, `gdbstub.c` | the debugger as a value; a session through one of the front ends |
| `CastServer`, `Cast` | `cast_server.c`; `castv2.c`, `main.c` | the streaming server; the Chromecast client, and the main thread over both |
| `AviRecorder` | `avi_recorder.c`, `audio_output.c`, `main.c` | the recording with its sound |
| `LociRom`, `LociSdimg`, `LociMedia` | `loci_glue.c`, `loci_boot.c`; `loci_sdimg.c`; `loci_bus.c`, `loci_fs.c` | the Action button and the ROM; the FAT volume; mounted disks and tape |
| `TapeSignal`, `Tape` | `cassette.c`; `tap.c`, `tape_patches.c`, `main.c` | the tape as a signal; the tape as bytes |
| `Cards` | `cards.c`, `cli_parse.c`, `card_loci.c`, menu pages | the choice of the machine's cards |
| `Keyboard`, `Autotype` | `keyboard.c`, `joystick.c`, `movie.c`; `main.c`, `autotype.h` | what is held is pressed; what is typed arrives |
| `MC*` | | instances for TLC |
| `*Proofs` | | theorems (section 5) |

### 2.1 ControlQueue

A producer goes through `control_queue_submit` in these steps: `Submit`
(allocate and fill the item, no lock held; `SubmitNoMemory` when that fails),
`Enter` (first critical section: append and wait, or see that the queue is
closed, which leads to `ReturnRefused`), `Wake` (signalled, and `done` is set; a
spurious wake-up finds `done` unset and is a stutter), `Collect` (take the
reply, free the item) and `Exit` of the thread. The emulation thread repeats
`DrainBegin` (snapshot of `count`), `Dispatch` (run the command, no lock held)
and `Publish` (done, signal, next), and closes once, in the order of the cleanup:
`control_queue_shutdown`, `http_api_stop`, `Join`, `control_queue_destroy`. A
critical section is one step. An item is named by its producer, which is the
allocator that reuses an address at once, the worst case for a stale pointer.

### 2.2 ViaChip and ViaLazy

The chip is a record of register groups; ACR and PCR are decoded into fields.
One cycle, `via_step`, is the composition of the stages of `via_update` in its
order: pulse outputs, timer 1, shift clock from timer 2, timer 2, shift clock
from phi2. `via_update(v, n)` keeps the code's structure for a batch (each stage
over its own loop). `ViaLazy` adds `quiet` and `pending`: `SkipTick` counts,
`FullTick` applies what was skipped and steps, `Call` is any access from the bus
or a pin, preceded by `via_sync`. A *program* bounds what a machine does with
the chip; every program is a behaviour of real software. Port data is left out.
`srlog` is history: the byte being shifted out and the last levels of CB2, one
more for each even half-period (or CB1 clock) that passes.

### 2.3 CpuInterrupts

A step is one cycle: the micro-operation of the current plan, then the devices.
`ms_sample_interrupts` runs before the last cycle of a plan. Both engines are
there: `cpu_cycle` (default) and `cpu_step` (historical). Instructions are
reduced to the classes that interrupts tell apart: plain, CLI, SEI, PLP, RTI,
BRK and JAM, with the lengths that occur.

### 2.4 AyQueue

A step is at most one access to memory that both threads use. The acquire and
release orderings of the indices make these steps appear in order to the other
thread; the accesses without ordering (`timed_mode`, the registers read by
`mirror_main_to_play`) are single bytes and are read and stored in separate
steps. `cur_cycle` is stored after `evq_head`, so a buffer may see events newer
than its span: the offsets are clamped, and `BufferReplaysAll` shows that the
clamp is enough. `seed_play` turns the timed path on while an immediate buffer
may be under way; `PlaybackCatchesUp` shows that the first event repairs what
the immediate buffer stores late.

`SoundReplay` is the abstract specification. Its copies of registers are of two
kinds, all at once (`CopyAll`: a seed or a resync) or one register read and
later stored (`ReadOne`, `StoreOne`: the immediate path), because a write may
come between the read and the store. `ResyncSpec` adds `ay_sound_resync`, which
a snapshot load runs on the CPU's thread while a buffer may be under way.

### 2.5 Fdc and DiskBoard

`Fdc` is the chip: each command of `fdc_write`, the accesses to the data
register, and the parts of `fdc_ticktock` are operators from chip to chip. A
delay is armed or not, and an armed delay may expire at any moment, before or
after any access of the guest; the byte time of the platter likewise. This is
more than the code can do, so the safety properties hold for every setting of
step rates, rotation and CPU speed. Bits of the status register are a set; the
bits that mean something else after a Type I command share their element. In the
REAL profile the platter paces a sector transfer (`fdc_stream_*`), in the FAST
profile the guest does, and `DrqAges` is the watchdog that reports LOST DATA.

`DiskBoard` has the callbacks of both boards (INTRQ through INTENA on the
Microdisc, DRQ on the Jasmin), the control registers, the drives and the flags of
the write-back. `WriteCommand`, `ReadData`, `WriteData` and so on are the
guest, `Tick` the machine's clock, `LoadDisk`, `EjectDisk`, `SetProtected` and
`CpuReset` the user. The guest is any program. Two history variables say what
a program may rely on: `polite` is true while it gives commands to an idle
chip only and answers DRQ only, and `job` records the bytes of the sector
command in progress; changing the drive, the side, the sector register or the
floppy ends the record. A floppy that is taken out while its sector is under the
head leaves `cur_sector_data` pointing to freed memory; what is read from it is
any byte (`Heaps`).

Left out: the track register, the head-load flag, the index pulse (no operation
depends on them), the bits that page ROMs, media served over HTTP. All media
have the same geometry, and formatted sectors have the size of the image.

### 2.6 HttpServer

The server thread of `http_api.c` as it goes through accept, receive, route,
submit, reply and close; clients that send in pieces, hang up or stay silent;
the frame loop with the F1 menu, which skips the drain; the exit. The queue is
used through the service that `ControlQueue` implements. A request is the
sequence of what the parser tells apart: header lines, the empty line, one token
per form parameter. Two requests run together; `MCControlQueue!Pairs`
has eight pairs, so that each kind of request, of ending and of refusal occurs in
one of them.

### 2.7 CpuEngines

One instruction on both engines: the addressing and the operation of
`addressing.c` and `opcodes.c` in one block, and the plan of micro-operations of
`microseq.c`. `EnginesAreExact` compares registers, memory, cycles and the
sequence of accesses. Flags and decimal mode are checked against a separate
definition of 6502 arithmetic. It uses `Bitwise` and recursion and stays with
TLC.

### 2.8 Debugger and DebugSession

`Debugger` holds the operators of `debugger.c` (breakpoints with identifiers
that shift, conditions, watchpoints through the memory callback, step over and
out, the undo ring) and of `trace.c`. `DebugSession` adds the frame loop and one
of the front ends: the HTTP commands, the GDB stub, the REPL or the full screen.
The program is a small script with a call, a store and a jam.

### 2.9 CastServer and Cast

`CastServer` is the accept and send loop, the picture that the emulation pushes
and the ring that the audio callback fills. `Cast` adds the client of
`castv2.c` (the handshake, the heartbeat thread and the disconnection) and lets
the main thread start, feed and stop both in the order of `main.c`. A section
under a mutex is one step. Time passes by blocks of sound: while a request is
read the callback may push `RecvTimeout` of them, in the rest of an iteration of
the server thread one. The socket of a request blocks and has a timeout for
receiving only, so the picture of `/snapshot` and the page are sent in a step of
their own (`SendAnswer`) that a client of `Mute` may hold up for any time;
`delayed` is history, the listeners it held up for longer than the timeout.

### 2.10 AviRecorder

The file as its fields and chunks with their widths, the ring of the sound tap,
the loop that feeds both and the back-patching when it is closed, with the reader
that a player is. A field is a name and a width, a sample is its number. Positions
in the file are `long` and grow without end; what is written of them (sizes,
offsets, counts) is `Low`, the rest by `Word`. The index doubles when it is full,
and may not: a picture is then left out, and samples that were already drained
from the tap are lost, since no caller looks at the result (`AddSound`). `dropped`
and `made` are history: what a full ring or a failing index lost and all that was
generated. `RecordingIsWhole` asks for exact sizes and offsets of a file that a
word can measure (`Fits`) and for the rest of every file.

### 2.11 SerialPort and Modem

`Acia6551` and `Acia6850` are the chips as values. `SerialPort` joins one of them
to a transport: loopback, TCP, terminal, file, MIDI or the Digitelec modem. The
far end sends 1, 2, 3...; what the program read is compared with that. `Modem`
has both modems: command and data mode, the escape with its guard time, calls
and rings, the listening socket, and the two users. The content of data does not
matter to them except for the escape character. Frames have eight bits (the masks
of shorter ones, `acia6551.c:515` and `acia6850.c:118`, keep a byte as it is), DTR
stays on (finding 8), and the bytes that the Hayes ring drops when it is full
(`serial_backend.c:405`) are outside the no-loss clause.

### 2.12 LociRom, LociSdimg and LociMedia

`LociRom` follows the button: trap in the IRQ vector, session saved by the menu
ROM, boot, sweep, resume. `LociSdimg` is the FAT volume with its allocation
table, chains, directories and handles; a sector written at position p holds p.
`LociMedia` has the images in memory, the pointer of the floppy controller and
the tape's deferred command; a write-back may be refused or stop short, which
the code only logs, and a file of the SD image is mounted as a temporary copy.
`StorageIsSound` therefore says that nothing written is lost without a word:
`warned` has the files of which the log said so. ROM code and the RP2040 firmware are external.

### 2.13 TapeSignal and Tape

`TapeSignal` generates half pulses from bytes and rebuilds bytes from the edges,
seen up to `Jitter` cycles late. `Tape` has the `.tap` reader and writer and the
hooks that serve CLOAD and CSAVE when the program counter reaches the ROM's
addresses. CSAVE saves under what `clean_name` leaves of the name, and the host
may refuse the file at either of its two openings.

### 2.14 Media, Cards, Keyboard and Autotype

`Media` relates drives, files, dirty flags, configuration and snapshots over
insert, eject, write-back, save, load and exit. A save may be refused or short, a
file may be in two drives, and a snapshot file may be torn or hold its header
alone. `Cards` goes from options to
state and back through the menu, a restart and the configuration; a text may be
erased (it then stands for the default), the setup of a card may refuse, which
ends the process, and a serial line that cannot be opened leaves its card out
(`dead`). `Keyboard` has
the host's events, the joystick and the movie; `Autotype` the typist, the
fast-load's RUN and the `keys` command against the ROM's scanner. The run types
every pair of tokens, with BASIC quick and slow, but for those that the typist
cannot keep apart (`Typable`, finding 15). The hat of a plain joystick is left out.

### 2.15 MCMachine, MCSerial, MCAyQueue, MCCpuInterrupts, MCControlQueue

Parts that share no state are checked in one run with a *scene*: a behaviour
chooses one part, its variables move and the others keep their initial values.
A property of such a run is the conjunction of the properties of its parts.
`MCSerial` extends `SerialPort` and has the modems as an instance (`Behind`), since
the two share names; `ModemConstants` is what the modems assume of their
constants. `MCAyQueue` extends `AyQueue`, `Cast` and `AviRecorder`.

## 3. Runs

| Run | Bounds | Shows |
|---|---|---|
| `control_queue` | queue: 3 producers, 2 commands, any number of submissions; server: 2 clients, requests of up to 5 tokens, 8 pairs of requests, one freeze by the menu | memory safety, exactly once in order, bounded drains, refinement of `CommandService`, all waits end; requests run as sent, clients are served or released |
| `via_lazy` | bytes of 3 values (counters of 9), a 2-bit shift register, five programs: timer 1, timer 2, shift register, shift by timer 2, ports and pins | skipping is exact, batches are exact, line equals flags, N+2 period, a byte goes out on CB2 bit by bit through changes of the clock |
| `cpu_interrupts` | interrupts: 2 level sources, up to 2 pulses, all instruction classes; engines: every opcode at the edges of pages, stack and bytes, ADC and SBC on all bytes; debugger: 2 points, 2 commands and 2 moves for each front end | NMI once, bounded latency, first instruction of a handler runs, delayed I flag; engines agree; no stop is missed and undo restores (moves do not exceed the depth of the undo ring: that the oldest entry is overwritten is the theorem `RingsExact`) |
| `ay_queue` | sound: 1 register, 2 values, ring of 3 slots, buffers of 2 samples, cycles 0..1; cast: 2 clients of which one is slow and mute, ring of 5 with a receive timeout of 2, 8 blocks of sound or 2 pictures with 4; recorder: tap of 3, words of 420 values, an index of 2, 4 and 8 entries that may fail to grow | slots are owned, buffers are complete, refinement of `SoundReplay`, convergence; sockets have one owner, the last picture is shown; a file is whole |
| `disk_board` | 2 drives, one empty, 2 media of 2 tracks with 2 sectors of 2 bytes, one bad sector; Microdisc REAL and Jasmin FAST; 3 acts (commands, register writes that no DRQ asked for, acts of the user) | the chip follows the drive, exact interrupt line, nothing comes late, a busy chip is alive, exact transfers, written drives are marked, a streamed command ends |
| `serial` | both modems with a ring of 2, chunks of 2, guard time 1, one call, 4 bytes; 3 chips with the transports they take, 3 bytes | one connection, nothing lost unnoticed, line equals status, NO CARRIER is given |
| `machine` | ten parts, one at a time: 2 launches, a volume of few clusters and one name, 2 images, tapes of a few bytes, 3 exchanges of media, the cards and their options, keys with two characters, texts of a few tokens | `RomIsSafe`, `StorageIsSound`, `CardsAreChosen`, `MediaAreKept`, `KeysAreTrue`, `InputArrives` |
| `savestate_resume` | as `cpu_interrupts` | violation: a pending NMI or pulse is lost by a load |
| `via_level` | as `via_lazy` | violation: a CPU reset loses a line that is held low |
| `ay_resync` | as `ay_queue` | violation: a load during a buffer leaves an old value in the shadow |
| `disk_dirty` | as `disk_board`, 4 acts, a floppy in both drives, a polite guest that changes drives between commands | violation: another drive than the one written is marked |
| `sd_chain` | the volume of `machine` with two names | violation: a file is longer than its chain of clusters |

Bounds. Three producers make a batch, a late arrival and a refused one possible
at once. In the VIA the widths are constants and the theorems hold for all of
them; the values of TLC's instance are chosen so that every counter wraps and
a byte boundary is crossed. The ring of three slots holds two events, so it
runs empty, wraps and overflows; one register with two values is enough to tell
a lost, a repeated or a swapped write apart, because the ring does not look at
what it carries; the refinement was also checked with two registers, by itself, for
the reason given in section 5. `cycles` going back to 0 stands for a reset of the CPU.
Two sectors of two bytes have a first and a last byte, a next sector and an end
of the track; bytes are 0 to 3 with the address marks among them, so that the
sector register wraps. Answers to a DRQ are not counted, so transfers and formats
run to their end whatever the bound on acts; three acts put a command, a
change of drive or floppy and another command into one behaviour. The two fitted
boards are the pairs in which the paths differ most; the theorems hold for all
four. Rings and queues of the cast, the recorder and the serial side are small
enough to fill, empty and wrap within the bytes sent. `Word` is 420 because a
header takes 326: short recordings fit a word and the longest do not. Counters that only exist to
end a behaviour (`Max...`) stand in guards of users' actions and are named in
the modules.

Some instances leave out, by a constant, a case in which the property of the
same name does not hold; section 4 lists them: `HttpResumes`, `SwapBeforeLoad`,
`Reinsert`, `Hasty`, `HeldAtToggle`, `HeldAtSave`, `OverMount`, `Careful`, `Silent`, `Edge`, `Attached`,
`AnyText` and, in the sets they are given, the ROM 1.0 and names of 15 characters
of `Tape`, and one by a definition, `HalfPeriodModes`. A theorem about such a property has the same condition
as its hypothesis (section 5).

Deadlock is checked in `control_queue`, `via_lazy` and `disk_board`. In the other
runs some parts end: a debugging session, a call or a recording stops at
its bound.

Fairness. `ControlQueue!FairSpec`: a producer that can go on does, and the
frame loop goes on to drain and, once, to close. This holds while the F1 menu
and the REPL are closed: with the menu open `main.c` skips the drain, so the
sentence "at most one frame" of `docs/adr/0002` does not hold then, and neither
does the fairness; `HttpServer` has the menu as a freeze that ends. There the
server thread, the main thread and the clients that are not silent go on.
`AyQueue!FairSpec`: a write that began ends, and SDL asks for buffers for ever
(it does not while the menu pauses the device). No fairness is assumed of new
submissions or of writes. `DiskBoard!FairSpec`: delays expire and bytes pass,
since the clock calls `fdc_ticktock` at every cycle; nothing is assumed of the
guest. `DebugSession`: the frame loop checks, executes and ends its frames.
`Cast`: the heartbeat, the main thread's handshake and cleanup and the server
thread go on, the last unless it is in a `send` to a mute client: nothing obliges
that client to read, so `LastFrameIsShown` has `[]Blocked` as a way out and
`AudioIsExact` leaves out the listeners in `delayed`. `Modem`: the card polls for a byte. The other specifications have
no liveness properties.

## 4. Findings

With a run:

1. A savestate leaves out `nmi_pending` and `irq_pulse` (`savestate_resume`),
   while `docs/ACCURACY.md` calls it an exact resume point. The undo snapshots
   of the debugger do keep the NMI.
2. `cpu_reset` clears the sources of the IRQ line, and the VIA reports only
   transitions (`via_level`): a line held low over F5 is not heard again.
3. `ay_sound_resync` moves `evq_tail` and `play` under the audio thread
   (`ay_resync`): events of the buffer under way overwrite the restored shadow.
4. A sector that the platter writes sets `disk_modified` in the chip, and the
   board moves the flag to the selected drive at the next register write
   (`disk_dirty`). If another drive was selected in between, that one is marked
   and its file rewritten, while `main.c` says that a drive is dirty only if
   the guest wrote a sector to it.
5. A file of the SD image that is written on after a transfer that ended with its
   cluster grows without a cluster (`sd_chain`).

Found by setting a constant, or while reading, and left out of the passing runs:

6. Tape. `Roms = {"1.0"}`: CSAVE on the BASIC 1.0 writes a program that is not
   the one in memory (`SavedIsProgram`; `tape_patches.c:163-182`, while
   `tape_patches.c:271-273` and `emulator.h:220-222` say that it is).
   `tap_read_header` mistakes programs of one byte and those that end above
   `$C000`; a RESET in the middle of CSAVE keeps the capture. It stops at the
   15th character of a name without skipping the zero behind it (`tap.c:192-195`),
   so the fast-load of a file with such a name, which `tap_write_header` may write
   (`tap.c:252`), is shifted by a byte (`FastLoadIsLoad`). CSAVE renames a program
   whose name is not of `[A-Z0-9_.-]`, so that a CLOAD of the same name does not find
   it, and is silent when the host refuses the file (`tape_patches.c:210`, 371).
7. Cast. `castv2.c` holds `hb_mutex` near line 346 and `castv2_send` locks it
   again (259-260), so `castv2_disconnect` joins a thread that never ends
   (`DisconnectEnds`). A failed handshake leaves the socket open.
8. Modems. Silence is only counted in the receive functions, which `acia_tick`
   calls when `poll` reports data, so an escape without data from the far end is
   never completed (`EscapeAfterSilence`, against
   `docs/orictel-modem-hayes.md:32`). `acia_tick` returns early with DTR off, so
   the hang-up is not seen (`HangsUp`, against `docs/orictel-release-notes.md`).
   A dial inside a call of the PicoWiFi modem leaks the socket.
9. Debugger. `HttpResumes = TRUE`: a pause that is requested in the frame of a
   resume is lost (`docs/control_protocol.md:113-115`). A change watchpoint
   stops at writes that change nothing (`include/debugger.h:67`, `ChangeIsSeen`).
   A bad condition removes the breakpoint; the REPL's pause works on a stopped
   machine; the GDB stub removes watchpoints whatever their type.
10. HTTP. `Silent` not empty: a silent client keeps `http_api_stop` in its join.
    A body cut short is run as it is (`http_api.c:571`).
11. LOCI. `Hasty = TRUE`: F8 across a boot leaves the trap in a vector.
    `OverMount = TRUE`: a mount over a mounted drive frees its image unsaved.
    `Careful = FALSE`: `mkdir` in a full directory leaks its cluster
    (`loci_sdimg.c:1136`, 1166-1168), files that are open are removed, moved and
    truncated, and a rename onto a name in use makes two of it. `Edge = TRUE` is
    run `sd_chain`. Create truncates where `loci_sdimg.h:75` says
    create-if-absent. An unmount frees the image even when it could not be
    written back (`loci_bus.c:433-461`), and a write-back that stops short leaves
    a torn file: both are only logged. A disk mounted out of the SD image is a
    copy in `/tmp` (`loci_fs.c:696-701`) that is never put back, and the log says
    that it was flushed.
12. Media. `SwapBeforeLoad = TRUE`: a snapshot load replaces images that were not
    written back (`savestate.c:710-755`). `Reinsert = TRUE`: an image inserted
    again in its drive is read before it is written back. A save that fails is
    logged, the flag is cleared and the image is destroyed
    (`control_cmd_media.c:102-105`, `iomenu_glue.c:44-48`); a short write has by
    then emptied the file. The F1 browser refuses a file that another drive has
    (`iomenu.c:280-293`: two drives would write the same image), the OSD's browser
    and `load-disk` do not: the drive saved last overwrites what the other saved.
    `risked` records both, and `NothingWrittenIsLost` excuses what it records and
    nothing else. A card restart drops what was hot-inserted.
13. Menu. `MenuShowsMachine`: the menu shows the cards of the last choice and not
    those of the machine (`main.c:3874-3883` against `cards.h:75-77`).
    `MenuStarts`: `cards_conflict` lets through choices that a setup then refuses,
    and the process ends: two speech cards, a transport only the ACIA knows, an
    erased transport, an erased address (accepted at `iomenu.c:351`, skipped at
    `cards.c:423`) whose default is taken. `Attached = TRUE`: a restart takes the
    argument after `--rom=file` for the file (`cards.c:504-513`), while
    `cards.c:148-149` says that an attached value is recognised everywhere. The
    ROM of the LOCI's menu stays when the menu is switched off but not the card
    (`cards.c:512`). With LOCI on, an ACIA chosen at the default `031C` is put at
    `0380`, since a default is not passed on (`card_acia.c:253-257`).
14. Trace. The default engine logs no hardware interrupt, which runs with
    `ms_opcode` 0 like BRK. JAM differs between the engines.
15. Typist. `AnyText = TRUE`: without a release between them, the second of two
    characters on one key is not seen, as `9` after `(` (`main.c:1828-1844` releases
    only between equal ones); a character that follows a shifted one and is read
    after SHIFT is seen with the SHIFT of the first, as `9` after `)`; a combination
    presses its key together with SHIFT (`main.c:1801-1810`), so that `\L9` may come
    out as `9`, which `keyboard.h:88-91` says of characters; and arrows and
    combinations do not wait for the key buffer (`main.c:1725-1813`), so that they
    overwrite what a busy BASIC has not read. `keys` while a text is being typed
    mixes the two. A repeat of `*8` types one more; a key held over a toggle of the
    menu stays in the matrix; the movie leaves the joystick out.
16. Savestate. A file that holds a header only is accepted: its CRC of nothing is
    the placeholder's 0 (`savestate.c:190`, 538-543).
17. Shift register. `sr_count` counts half-periods under the chip's own clocks
    (`via6522.c:46-47`) and shifts under CB1 (`via6522.c:76-77`), and a write of
    ACR keeps it: a change between the two in the middle of a byte ends it early
    or turns it too far. `Follows` leaves this change out (`HalfPeriodModes`).
18. Cast. A client that does not read its snapshot or page blocks the server thread
    in `send` (`cast_server.c:453-461`): the socket was made blocking and only
    `SO_RCVTIMEO` is set (388-391), which the comment there (383-387) gives as the
    remedy against a thread blocked for ever. The streams stop, and the join of
    `cast_server_stop` waits for that client (`Mute`).

Observations without a statement in the repository to compare with: Step-out at
track 0 arms no delay, so the chip stays BUSY until the next command; Read Track
raises a DRQ that no read serves; the third byte of Read Address is the sector
register, which the first byte has just overwritten with the track; a command
given to a busy chip keeps the delays of the old one, so its DRQ or INTRQ may
come early; an AVI of more than 4 GB has its sizes and offsets modulo 2^32, and an
index that cannot grow loses the samples drained for it.

## 5. Proofs

TLAPS proves the following for all values of the constants. Twenty-eight of the
forty properties that the runs check are stated by a theorem. Some of them are
the conjunction of a component's smaller properties; then the theorems about the
parts are listed too.

| Module | Theorem | States |
|---|---|---|
| `ControlQueueProofs` | `MemorySafe`, `RunsOnce` (from `ExactlyOnce` and `DrainBounded`), `Refinement` | `NoDanglingPointer`, `CommandsRunOnce`, `ImplementsService` |
| | `HttpHonours` | `RequestsAreHonoured` |
| `ViaProofs` | `SkippingSound` (from `QuietIsSafe` and `IrqLineExact`), `BatchExact`, `LazyRefinement`, `T1Period`, `ShiftOutComplete` | `SkippingIsSound`, `BatchIsExact`, `LazyIsExact`, `T1PeriodIsNPlus2`, `ShiftOutIsComplete` |
| `CpuInterruptsProofs` | `NmiOnce`, `LatencyBounded`, `HandlerFirst`, `DelayedFlag` | `NmiServedOnce`, `InterruptLatency`, `HandlerRunsFirst`, `FlagIsDelayed` |
| | `StopsSound`, `RingsExact` | `StopsAreSound`, `RingsAreExact` |
| `AyQueueProofs` | `SlotOwnership`, `PlaybackComplete` (from `BufferComplete` and `CatchUp`), `RingImplementsReplay` | `SlotsAreOwned`, `PlaybackIsComplete`, `ImplementsReplay` |
| | `RecordingWhole` (from `AviInvariance`) | `RecordingIsWhole` |
| `DiskBoardProofs` | `DiskInStep` (from `ChipFollowsDrive` and `DiskIrqExact`), `DiskEndsCleanly` (from `DiskIdleQuiet` and `DiskBusyAlive`) | `BoardIsInStep`, `CommandsEndCleanly` |
| | `DiskTransferExact`, `DiskWriteMarked` | `TransferIsExact`, `WriteIsMarked` |
| `MachineProofs` | `RomSafe`, `MediaSafe`, `KeysTrue` | `RomIsSafe`, `MediaAreKept`, `KeysAreTrue` |
| `CastProofs` | `CastSafe` | `CastIsSafe` |
| `SerialProofs` | `SerialExact` (from `PortInvariance`) | `SerialIsExact` |

Type correctness is a theorem of its own for the core (`TypeCorrect`,
`ViaTypeCorrect`, `CpuTypeCorrect`, `AyTypeCorrect`, `DiskTypeCorrect`) and a
conjunct of the inductive invariant elsewhere; `HttpHolds`, `DebugHolds`,
`BayKept`, `KeyboardHolds`, `PortInvariance` and `AviInvariance` state those
invariants. Each inductive invariant was checked by TLC before it was proved.

* `ControlQueueProofs`. `IInv` adds to the type: no producer is queued twice
  (`QueueDistinct`); the owner of a queued item waits and its item is alive, not
  done and has not run (`QueuedItems`); the popped item is not in the list and
  its owner still waits (`PoppedItem`); what each stage of a producer says of
  its item (`ProducerState`); `count` is the length of the list and a drain does
  not pass its snapshot (`Counting`); the phases of the teardown (`Closing`).
  None of the safety properties is inductive alone: that an item is alive when
  drain touches it needs that its owner cannot have been woken, which needs
  that it was not run. `MemorySafe`, `ExactlyOnce` and `DrainBounded` follow;
  `Refinement` maps the list to the service's line and the items' flags to the
  service's status.

  The second half is about `HttpServer`. `ServingInv`: the thread serves the one
  connection that is open, and a command is in the slot only while it submits
  it. `CommandInv`: what waits or ran is what its client asked for. A body that
  a client cuts short is parsed as far as it came, so this is stated for sound
  requests of clients that stay, and for the path of a tape for all. `OnceInv`:
  no two commands that ran are of one client, and one that ran belongs to a
  closed connection or to the one being submitted. `ResponseInv`: an answer is
  the last thing on its connection, comes from the command that ran for that
  client, or is the refusal of the shutdown. `HttpHonours` follows.
* `ViaProofs`. `LazyInv` is the type, `SkippedCyclesAreQuiet` and the exactness
  of the line in the stored chip. The lemmas show that a cycle within the
  promise of `via_quiet` only counts, that counting n cycles and then one is
  counting n + 1, and that every operation keeps the line equal to the flags.
  `QuietIsSafe`, `IrqLineExact` and `LazyRefinement` (the mapping is the synced
  chip) follow. `T1Period` needs `T1Inv` besides: the cycles since the last
  load and the counter add up to the value loaded plus one. `BatchExact` is about
  the historical core, which ages the chip by a whole instruction: `via_update`
  runs timer 1 over all cycles, then timer 2, then the shift register, where
  single cycles interleave them. For every good chip each stage of a cycle
  commutes with the other stages of the next one (the delicate pair are the two
  clocks of the shift register), and the proof exchanges them one by one. It is
  unrolled for batches of two and three cycles, as the property is stated;
  longer ones need an induction over the number of cycles. `ShiftOutComplete`
  rests on `ShiftInv`: the register holds the starting bits turned by as many
  places as the count says were shifted, a clock on CB1 counts whole shifts and
  the other clocks count half-periods, and the last levels of CB2 are the first
  bits of the byte. One cycle may hold two half-periods (timer 2 and phi2 in the
  cycle of a change of mode), which is why the lemmas go beat by beat. A change of
  the mode keeps the count, so the invariant holds across it as long as the new
  clock counts the same thing (`Follows`; item 17 of section 4). A skipped stretch
  contains no shift, by the promise of `via_quiet`.
* `CpuInterruptsProofs`. `IrqInv` relates the position in the plan, the samples
  and the I flag (`PlanInv`, `SampleInv`, `MaskInv`) and bounds the waits of the
  two kinds of request (`IrqWaitInv`, `NmiWaitInv`). `NmiOnce`, `LatencyBounded`,
  `HandlerFirst` and `DelayedFlag` follow.

  The second half is about `DebugSession`, for any program, any number of
  points, any front end. A session's state is one value and `Good` says what
  every step keeps of it: the memory callback is installed exactly while a
  watchpoint needs it (`TracedIn`); what GDB asked for is in the tables
  (`AskedIn`, `InTables`), where the removal of one entry moves the others;
  a step that was asked for is still to come (`StepIn`); an access that somebody
  watches has raised the trigger by the end of its instruction (`AccessIn`);
  the machine never goes on past something that was asked for (`GoIn`); the
  client knows whether the machine runs and is told of a stop once (`ViewIn`).
  `RingIn` and `LogIn` describe the rings of the undo and of the trace by
  distances from their heads; the undo ring of any depth needs remainders, the
  trace's two entries its five situations. `StopsSound` and `RingsExact` assume
  `~HttpResumes`: a `continue` over HTTP arrives at the end of a frame and clears
  the step that a pause left, so with it `StepIn` is false (section 4, item 9).

* `AyQueueProofs`. `AyInv` has the order of the four indices around the ring
  (`RingInv`), the end of a buffer (`SpanInv`), the write under way (`WriteInv`)
  and `CatchInv`: the last pending event of a register carries the register's
  value, a register without a pending event is heard as it is, and a byte that
  the immediate path holds is current or has an event waiting. The last part is
  what makes the unlocked start of the timed path harmless. Whether a slot is
  pending is expressed by distances from the next slot to replay, which keeps
  all arithmetic linear. `SlotOwnership`, `BufferComplete` and `CatchUp` follow.
  `RingImplementsReplay` maps the slots from the next one to replay up to the
  head to the waiting writes of `SoundReplay`, and each step of either thread to
  one of its steps or a stutter. The first attempt at it failed for a reason:
  with two registers the refinement was false (a counterexample of 22 states that
  the one register of the run does not have), because the immediate path reads a
  register and stores it later, while `SoundReplay` copied all of them at once.
  `SoundReplay` now has that copy as two steps.

  The second half is about `AviRecorder`, for any ring, drain, sound of a frame,
  image sizes, words and first capacity of the index, and recordings of any length. The file's header is a sequence of
  fields; `Width` adds up a recursive function over it. The lemmas give the width
  of a concatenation and where a field is in it (`PosIn`: what follows a field
  does not move it, what precedes it moves it by its width), and put the header
  together list by list up to `HeaderIs`: the positions that the source computes
  with constants are those of the fields they mean, with and without sound, and
  every list announces its own size. `AviInv` says that the file is `Whole`
  (counts, index and chunks agree in what 32 bits keep of them, and no count and
  no offset is above the size of the list of chunks, so that a file that `Fits`
  has them exactly) and `Growing` until it is `Done`; that the ring `Ends` the samples that were
  generated, told by their distance from the tail; and that the sound in the
  file is `Heard`: with the ring and the samples that were dropped, by the ring or
  with a chunk that had no index entry (`SoundAdded`), it makes up all that was
  generated, and it is older than what is in the ring. `RecordingIsWhole` is not
  inductive: it says nothing of the file's end before it is closed, nor of what
  the slots hold.

* `DiskBoardProofs`. `IInv` adds two things to the types, to `ChipHoldsDrive` and
  to the line of the board. `Within`: a sector operation has a sector and its
  offset is inside it, as long as the stream has not passed the last byte; the
  ID field that a format collects has room. Without it a byte that is read need
  not be one. `Phase`, for a polite guest: the chip is `Idle`, `Ending`
  (INTRQ on its way, or stepped out of track 0) or `Working` (waiting for its
  sector, streaming, or with DRQ up). `IdleIsQuiet` and `BusyIsAlive` are not
  inductive alone, because what the end of one transfer leaves depends on
  which delay is armed. Each operator of `Fdc` has a lemma that it keeps the
  medium, the line and `Within` and leads from phase to phase; each action uses
  the lemma of its operator. `DiskTypeCorrect`, `ChipFollowsDrive`,
  `DiskIrqExact`, `DiskIdleQuiet` and `DiskBusyAlive` follow, for any drives,
  media and geometry and for every bound on the acts of guest and user.

  For the transfers, `JobInv` compares the bytes that went through the data
  register with the content of the sectors: while the command works, the sector
  register and the offset tell how far the head is, and the program is level
  with it, one byte behind or one byte ahead. In the REAL profile the platter
  moves on without the program and what it skips is LOST DATA; in FAST the program
  paces. The lemmas take the operators of `Fdc` one after the other and need the
  `IInv` above for the bounds of sector and offset.

* `MachineProofs`. LOCI. `VectorInv`: the vector of the mapped image is the trap while
  the button is pressed and the image's own otherwise, also in the copy that is
  kept of a session. `PlaceInv` relates where the CPU is to the ROM that is
  mapped, and `SessionInv` says that what the menu saved is the session with its
  home. `RomSafe` assumes `~Hasty`: F5 does not cut the save of a session short
  and nothing boots under a pressed button. With `Hasty` the property is false
  (section 4, item 11); the run makes the same assumption.

  Media. `HeldInv`: a drive with an image has the path of its file and the image
  holds what the guest wrote to it, but for what is at risk; two copies of one
  file differ in what is at risk only. `FiledInv`: what is in no dirty drive is
  in its file, with the same exception. This is the heart: it has to survive the
  order of insert (read the new image, write back the old one, replace), saves
  that fail (`SwapRisk`), several drives that save to one file at exit
  (`LastIs`), and restart. `SnapInv`: a snapshot names the media it was taken
  with and its copies of one file differ in what was at risk; `DeckInv` and
  `ChipInv` relate the tape deck and the controller's bad-sector map to what is
  inserted. `MediaSafe` assumes `~Reinsert` and `~SwapBeforeLoad`: an image that
  is inserted again is read before it is written back, and a load over other
  media replaces them without a write-back (section 4, item 12).

  Keyboard. `ListInv`: the list of pressed keys has one entry for each key, and
  a finger of the user for each entry (`Hands` leaves out those on keys that the
  keyboard joystick takes); in the symbolic layout an empty list means an empty
  matrix, in the positional one each closed contact has its key. `StickInv`
  says the same of the joystick's mask, the keyboard and the gamepad. For the
  movie, `Tells` relates the recorded events to what each frame ran with and
  `Shows` says where a replay is among them. `KeysTrue` assumes `~HeldAtToggle`
  and `~HeldAtSave`: a toggle or a snapshot with a key held leaves a contact
  without a finger (section 4, item 15).

* `CastProofs`. `OwnerInv`: the tables hold distinct sockets, none is in both,
  and a socket is open exactly if it is in a table or its request is being served.
  `LoopInv` keeps the indices of the server's loops inside the tables, which
  shrink while they are walked. `LifeInv` and `BeatInv` tie the mutexes and the TLS
  connection to the threads that use them. `HearInv` is about the ring: the next
  block of a listener that keeps up is the one at its read position, and it is
  behind the write position by no more than one receive timeout and one
  iteration of the thread produce. It is about the listeners outside `Late`: those
  that read in time and that no unread answer has held up for longer than the
  timeout. Lemmas on remainders then show that the slots
  that are sent hold the blocks that are due. `CastSafe` assumes `Sizes`, which
  says `RecvTimeout + 2 < Ring`: the ring holds two seconds
  (`CAST_AUDIO_RING_SECS`), the timeout of a receive is one (`SO_RCVTIMEO`), and
  two callbacks are a small part of the other second.

* `SerialProofs`. A byte is on its way in the transport's source, its ring, the
  queue of the 6551 or the data register, in that order, and `All` is what the
  program read with all of these behind it. `PortInv` says that `All` is
  increasing and, where nothing may be lost (`Lossless`: a socket, terminal or
  file, with back pressure on the 6551), that it is 1, 2, 3... without a gap and
  without an overrun. The steps are taken apart into the card's and the
  transport's. `Fewer(x, y)` says that wherever x stands in an increasing
  sequence y may stand instead; it is transitive and goes through
  concatenation, so each part of a tick is judged alone (`Passes`) and a tick is
  their composition. `Pair` adds what the steps need: the status register says
  what is held (`RxOK`), the interrupt line says what the status says (`IrqOK`,
  `Board`), a ring is not overfull, and the pins of the 6551 follow the Digitelec
  modem with the hysteresis of its flow control (`FlowOK`). The carrier's drop
  clears the modem's ring and is allowed to lose bytes, never to reorder them.

Assumptions are those named in the modules: positive sizes and the listed
constants in their sets (`HttpAssumption`, `SessionAssumption`,
`DebuggerAssumption`, `KeyboardAssumption`, `SerialAssumption`, `AviConstants` and
the like). Besides these a theorem
has the hypotheses above: `~Hasty`, `~Reinsert`, `~SwapBeforeLoad`,
`~HttpResumes`, `~HeldAtToggle`, `~HeldAtSave` and `Sizes`. Each of the switches
turns off a case in which the code does not do what the property says; the runs
turn them off too.

Induction. The prover has no rule for induction over an operator, but the
naturals are well founded: to show something for all n, take the set of numbers
where it fails, and its least element with `WFMin`. Facts about sequences are
proved this way (`Least` and `Greatest` in `MachineProofs`). The values of a
recursive function can be reached the same way: `Steps` in `AyQueueProofs` is
induction for a set of numbers, `Iterates` says that a function that goes by given
steps exists and `Agree` that there is only one, and with them the sums and
concatenations of the recorder are proved for sequences of any length. Those of a
RECURSIVE operator cannot.

Only model-checked:

* Liveness: `NobodyWaitsForever`, `ServedOrReleased`, `WritesAreHeard`,
  `LastFrameIsShown`, `StreamEnds`, `PauseStops`, `CarrierLoss`.
  It rests on fairness, hence on `ENABLED`, for which the
  prover has no rules.
* `EnginesAreExact` uses `Bitwise` and recursive operators.
* `ModemIsSound` (the decoding of a line of any length by the far terminal),
  `StorageIsSound` and `InputArrives` (chains, files and signals) and
  `CardsAreChosen` (folds over the options of the command line) compare what is
  computed by recursion over data with what was put in. The statements about
  the recursions would each be an induction of its own.

## 6. Not modelled

Generators and mixing of the PSG, port data of the VIA, rendering of the ULA,
memory banking other than the LOCI's, joystick adapters, printer and plotter,
speech, the MIDI protocol, the CLI's texts, the TLS and protobuf encodings of
the Chromecast, and the command interpreter's formatting. They compute values
from values without a protocol between actors, and the repository's tests
compare them with known output. The components of `PROJECT.json` give the
reason for each.

## 7. Plan

Done: all parts of section 1 that have a protocol, their runs, and theorems for
the safety of the queue and the HTTP server, the VIA, interrupts and debugger,
the PSG's ring, the recorder, floppy transfers, media, keyboard, the LOCI's
button, the casting service and the serial port. Left, in this order:

1. The modems: one connection and one owner of the socket need no induction over
   the line, and can be split off `ModemIsSound` first.
2. The FAT volume: allocation chains that are disjoint and end, stated by ranks
   instead of recursion.
3. An abstract port behind `SerialPort`, a queue that may lose only where the
   transport says so, with a refinement like the one of the PSG's ring.
