------------------------------ MODULE DiskBoard ------------------------------
(***************************************************************************)
(* The disk interface of the machine: a WD1793 (Fdc) on a Microdisc        *)
(* (io/microdisc.c) or on a Jasmin (io/jasmin.c), four drives, the guest   *)
(* program that reads and writes its registers, and the user who changes   *)
(* floppies (control_cmd_media.c, iomenu_glue.c) while it runs.            *)
(*                                                                         *)
(* The guest is any program.  What a command promises to a program that    *)
(* drives the chip as its data sheet asks is stated with the help of two   *)
(* history variables: polite, and the transfer in progress, job.  The      *)
(* bits of the control registers that page the ROMs are left out.          *)
(***************************************************************************)
EXTENDS Fdc, Sequences

CONSTANTS
  Drives,         \* 0 to 3 in the code
  FirstDrive,     \* drive 0
  Fitted,         \* the boards that may be fitted, with their --fdc-timing
  DiskWriteback,  \* --disk-writeback
  Loaded,         \* the medium that starts in each drive, or NoDisk
  Damaged,        \* the bad sectors that are given to each drive at the start
  Content,        \* the image of a medium when it is loaded
  Samples,        \* the bytes that the guest writes into a sector
  Filler,         \* the byte that fills a formatted sector
  MaxActs         \* bound on what guest and user do of their own accord

ASSUME DrivesAssumption == FirstDrive \in Drives
ASSUME ChoicesAssumption ==
  /\ Fitted \subseteq {"microdisc", "jasmin"} \X {"FAST", "REAL"}
  /\ DiskWriteback \in BOOLEAN
ASSUME LoadedAssumption ==
  /\ Loaded \in [Drives -> Media \cup {NoDisk}]
  /\ Damaged \in [Drives -> SUBSET Place]
  /\ Content \in [Cell -> Bytes]
ASSUME BoundsAssumption ==
  Samples \subseteq Bytes /\ Filler \in Bytes /\ MaxActs \in Nat

VARIABLES
  fdc,       \* the chip
  drive,     \* the drive that is selected
  disk,      \* disk_data of each drive
  bad,       \* bad_map of each drive
  protect,   \* write_protect of each drive
  dirty,     \* disk_dirty of each drive
  image,     \* the bytes of each medium
  spare,     \* media not yet loaded
  acts,      \* commands, register writes that no DRQ asked for, acts of the
             \* user
  polite,    \* history: since the chip was last interrupted, the guest wrote
             \* no command to a busy chip and took or gave no byte of a
             \* transfer before a DRQ asked for it
  job,       \* history: the sector transfer in progress
  wrote,     \* history: the drives whose medium was written
  reset      \* history: cpu_reset cleared the interrupt lines

slots == <<drive, disk, bad, protect>>
vars == <<fdc, slots, dirty, image, spare, acts, polite, job, wrote,
          reset>>

\* A job records the command, the sector it started with and the bytes that
\* went through the data register.
NoJob == [op |-> "NONE", first |-> NoSector, bytes |-> <<>>]

\* The chip follows the drive that is selected.
Selected(f, d) ==
  [f EXCEPT !.disk = disk[d], !.bad = bad[d], !.protected = protect[d]]

Init ==
  /\ \E b \in Fitted :
       fdc = [fdc_init(b[1], b[2]) EXCEPT !.disk = Loaded[FirstDrive],
                                          !.bad = Damaged[FirstDrive]]
  /\ drive = FirstDrive
  /\ disk = Loaded
  /\ bad = Damaged
  /\ protect = [d \in Drives |-> FALSE]
  /\ dirty = [d \in Drives |-> FALSE]
  /\ image = [m \in Media |-> Content]
  /\ spare = Media \ {Loaded[d] : d \in Drives}
  /\ acts = 0
  /\ polite = TRUE
  /\ job = NoJob
  /\ wrote = {}
  /\ reset = FALSE

\* Serving a DRQ is not an act: the chip asks for it.
Act == acts < MaxActs /\ acts' = acts + 1
Asked(O) == fdc.op \in O /\ DRQ \in fdc.status

\* The images as the chip reads them.  load-disk and eject-disk free the
\* buffer of a floppy that may be under the head: the bytes of a transfer
\* that goes on are then whatever the memory holds.
Heaps ==
  IF fdc.cur # NoSector /\ \A d \in Drives : disk[d] # fdc.cur.medium
  THEN {[image EXCEPT ![fdc.cur.medium] = [c \in Cell |-> v]] : v \in Bytes}
  ELSE {image}

-----------------------------------------------------------------------------
(* The guest *)

\* Variant: the flag is left in the chip.
FlagLeft(f) == fdc' = f /\ UNCHANGED dirty

\* After every write to the chip, microdisc_write and jasmin_write move its
\* flag to the drive that is selected.
Written(f) ==
  /\ fdc' = [f EXCEPT !.modified = FALSE]
  /\ dirty' = IF f.modified THEN [dirty EXCEPT ![drive] = TRUE] ELSE dirty

\* The drive that holds the medium of a sector.
Holding(s) == {d \in Drives : disk[d] = s.medium}

\* A command starts a job if the chip was free and takes it.
WriteCommand(c) ==
  /\ Act
  /\ LET g == fdc_command(fdc, c)
         free == polite /\ BUSY \notin fdc.status
     IN /\ Written(g)
        /\ polite' = (c \in Forces \/ free)
        /\ job' = IF c \in SectorOps /\ g.op = c /\ free
                  THEN [op |-> c, first |-> g.cur, bytes |-> <<>>]
                  ELSE NoJob
  /\ UNCHANGED <<slots, image, spare, wrote, reset>>

ReadStatus ==
  /\ fdc' = clr_intrq(fdc)
  /\ UNCHANGED <<slots, dirty, image, spare, acts, polite, job, wrote, reset>>

WriteSectorRegister(s) ==
  /\ Act
  /\ Written([fdc EXCEPT !.sector = s])
  /\ job' = NoJob
  /\ UNCHANGED <<slots, image, spare, polite, wrote, reset>>

ReadData ==
  /\ Asked(ReadOps \cup {"READ_ADDRESS"})
  /\ \E heap \in Heaps : fdc' = fdc_read_data(fdc, heap)
  /\ job' = IF job.op = fdc.op
            THEN [job EXCEPT !.bytes = Append(@, fdc'.data)]
            ELSE job
  /\ UNCHANGED <<slots, dirty, image, spare, acts, polite, wrote, reset>>

\* A read that no DRQ asked for may take a byte before its time.
ReadDataUnasked ==
  /\ Act
  /\ ~Asked(ReadOps \cup {"READ_ADDRESS"})
  /\ \E heap \in Heaps : fdc' = fdc_read_data(fdc, heap)
  /\ polite' = (polite /\ fdc.op \notin ReadOps \cup {"READ_ADDRESS"})
  /\ job' = NoJob
  /\ UNCHANGED <<slots, dirty, image, spare, wrote, reset>>

\* What a write to the data register does to the chip and to the medium.
DataWritten(v) ==
  /\ Written(fdc_write_data(fdc, v))
  /\ image' = IF DataStores(fdc)
              THEN Stored(image, fdc.cur, fdc.offset, v)
              ELSE image
  /\ wrote' = IF fdc.op = "WRITE_TRACK" THEN wrote \cup {drive}
              ELSE IF DataStores(fdc) THEN wrote \cup Holding(fdc.cur)
              ELSE wrote
  /\ UNCHANGED <<slots, spare, reset>>

WriteData(v) ==
  /\ Asked(WriteOps \cup {"WRITE_TRACK"})
  /\ DataWritten(v)
  /\ job' = IF job.op = fdc.op
            THEN [job EXCEPT !.bytes = Append(@, v)]
            ELSE job
  /\ UNCHANGED <<acts, polite>>

\* This is also how the guest gives the target of a seek.
WriteDataUnasked(v) ==
  /\ Act
  /\ ~Asked(WriteOps \cup {"WRITE_TRACK"})
  /\ DataWritten(v)
  /\ polite' = (polite /\ fdc.op \notin WriteOps \cup {"WRITE_TRACK"})
  /\ job' = NoJob

\* $0314 of the Microdisc.  INTENA is applied to the INTRQ that is pending.
WriteControl(ena, s, d) ==
  /\ Act
  /\ fdc.board = "microdisc"
  /\ LET g == [fdc EXCEPT !.irq = ena /\ fdc.intrq, !.intena = ena, !.side = s]
     IN fdc' = IF d # drive THEN Selected(g, d) ELSE g
  /\ drive' = d
  /\ job' = NoJob
  /\ UNCHANGED <<disk, bad, protect, dirty, image, spare, polite, wrote, reset>>

\* $03F8 of the Jasmin
SelectSide(s) ==
  /\ Act
  /\ fdc.board = "jasmin"
  /\ fdc' = [fdc EXCEPT !.side = s]
  /\ job' = NoJob
  /\ UNCHANGED <<slots, dirty, image, spare, polite, wrote, reset>>

\* $03FC to $03FF of the Jasmin
SelectDrive(d) ==
  /\ Act
  /\ fdc.board = "jasmin"
  /\ fdc' = IF d # drive THEN Selected(fdc, d) ELSE fdc
  /\ drive' = d
  /\ job' = NoJob
  /\ UNCHANGED <<disk, bad, protect, dirty, image, spare, polite, wrote, reset>>

\* $03F9 of the Jasmin
ResetController ==
  /\ Act
  /\ fdc.board = "jasmin"
  /\ fdc' = [fdc_reset(fdc) EXCEPT !.intrq = FALSE, !.drq = FALSE,
                                   !.irq = FALSE]
  /\ polite' = TRUE
  /\ job' = NoJob
  /\ UNCHANGED <<slots, dirty, image, spare, wrote, reset>>

-----------------------------------------------------------------------------
(* The platter turns: fdc_ticktock *)

IntExpires ==
  /\ fdc.delayed_int
  /\ fdc' = fdc_int_expires(fdc)
  /\ job' = NoJob
  /\ UNCHANGED <<slots, dirty, image, spare, acts, polite, wrote, reset>>

DrqExpires ==
  /\ fdc.delayed_drq
  /\ \E heap \in Heaps : fdc' = fdc_drq_expires(fdc, heap)
  /\ UNCHANGED <<slots, dirty, image, spare, acts, polite, job, wrote, reset>>

StreamStep ==
  /\ fdc.stream /\ fdc_streamed(fdc)
  /\ \E heap \in Heaps : fdc' = fdc_stream_step(fdc, heap)
  /\ IF StreamStores(fdc)
     THEN /\ image' = Stored(image, fdc.cur, fdc.offset, StreamByte(fdc))
          /\ wrote' = wrote \cup Holding(fdc.cur)
     ELSE UNCHANGED <<image, wrote>>
  /\ UNCHANGED <<slots, dirty, spare, acts, polite, job, reset>>

\* A command that was interrupted.
StreamStops ==
  /\ fdc.stream /\ ~fdc_streamed(fdc)
  /\ fdc' = [fdc EXCEPT !.stream = FALSE]
  /\ UNCHANGED <<slots, dirty, image, spare, acts, polite, job, wrote, reset>>

DrqAges ==
  /\ LateDrq(fdc)
  /\ fdc' = fdc_lost_data(fdc)
  /\ UNCHANGED <<slots, dirty, image, spare, acts, polite, job, wrote, reset>>

-----------------------------------------------------------------------------
(* The user *)

\* Variant: the chip is not told of a floppy in the drive it works with.
set_disk_forgets(d, m) ==
  /\ disk' = [disk EXCEPT ![d] = m]
  /\ bad' = [bad EXCEPT ![d] = {}]
  /\ fdc' = IF d = drive THEN [fdc EXCEPT !.disk = m] ELSE fdc

\* microdisc_set_disk, jasmin_set_disk: a new floppy is undamaged.
set_disk(d, m) ==
  /\ disk' = [disk EXCEPT ![d] = m]
  /\ bad' = [bad EXCEPT ![d] = {}]
  /\ fdc' = IF d = drive THEN [fdc EXCEPT !.disk = m, !.bad = {}] ELSE fdc

LoadDisk(d, m) ==
  /\ Act
  /\ m \in spare
  /\ set_disk(d, m)
  /\ dirty' = [dirty EXCEPT ![d] = FALSE]
  /\ spare' = spare \ {m}
  /\ wrote' = wrote \ {d}
  /\ job' = NoJob
  /\ UNCHANGED <<drive, protect, image, polite, reset>>

EjectDisk(d) ==
  /\ Act
  /\ disk[d] # NoDisk
  /\ set_disk(d, NoDisk)
  /\ dirty' = IF DiskWriteback THEN [dirty EXCEPT ![d] = FALSE] ELSE dirty
  /\ wrote' = wrote \ {d}
  /\ job' = NoJob
  /\ UNCHANGED <<drive, protect, image, spare, polite, reset>>

SetProtected(d, on) ==
  /\ Act
  /\ protect' = [protect EXCEPT ![d] = on]
  /\ fdc' = IF d = drive THEN [fdc EXCEPT !.protected = on] ELSE fdc
  /\ UNCHANGED <<drive, disk, bad, dirty, image, spare, polite, job,
                 wrote, reset>>

\* The chip is not part of a reset of the machine.
CpuReset ==
  /\ Act
  /\ fdc' = [fdc EXCEPT !.irq = FALSE]
  /\ reset' = TRUE
  /\ UNCHANGED <<slots, dirty, image, spare, polite, job, wrote>>

-----------------------------------------------------------------------------
\* A program that formats a track writes marks and gaps, any sector number,
\* and one byte everywhere else.
FormatBytes ==
  IF fdc.wt_state = 0 THEN {ID_AM, DATA_AM, 0}
  ELSE IF fdc.wt_state = 1 /\ fdc.wt_idx = 2 THEN 1 .. Spt
  ELSE {Filler}

GuestBytes ==
  IF fdc.op = "WRITE_TRACK" THEN FormatBytes
  ELSE IF fdc.op \in WriteOps THEN Samples
  ELSE Bytes

Access ==
  \/ \E c \in Commands : WriteCommand(c)
  \/ ReadStatus
  \/ \E s \in 0 .. Spt + 1 : WriteSectorRegister(s)
  \/ ReadData
  \/ ReadDataUnasked
  \/ \E v \in GuestBytes : WriteData(v)
  \/ \E v \in GuestBytes : WriteDataUnasked(v)

Control ==
  \/ \E ena \in BOOLEAN, s \in 0 .. 1, d \in Drives : WriteControl(ena, s, d)
  \/ \E s \in 0 .. 1 : SelectSide(s)
  \/ \E d \in Drives : SelectDrive(d)
  \/ ResetController

Tick == IntExpires \/ DrqExpires \/ StreamStep \/ StreamStops \/ DrqAges

Host ==
  \/ \E d \in Drives, m \in Media : LoadDisk(d, m)
  \/ \E d \in Drives : EjectDisk(d)
  \/ \E d \in Drives, on \in BOOLEAN : SetProtected(d, on)
  \/ CpuReset

Next == Access \/ Control \/ Tick \/ Host

Spec == Init /\ [][Next]_vars

\* Every delay expires and every byte passes: the clock of the machine ticks.
FairSpec ==
  Spec /\ WF_vars(IntExpires) /\ WF_vars(DrqExpires) /\ WF_vars(StreamStep)

\* A guest that is polite; drives and floppies change between commands only.
PoliteStep ==
  /\ Next
  /\ polite'
  /\ <<drive, disk>>' # <<drive, disk>> => BUSY \notin fdc.status
PoliteSpec == Init /\ [][PoliteStep]_vars

-----------------------------------------------------------------------------
TypeOK ==
  /\ fdc \in Chip
  /\ drive \in Drives
  /\ disk \in [Drives -> Media \cup {NoDisk}]
  /\ bad \in [Drives -> SUBSET Place]
  /\ protect \in [Drives -> BOOLEAN]
  /\ dirty \in [Drives -> BOOLEAN]
  /\ image \in [Media -> [Cell -> Bytes]]
  /\ spare \subseteq Media
  /\ acts \in 0 .. MaxActs
  /\ polite \in BOOLEAN
  /\ job \in [op : SectorOps \cup {"NONE"}, first : Sector \cup {NoSector},
              bytes : Seq(Bytes)]
  /\ wrote \subseteq Drives
  /\ reset \in BOOLEAN

\* The medium, the bad sectors and the tab that the chip works with are those
\* of the drive that is selected, whatever the user does to the drives
\* (microdisc_select_drive, microdisc_set_disk, microdisc_set_write_protect).
ChipHoldsDrive ==
  /\ fdc.disk = disk[drive]
  /\ fdc.bad = bad[drive]
  /\ fdc.protected = protect[drive]

Asserted ==
  IF fdc.board = "microdisc" THEN fdc.intrq /\ fdc.intena ELSE fdc.drq

\* The CPU sees a disk interrupt exactly when the board asserts one; only a
\* reset of the CPU can make it miss one.
IrqFollowsLine ==
  /\ fdc.irq => Asserted
  /\ Asserted /\ ~reset => fdc.irq

\* The board, the chip and the drive it selects agree, and so do the line and the
\* CPU (microdisc.c, main.c).
BoardIsInStep == ChipHoldsDrive /\ IrqFollowsLine

\* For a polite guest, DRQ on the board is DRQ in the status of a busy chip,
\* and a chip that is not busy has nothing left to deliver: no late DRQ, no
\* late INTRQ, no operation.
IdleIsQuiet ==
  polite =>
    /\ fdc.drq <=> {BUSY, DRQ} \subseteq fdc.status
    /\ BUSY \notin fdc.status =>
         fdc.op = "NONE" /\ ~fdc.delayed_drq /\ ~fdc.delayed_int

\* The one command that never ends by itself.
StepOutAtTrack0 ==
  fdc.op = "NONE" /\ fdc.type1 /\ fdc.direction = 1 /\ fdc.c_track = 0

\* For a polite guest, a busy chip waits for something: a delay, the platter,
\* or the guest, who can see the DRQ.
BusyIsAlive ==
  polite /\ BUSY \in fdc.status =>
    \/ fdc.delayed_int
    \/ fdc.delayed_drq
    \/ fdc.stream /\ fdc_streamed(fdc)
    \/ fdc.drq
    \/ StepOutAtTrack0

\* For a polite guest a command ends, and when it has ended nothing of it is left
\* (fdc_ticktock, fdc_write).
CommandsEndCleanly == IdleIsQuiet /\ BusyIsAlive

JobContent ==
  [i \in 1 .. (SectorLen * (1 + (IF job.op \in MultiOps
                                 THEN fdc.sector - 1 - job.first.sector
                                 ELSE 0))) |->
     ByteAt(image, [job.first EXCEPT !.sector = @ + ((i - 1) \div SectorLen)],
            (i - 1) % SectorLen)]

JobIsOver ==
  job.op # "NONE" /\ fdc.op = "NONE" /\ LOST_DATA \notin fdc.di_status

\* A transfer that ends without LOST DATA moved every byte of its sectors, in
\* order and once, between the data register and the image.
TransferIsExact == JobIsOver => job.bytes = JobContent

\* After a write that ended well, the drive is marked for the write-back.
WriteIsMarked == JobIsOver /\ job.op \in WriteOps => dirty[drive]

\* The platter does not wait for the CPU: a sector command ends even if the
\* guest never touches the data register.
StreamEnds ==
  (fdc.timing = "REAL" /\ fdc.op \in {"READ_SECTOR", "WRITE_SECTOR"})
    ~> (fdc.op \notin {"READ_SECTOR", "WRITE_SECTOR"})

\* A drive is marked only if the guest wrote to the floppy in it (main.c, the
\* write-back on exit).
DirtyOnlyIfWritten == \A d \in Drives : dirty[d] => d \in wrote

=============================================================================
