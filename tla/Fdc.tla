--------------------------------- MODULE Fdc ---------------------------------
(***************************************************************************)
(* The WD1793 floppy disk controller of storage/disk.c as a value, and the *)
(* functions of that file as operators from chip to chip.                  *)
(*                                                                         *)
(* Durations are abstracted: a delay is armed or not, and an armed delay   *)
(* may expire at any cycle.  So may the next byte pass under the head.     *)
(* Hence rot_pos, drq_age and the cycle counts are left out.  Also left    *)
(* out, since no operation depends on them: the track register, the head   *)
(* load flag, c_sector, the counter of lost bytes, and dd_status, which    *)
(* stays -1.  Media served over HTTP are not modelled.                     *)
(***************************************************************************)
EXTENDS Integers

CONSTANTS
  Media,      \* the disk images that are loaded in memory
  NoDisk,     \* disk_data = NULL
  Sides,      \* sides of an image, a subset of 0 .. 1
  Tracks,     \* tracks on a side
  Spt,        \* sectors_per_track
  SectorLen,  \* bytes in a sector
  MaxByte,    \* greatest byte
  ID_AM,      \* 0xFE
  DATA_AM     \* 0xFB and 0xF8

ASSUME MediaAssumption == NoDisk \notin Media
ASSUME SidesAssumption == Sides \subseteq 0 .. 1
ASSUME GeometryAssumption ==
  /\ Tracks \in Nat \ {0} /\ Spt \in Nat \ {0}
  /\ SectorLen \in Nat /\ SectorLen >= 2
ASSUME ByteAssumption ==
  /\ MaxByte \in Nat /\ {ID_AM, DATA_AM} \subseteq 0 .. MaxByte
  /\ ID_AM # DATA_AM /\ Tracks <= MaxByte /\ Spt < MaxByte

Bytes == 0 .. MaxByte
Offsets == 0 .. SectorLen - 1

\* The bits of the status register.  In the status of a Type I command, the
\* bits S1, S2 and S4 are the index pulse, track 0 and the seek error.
BUSY == "S0"
DRQ == "S1"
LOST_DATA == "S2"
NOT_FOUND == "S4"
WRITE_PROT == "S6"
NOT_READY == "S7"
PULSE == DRQ
TRK0 == LOST_DATA
SEEK_ERR == NOT_FOUND
StatusBits == {BUSY, DRQ, LOST_DATA, NOT_FOUND, WRITE_PROT, NOT_READY}

ReadOps == {"READ_SECTOR", "READ_SECTORS"}
WriteOps == {"WRITE_SECTOR", "WRITE_SECTORS"}
MultiOps == {"READ_SECTORS", "WRITE_SECTORS"}
SectorOps == ReadOps \cup WriteOps
Ops == SectorOps \cup {"NONE", "READ_ADDRESS", "READ_TRACK", "WRITE_TRACK"}

\* cur_sector_data: where in which image, or NULL.
Sector == [medium : Media, side : Sides, track : 0 .. Tracks - 1,
           sector : 1 .. Spt]
NoSector == [medium |-> NoDisk, side |-> 0, track |-> 0, sector |-> 0]

\* A sector of the medium under the head, as the map of bad sectors names it.
Place == Sides \X (0 .. Tracks - 1) \X (1 .. Spt)
Cell == Place \X Offsets

\* Length of the ID field that Read Address returns and that Write Track
\* collects before the CRC.
AddressLen == 6
IdLen == 4

\* intena and irq belong to the board: the gate before the CPU and the bit
\* IRQF_DISK of cpu.irq, which the callbacks of the chip drive.
Chip ==
  [board : {"microdisc", "jasmin"}, timing : {"FAST", "REAL"},
   status : SUBSET StatusBits, type1 : BOOLEAN, sector : Bytes,
   data : Bytes, direction : 0 .. 1, c_track : 0 .. Tracks - 1,
   side : 0 .. 1, disk : Media \cup {NoDisk}, bad : SUBSET Place,
   protected : BOOLEAN, modified : BOOLEAN, op : Ops,
   cur : Sector \cup {NoSector}, offset : Nat,
   wt_state : 0 .. 2, wt_idx : 0 .. IdLen, wt_sector : Bytes, wt_done : Bytes,
   delayed_drq : BOOLEAN, delayed_int : BOOLEAN,
   di_status : SUBSET (StatusBits \ {BUSY}),
   stream : BOOLEAN, stream_crc : BOOLEAN,
   drq : BOOLEAN, intrq : BOOLEAN, intena : BOOLEAN, irq : BOOLEAN]

fdc_init(b, t) ==
  [board |-> b, timing |-> t, status |-> {}, type1 |-> FALSE, sector |-> 0,
   data |-> 0, direction |-> 0, c_track |-> 0, side |-> 0, disk |-> NoDisk,
   bad |-> {}, protected |-> FALSE, modified |-> FALSE, op |-> "NONE",
   cur |-> NoSector, offset |-> 0, wt_state |-> 0, wt_idx |-> 0,
   wt_sector |-> 0, wt_done |-> 0, delayed_drq |-> FALSE,
   delayed_int |-> FALSE, di_status |-> {}, stream |-> FALSE,
   stream_crc |-> FALSE, drq |-> FALSE, intrq |-> FALSE, intena |-> FALSE,
   irq |-> FALSE]

fdc_reset(f) ==
  [f EXCEPT !.status = {}, !.type1 = FALSE, !.sector = 1, !.c_track = 0,
            !.op = "NONE", !.cur = NoSector, !.offset = 0, !.wt_state = 0,
            !.wt_idx = 0, !.wt_done = 0, !.delayed_drq = FALSE,
            !.delayed_int = FALSE, !.di_status = {}, !.stream = FALSE,
            !.stream_crc = FALSE]

-----------------------------------------------------------------------------
(* The callbacks.  INTRQ reaches the CPU on the Microdisc, through INTENA;  *)
(* DRQ does on the Jasmin.                                                  *)

set_drq(f) ==
  [f EXCEPT !.drq = TRUE, !.irq = @ \/ f.board = "jasmin"]

clr_drq(f) ==
  [f EXCEPT !.drq = FALSE, !.irq = @ /\ f.board # "jasmin"]

\* Variant: INTENA is not consulted.
SetIntrqUngated(f) ==
  [f EXCEPT !.intrq = TRUE, !.irq = @ \/ f.board = "microdisc"]

set_intrq(f) ==
  [f EXCEPT !.intrq = TRUE, !.irq = @ \/ (f.board = "microdisc" /\ f.intena)]

clr_intrq(f) ==
  [f EXCEPT !.intrq = FALSE, !.irq = @ /\ f.board # "microdisc"]

\* The bit of the status and the line, together.
DrqOn(f) == set_drq([f EXCEPT !.status = @ \cup {DRQ}])
DrqOff(f) == clr_drq([f EXCEPT !.status = @ \ {DRQ}])

-----------------------------------------------------------------------------
(* Sectors *)

fdc_find_sector(f, s) ==
  IF \/ f.disk = NoDisk
     \/ s \notin 1 .. Spt
     \/ f.side \notin Sides
     \/ <<f.side, f.c_track, s>> \in f.bad
  THEN NoSector
  ELSE [medium |-> f.disk, side |-> f.side, track |-> f.c_track, sector |-> s]

CellOf(s, o) == <<<<s.side, s.track, s.sector>>, o>>

ByteAt(image, s, o) == image[s.medium][CellOf(s, o)]

Stored(image, s, o, v) ==
  [image EXCEPT ![s.medium] = [@ EXCEPT ![CellOf(s, o)] = v]]

Posted(f, st) == [f EXCEPT !.delayed_int = TRUE, !.di_status = st]

\* A command that ends at once.
Refused(f, st) ==
  set_intrq([clr_drq(f) EXCEPT !.op = "NONE", !.status = st])

\* Variant: the search goes on for ever.
NotFoundUnposted(f) ==
  IF f.timing = "REAL"
  THEN [clr_drq(f) EXCEPT !.op = "NONE", !.status = {BUSY},
                          !.di_status = {NOT_FOUND}]
  ELSE Refused(f, {NOT_FOUND})

fdc_record_not_found(f) ==
  IF f.timing = "REAL"
  THEN Posted([clr_drq(f) EXCEPT !.op = "NONE", !.status = {BUSY}], {NOT_FOUND})
  ELSE Refused(f, {NOT_FOUND})

fdc_not_ready(f) == Refused(f, {NOT_READY})
fdc_write_protected(f) == Refused(f, {WRITE_PROT})

fdc_streamed(f) == f.timing = "REAL" /\ f.op \in SectorOps

\* Sector f.sector is over.  A multi-sector command goes on with the next one
\* and ends on NOT FOUND; st is the rest of the final status.
SectorDone(f, st) ==
  LET id == (f.sector + 1) % (MaxByte + 1)
      next == fdc_find_sector(f, id)
      g == [f EXCEPT !.sector = id, !.offset = 0, !.cur = next]
  IN IF f.op \notin MultiOps
     THEN Posted([f EXCEPT !.op = "NONE"], st)
     ELSE IF next = NoSector
     THEN Posted([g EXCEPT !.op = "NONE"], st \cup {NOT_FOUND})
     ELSE [g EXCEPT !.delayed_drq = TRUE]

-----------------------------------------------------------------------------
(* Writing the command register *)

\* INTRQ drops and the byte stream of an earlier command stops.
Accepted(f, type1) ==
  [clr_intrq(f) EXCEPT !.stream = FALSE, !.stream_crc = FALSE, !.type1 = type1]

\* Variant: the head leaves the disk.
SeekUnclamped(f, target) ==
  LET st == {PULSE} \cup (IF target = 0 THEN {TRK0} ELSE {})
  IN IF f.disk # NoDisk
     THEN Posted([f EXCEPT !.c_track = target], st)
     ELSE set_intrq([f EXCEPT !.status = {NOT_READY, SEEK_ERR}])

fdc_seek_track(f, target) ==
  LET t == IF target >= Tracks THEN Tracks - 1 ELSE target
      st == (IF target >= Tracks THEN {SEEK_ERR} ELSE {PULSE})
            \cup (IF t = 0 THEN {TRK0} ELSE {})
  IN IF f.disk # NoDisk
     THEN Posted([f EXCEPT !.c_track = t], st)
     ELSE set_intrq([f EXCEPT !.status = {NOT_READY, SEEK_ERR}])

TypeI(f, d) ==
  [Accepted(f, TRUE) EXCEPT !.status = {BUSY}, !.direction = d, !.op = "NONE"]

restore(f) == fdc_seek_track(TypeI(f, f.direction), 0)

seek(f) == fdc_seek_track(TypeI(f, f.direction), f.data)

step_in(f) == fdc_seek_track(TypeI(f, 0), f.c_track + 1)

\* At track 0 nothing is posted: the command stays BUSY.
step_out(f) ==
  IF f.c_track > 0
  THEN fdc_seek_track(TypeI(f, 1), f.c_track - 1)
  ELSE TypeI(f, 1)

step(f) ==
  fdc_seek_track(TypeI(f, f.direction),
    IF f.direction = 0 THEN f.c_track + 1
    ELSE IF f.c_track > 0 THEN f.c_track - 1 ELSE 0)

\* The command waits for sector s to come under the head.
WaitSector(f, s, op) ==
  LET cur == fdc_find_sector(f, s)
      g == [f EXCEPT !.offset = 0, !.cur = cur]
  IN IF cur = NoSector
     THEN fdc_record_not_found(g)
     ELSE [g EXCEPT !.status = {BUSY, NOT_READY}, !.delayed_drq = TRUE,
                    !.op = op]

read_sector(f, op) ==
  LET g == Accepted(f, FALSE)
  IN IF f.disk = NoDisk THEN fdc_not_ready(g) ELSE WaitSector(g, f.sector, op)

write_sector(f, op) ==
  LET g == Accepted(f, FALSE)
  IN IF f.disk = NoDisk THEN fdc_not_ready(g)
     ELSE IF f.protected THEN fdc_write_protected(g)
     ELSE WaitSector(g, f.sector, op)

\* The FAST profile has the first byte ready at once.
read_address(f) ==
  LET g == Accepted(f, FALSE)
      h == WaitSector(g, 1, "READ_ADDRESS")
  IN IF f.disk = NoDisk THEN fdc_not_ready(g)
     ELSE IF h.op = "READ_ADDRESS" /\ f.timing = "FAST"
     THEN DrqOn([h EXCEPT !.delayed_drq = f.delayed_drq])
     ELSE h

read_track(f) ==
  LET g == Accepted(f, FALSE)
  IN IF f.disk = NoDisk THEN fdc_not_ready(g)
     ELSE [g EXCEPT !.status = {BUSY, NOT_READY}, !.delayed_drq = TRUE,
                    !.op = "READ_TRACK"]

write_track(f) ==
  LET g == Accepted(f, FALSE)
  IN IF f.disk = NoDisk THEN fdc_not_ready(g)
     ELSE IF f.protected THEN fdc_write_protected(g)
     ELSE [clr_drq(g) EXCEPT !.status = {BUSY, NOT_READY},
             !.delayed_drq = TRUE, !.delayed_int = FALSE, !.wt_state = 0,
             !.wt_idx = 0, !.wt_done = 0, !.cur = NoSector,
             !.op = "WRITE_TRACK"]

\* Variant: a byte that is still awaited is not forgotten.
ForceKeepsDrq(f, now) ==
  LET g == [clr_drq(clr_intrq(f)) EXCEPT !.status = {}, !.type1 = TRUE,
              !.delayed_int = FALSE, !.op = "NONE"]
  IN IF now THEN set_intrq(g) ELSE g

\* 0xD0 ends the command silently, 0xD8 with an interrupt.
force_interrupt(f, now) ==
  LET g == [clr_drq(clr_intrq(f)) EXCEPT !.status = {}, !.type1 = TRUE,
              !.delayed_int = FALSE, !.delayed_drq = FALSE, !.op = "NONE"]
  IN IF now THEN set_intrq(g) ELSE g

Forces == {"FORCE_D0", "FORCE_D8"}
Commands == {"RESTORE", "SEEK", "STEP", "STEP_IN", "STEP_OUT"} \cup Forces
            \cup (Ops \ {"NONE"})

fdc_command(f, c) ==
  CASE c = "RESTORE" -> restore(f)
    [] c = "SEEK" -> seek(f)
    [] c = "STEP" -> step(f)
    [] c = "STEP_IN" -> step_in(f)
    [] c = "STEP_OUT" -> step_out(f)
    [] c \in ReadOps -> read_sector(f, c)
    [] c \in WriteOps -> write_sector(f, c)
    [] c = "READ_ADDRESS" -> read_address(f)
    [] c = "READ_TRACK" -> read_track(f)
    [] c = "WRITE_TRACK" -> write_track(f)
    [] c \in Forces -> force_interrupt(f, c = "FORCE_D8")

-----------------------------------------------------------------------------
(* The data register *)

\* A data access of a command whose sector is gone.
NoSectorAccess(f) ==
  [DrqOff(f) EXCEPT !.status = @ \cup {NOT_FOUND}, !.op = "NONE"]

\* After a byte that the CPU paced.
NextByte(f) ==
  IF f.offset >= SectorLen
  THEN SectorDone(f, {})
  ELSE [f EXCEPT !.delayed_drq = TRUE]

read_sector_byte(f, image) ==
  IF f.cur = NoSector THEN NoSectorAccess(f)
  ELSE IF f.stream THEN DrqOff(f)
  ELSE NextByte([DrqOff(f) EXCEPT !.data = ByteAt(image, f.cur, f.offset),
                                  !.offset = @ + 1])

\* The ID field is put together again at each byte, from the registers.
AddressField(f) == <<f.c_track, f.side, f.sector, 1, 0, 0>>

read_address_byte(f) ==
  LET g == [DrqOff(f) EXCEPT !.data = AddressField(f)[f.offset + 1],
              !.sector = IF f.offset = 0 THEN f.c_track ELSE @,
              !.offset = @ + 1]
  IN IF g.offset >= AddressLen
     THEN Posted([g EXCEPT !.op = "NONE"], {})
     ELSE [g EXCEPT !.delayed_drq = TRUE]

\* fdc_read of the data register.
fdc_read_data(f, image) ==
  CASE f.op \in ReadOps -> read_sector_byte(f, image)
    [] f.op = "READ_ADDRESS" -> read_address_byte(f)
    [] OTHER -> f

write_sector_byte(f) ==
  IF f.cur = NoSector THEN NoSectorAccess(f)
  ELSE IF f.stream THEN DrqOff(f)
  ELSE NextByte([DrqOff(f) EXCEPT !.offset = @ + 1, !.modified = TRUE])

\* The parser of a formatted track: marks, ID fields, data fields.  Sectors
\* have the size code of the image.
FormatByte(f, v) ==
  CASE f.wt_state = 0 /\ v = ID_AM ->
         [f EXCEPT !.wt_state = 1, !.wt_idx = 0]
    [] f.wt_state = 0 /\ v = DATA_AM ->
         [f EXCEPT !.wt_state = 2, !.offset = 0,
                   !.cur = fdc_find_sector(f, f.wt_sector)]
    [] f.wt_state = 1 ->
         [f EXCEPT !.wt_sector = IF f.wt_idx = 2 THEN v ELSE @,
                   !.wt_idx = @ + 1,
                   !.wt_state = IF f.wt_idx + 1 >= IdLen THEN 0 ELSE 1]
    [] f.wt_state = 2 ->
         [f EXCEPT !.offset = @ + 1,
                   !.wt_state = IF f.offset + 1 >= SectorLen THEN 0 ELSE 2,
                   !.wt_done = IF f.offset + 1 >= SectorLen /\ @ < MaxByte
                               THEN @ + 1 ELSE @]
    [] OTHER -> f

\* An empty drive has no sectors on a track: the command goes on.
write_track_byte(f, v) ==
  LET g == DrqOff(FormatByte([f EXCEPT !.modified = TRUE], v))
  IN IF f.disk # NoDisk /\ g.wt_done >= Spt
     THEN Posted([g EXCEPT !.op = "NONE"], {})
     ELSE [g EXCEPT !.delayed_drq = TRUE]

\* fdc_write of the data register.
fdc_write_data(f, v) ==
  LET g == [f EXCEPT !.data = v]
  IN CASE f.op \in WriteOps -> write_sector_byte(g)
       [] f.op = "WRITE_TRACK" -> write_track_byte(g, v)
       [] OTHER -> g

\* The byte that a write to the data register stores in the image.
DataStores(f) ==
  /\ f.cur # NoSector
  /\ \/ f.op \in WriteOps /\ ~f.stream
     \/ f.op = "WRITE_TRACK" /\ f.wt_state = 2

-----------------------------------------------------------------------------
(* fdc_ticktock: a delay expires, or one more byte time is over *)

fdc_int_expires(f) ==
  set_intrq([f EXCEPT !.delayed_int = FALSE, !.status = f.di_status,
                      !.di_status = {}])

\* The data field reaches the head.
fdc_stream_start(f, image) ==
  LET g == [f EXCEPT !.stream = TRUE, !.stream_crc = FALSE, !.offset = 0]
  IN IF f.op \in WriteOps
     THEN DrqOn(g)
     ELSE DrqOn([g EXCEPT !.data = ByteAt(image, f.cur, 0), !.offset = 1])

fdc_drq_expires(f, image) ==
  LET g == [f EXCEPT !.delayed_drq = FALSE]
  IN IF fdc_streamed(f) /\ f.cur # NoSector
     THEN fdc_stream_start(g, image)
     ELSE DrqOn(g)

\* A DRQ that is still up when its byte time is over.
fdc_stream_lost(f) ==
  IF DRQ \in f.status THEN [f EXCEPT !.status = @ \cup {LOST_DATA}] ELSE f

fdc_stream_sector_done(f) ==
  SectorDone(DrqOff([f EXCEPT !.stream = FALSE, !.stream_crc = FALSE]),
             f.status \cap {LOST_DATA})

GapMissed(f) == f.op \in WriteOps /\ f.offset = 0 /\ DRQ \in f.status

\* Without a first byte at the end of the gap nothing is written and the
\* command ends.  Any later byte that is missing is written as zero.
stream_write_step(f) ==
  LET g == fdc_stream_lost(f)
  IN IF GapMissed(f)
     THEN fdc_stream_sector_done([g EXCEPT !.op = "WRITE_SECTOR",
                                           !.offset = SectorLen])
     ELSE LET h == [g EXCEPT !.offset = @ + 1, !.modified = TRUE]
          IN IF h.offset < SectorLen
             THEN DrqOn(h)
             ELSE [DrqOff(h) EXCEPT !.stream_crc = TRUE]

\* Variant: the next byte overwrites the data register without a trace.
StreamReadSilent(f, image) ==
  IF f.offset < SectorLen
  THEN DrqOn([f EXCEPT !.data = ByteAt(image, f.cur, f.offset),
                       !.offset = @ + 1])
  ELSE [f EXCEPT !.stream_crc = TRUE]

stream_read_step(f, image) ==
  IF f.offset < SectorLen
  THEN DrqOn([fdc_stream_lost(f) EXCEPT
                !.data = ByteAt(image, f.cur, f.offset), !.offset = @ + 1])
  ELSE [f EXCEPT !.stream_crc = TRUE]

\* Variant: the platter waits for the CPU.
StreamWaits(f, image) ==
  IF DRQ \in f.status THEN f
  ELSE IF f.stream_crc THEN fdc_stream_sector_done(fdc_stream_lost(f))
  ELSE IF f.op \in WriteOps THEN stream_write_step(f)
  ELSE stream_read_step(f, image)

fdc_stream_step(f, image) ==
  IF f.stream_crc THEN fdc_stream_sector_done(fdc_stream_lost(f))
  ELSE IF f.op \in WriteOps THEN stream_write_step(f)
  ELSE stream_read_step(f, image)

\* The byte that the step stores in the image.
StreamStores(f) == f.op \in WriteOps /\ ~f.stream_crc /\ ~GapMissed(f)

StreamByte(f) == IF DRQ \in f.status THEN 0 ELSE f.data

\* The operations whose DRQ the watchdog of the CPU-paced transfers watches.
fdc_op_transfers_data(op) ==
  op \in SectorOps \cup {"READ_ADDRESS", "READ_TRACK"}

LateDrq(f) ==
  /\ ~f.stream
  /\ DRQ \in f.status
  /\ LOST_DATA \notin f.status
  /\ fdc_op_transfers_data(f.op)

fdc_lost_data(f) == [f EXCEPT !.status = @ \cup {LOST_DATA}]

=============================================================================
