------------------------------- MODULE Media -------------------------------
(* The media of the running machine: disks and tape inserted from the F1     *)
(* menu, the OSD or the control channel, their write-back to the .dsk files, *)
(* the media lines of phosphoric.cfg, and the sections of a snapshot that    *)
(* hold media (iomenu_glue.c, video/iomenu.c, control_cmd_media.c,           *)
(* savestate.c, main.c).  The machine has a Microdisc and --disk-writeback.  *)
(*                                                                           *)
(* The content of an image is the file it was read from and the set of       *)
(* sector writes it holds.                                                   *)
EXTENDS Integers, Sequences, FiniteSets

CONSTANTS
    Drives,      \* drives of the interface: "A" to "D"
    DiskFiles,   \* .dsk files of the host
    Unreadable,  \* files that sedoric_load or fopen refuses
    TapeSize,    \* [tape file -> its length]
    MaxSectors,  \* bound: sector writes of the guest
    MaxSnaps,    \* bound: snapshots
    MaxSwaps,    \* bound: what the user does to media, configuration, process
    Reinsert,    \* the image already in the drive may be inserted again
    SwapBeforeLoad  \* a snapshot may be loaded over other media

ASSUME MediaAssumption ==
    /\ "A" \in Drives /\ Drives \subseteq {"A", "B", "C", "D"}
    /\ "none" \notin DiskFiles \cup DOMAIN TapeSize
    /\ TapeSize \in [DOMAIN TapeSize -> Nat]
    /\ {MaxSectors, MaxSnaps, MaxSwaps} \subseteq Nat
    /\ Reinsert \in BOOLEAN /\ SwapBeforeLoad \in BOOLEAN

VARIABLES
    drv,      \* [Drives -> the disk, its path and its flags]
    chip,     \* selected drive, and the FDC's copy of its bad-sector map
    store,    \* [file -> image it holds, writes it holds]
    tape,     \* the tape deck
    snaps,    \* snapshot files
    mcfg,     \* media lines of phosphoric.cfg
    page,     \* "closed", "main", or the item whose browser is open
    up,       \* the process runs
    counts,   \* writes and swaps so far
    written,  \* ghost: [file -> writes the guest made to its image]
    risked    \* ghost: [file -> writes given up to a failed save, or to a second
              \* drive that has the same file]

bayVars == <<drv, chip, store, tape, snaps, mcfg, page, up, counts, written, risked>>

NoFile == "none"
Tapes == DOMAIN TapeSize

EmptyDrive == [img |-> NoFile, data |-> {}, dirty |-> FALSE,
               path |-> NoFile, ro |-> FALSE, bad |-> FALSE]

EmptyDeck == [loaded |-> FALSE, buf |-> NoFile, len |-> 0, offs |-> 0, path |-> NoFile]

BayInit ==
    /\ drv = [d \in Drives |-> EmptyDrive]
    /\ chip = [sel |-> "A", bad |-> FALSE]
    /\ store = [f \in DiskFiles |-> [img |-> f, data |-> {}]]
    /\ tape = EmptyDeck
    /\ snaps = <<>>
    /\ mcfg = [disk |-> [d \in Drives |-> NoFile], ro |-> {}, tape |-> NoFile]
    /\ page = "closed"
    /\ up = TRUE
    /\ counts = [w |-> 0, s |-> 0]
    /\ written = [f \in DiskFiles |-> {}]
    /\ risked = [f \in DiskFiles |-> {}]

\* The drives other than d that have the image of file f.
Twins(d, f) == {e \in Drives \ {d} : drv[e].path = f}

Spend ==
    /\ counts.s < MaxSwaps
    /\ counts' = [counts EXCEPT !.s = @ + 1]

----------------------------------------------------------------------------
(* The guest.                                                                *)

\* A sector is written: the drive is dirty.
GuestWrite ==
    /\ up /\ page = "closed"
    /\ counts.w < MaxSectors
    /\ LET d == chip.sel
           w == counts.w + 1
       IN  /\ drv[d].img # NoFile /\ ~drv[d].ro /\ ~chip.bad
           /\ drv' = [drv EXCEPT ![d].data = @ \cup {w}, ![d].dirty = TRUE]
           /\ written' = [written EXCEPT ![drv[d].img] = @ \cup {w}]
           /\ risked' = IF Twins(d, drv[d].path) = {} THEN risked
                        ELSE [risked EXCEPT ![drv[d].img] = @ \cup {w}]
           /\ counts' = [counts EXCEPT !.w = w]
    /\ UNCHANGED <<chip, store, tape, snaps, mcfg, page, up>>

\* The guest selects a drive: the FDC takes the map of its medium.
GuestSelect ==
    /\ up /\ page = "closed"
    /\ \E d \in Drives \ {chip.sel} : chip' = [sel |-> d, bad |-> drv[d].bad]
    /\ UNCHANGED <<drv, store, tape, snaps, mcfg, page, up, counts, written, risked>>

\* The ROM reads a byte of the tape.
GuestTape ==
    /\ up /\ page = "closed"
    /\ tape.loaded /\ tape.offs < tape.len
    /\ tape' = [tape EXCEPT !.offs = @ + 1]
    /\ UNCHANGED <<drv, chip, store, snaps, mcfg, page, up, counts, written, risked>>

\* Fault injection: a sector of the medium goes bad.
microdisc_add_bad_sector ==
    /\ up /\ page = "closed"
    /\ Spend
    /\ \E d \in Drives :
         /\ drv[d].img # NoFile /\ ~drv[d].bad
         /\ drv' = [drv EXCEPT ![d].bad = TRUE]
         /\ chip' = IF d = chip.sel THEN [chip EXCEPT !.bad = TRUE] ELSE chip
    /\ UNCHANGED <<store, tape, snaps, mcfg, page, up, written, risked>>

----------------------------------------------------------------------------
(* Disks.                                                                    *)

\* How sedoric_save ends: the file is whole; it does not open; or it opens, which
\* empties it, and takes the first part of the image only: here the part with
\* none of the writes.
Ends == {"saved", "refused", "short"}

Saved(dr, how) == [img |-> dr.img, data |-> IF how = "saved" THEN dr.data ELSE {}]

\* The drive's image goes to the file the drive was given.
MutWriteback(h, dr, how) == h

Unsaved(dr) == dr.dirty /\ dr.img # NoFile /\ dr.path # NoFile
media_disk_writeback(h, dr, how) ==
    IF Unsaved(dr) /\ how # "refused"
    THEN [h EXCEPT ![dr.path] = Saved(dr, how)]
    ELSE h

\* After a save that failed the image is gone, and nobody knows but the log.
GivenUp(f, dr, how) ==
    IF Unsaved(dr) /\ dr.path = f /\ how # "saved" THEN written[f] \ store'[f].data
    ELSE {}

\* New medium in the slot: its surface is pristine; the FDC follows if the
\* drive is selected (emu_disk_wire, microdisc_set_disk).
Wire(d) == chip' = IF d = chip.sel THEN [chip EXCEPT !.bad = FALSE] ELSE chip

\* Another drive may have the file of the new disk: what differs in the two
\* copies is at risk.
Differ(d, disk) ==
    UNION {(drv[e].data \ disk.data) \cup (disk.data \ drv[e].data) :
               e \in IF disk.path = NoFile THEN {} ELSE Twins(d, disk.path)}

Swap(d, disk) ==
    /\ Spend
    /\ \E how \in Ends :
         /\ store' = media_disk_writeback(store, drv[d], how)
         /\ risked' = [f \in DiskFiles |->
                risked[f] \cup GivenUp(f, drv[d], how)
                          \cup IF f = disk.path THEN Differ(d, disk) ELSE {}]
    /\ drv' = [drv EXCEPT ![d] = disk]
    /\ Wire(d)
    /\ UNCHANGED <<tape, snaps, mcfg, up, written>>

\* The new image is read first, then the old one is saved and replaced.
media_disk_insert(d, f) ==
    /\ f \notin Unreadable
    /\ Reinsert \/ drv[d].path # f
    /\ Swap(d, [EmptyDrive EXCEPT !.img = store[f].img, !.data = store[f].data,
                                  !.path = f, !.ro = drv[d].ro])

media_disk_eject(d) ==
    /\ drv[d].img # NoFile
    /\ Swap(d, [EmptyDrive EXCEPT !.ro = drv[d].ro])

\* Commands of the control channel, and the OSD's browser: also an image that
\* another drive has.
ctl_cmd_load_disk ==
    /\ up /\ page = "closed"
    /\ \E d \in Drives, f \in DiskFiles : media_disk_insert(d, f)
    /\ UNCHANGED page

ctl_cmd_eject_disk ==
    /\ up /\ page = "closed"
    /\ \E d \in Drives : media_disk_eject(d)
    /\ UNCHANGED page

----------------------------------------------------------------------------
(* The F1 menu: the machine is frozen while it is open.                      *)

Still == UNCHANGED <<drv, chip, store, tape, snaps, mcfg, up, counts, written, risked>>

F1 ==
    /\ up
    /\ page' = IF page = "closed" THEN "main" ELSE "closed"
    /\ Still

\* A line of the main page opens its browser.
open_browser ==
    /\ up /\ page = "main"
    /\ page' \in Drives \cup {"tape", "snapshot"}
    /\ Still

\* The browser of a drive: eject, or an image no other drive holds; the choice
\* is refused and the browser stays, or the browser closes.
browse_drive ==
    /\ up /\ page \in Drives
    /\ page' = "main"
    /\ \/ media_disk_eject(page)
       \/ \E f \in DiskFiles :
            /\ Twins(page, f) = {}
            /\ media_disk_insert(page, f)
       \/ Still

\* Write protection, on the main page.
DiskProtect ==
    /\ up /\ page = "main"
    /\ Spend
    /\ \E d \in Drives : drv' = [drv EXCEPT ![d].ro = ~@]
    /\ UNCHANGED <<chip, store, tape, snaps, mcfg, page, up, written, risked>>

media_tape_insert(t) ==
    /\ t \notin Unreadable
    /\ tape' = [loaded |-> TRUE, buf |-> t, len |-> TapeSize[t], offs |-> 0, path |-> t]

media_tape_eject == tape.loaded /\ tape' = EmptyDeck

browse_tape ==
    /\ up /\ page = "tape"
    /\ Spend
    /\ media_tape_eject \/ \E t \in Tapes : media_tape_insert(t)
    /\ page' = "main"
    /\ UNCHANGED <<drv, chip, store, snaps, mcfg, up, written, risked>>

TapeRewind ==
    /\ up /\ page = "main"
    /\ tape.loaded
    /\ tape' = [tape EXCEPT !.offs = 0]
    /\ UNCHANGED <<drv, chip, store, snaps, mcfg, page, up, counts, written, risked>>

----------------------------------------------------------------------------
(* Snapshots.                                                                *)

\* The sections that hold media: MDC, DSK, BAD, TAP.  The bytes of the tape are
\* not saved, nor the path and the dirty flag of a drive.
savestate_save ==
    [file |-> "whole",
     sel |-> chip.sel,
     disk |-> [d \in {e \in Drives : drv[e].img # NoFile} |->
                  [img |-> drv[d].img, data |-> drv[d].data]],
     bad |-> [d \in Drives |-> drv[d].bad],
     tape |-> [loaded |-> tape.loaded, len |-> tape.len, offs |-> tape.offs],
     \* ghost: the media the snapshot was taken with
     with |-> [disk |-> [d \in Drives |-> drv[d].path], tape |-> tape.path]]

\* Next free name; a host disk that is full leaves a file without its CRC, or
\* with no section.
SnapshotSave ==
    /\ up /\ page = "snapshot"
    /\ Len(snaps) < MaxSnaps
    /\ \E s \in {savestate_save} \cup [file : {"torn", "header"}] :
         snaps' = Append(snaps, s)
    /\ page' = "main"
    /\ UNCHANGED <<drv, chip, store, tape, mcfg, up, counts, written, risked>>

\* DSK fills the drives the snapshot names and leaves the others; BAD replaces
\* every map, then the FDC takes the one of the drive MDC selected.
LoadDisks(s) ==
    [d \in Drives |->
        IF d \in DOMAIN s.disk
        THEN [drv[d] EXCEPT !.img = s.disk[d].img, !.data = s.disk[d].data,
                            !.bad = s.bad[d]]
        ELSE [drv[d] EXCEPT !.bad = s.bad[d]]]

\* microdisc_sync_bad_map, once MDC, DSK and BAD are read.
LoadFdc(s) == [sel |-> s.sel, bad |-> s.bad[s.sel]]

SameMedia(s) ==
    /\ \A d \in Drives : drv[d].path = s.with.disk[d]
    /\ tape.path = s.with.tape

\* A torn file is refused and nothing changes; a header alone has the CRC of
\* nothing, is taken, and restores nothing; a whole one closes the menu too.
savestate_load ==
    /\ up /\ page = "snapshot"
    /\ \E i \in 1..Len(snaps) :
         LET s == snaps[i] IN
         \/ /\ s.file # "whole"
            /\ page' = IF s.file = "torn" THEN "main" ELSE "closed"
            /\ UNCHANGED <<drv, chip, tape, written>>
         \/ /\ s.file = "whole"
            /\ SwapBeforeLoad \/ SameMedia(s)
            /\ drv' = LoadDisks(s)
            /\ chip' = LoadFdc(s)
            /\ tape' = [tape EXCEPT !.loaded = s.tape.loaded, !.len = s.tape.len,
                                    !.offs = s.tape.offs]
            /\ written' = [f \in DiskFiles |->
                 IF \E d \in Drives : f \in {drv[d].img, drv'[d].img}
                 THEN written[f] \cap UNION {drv'[d].data : d \in
                                              {e \in Drives : drv'[e].img = f}}
                 ELSE written[f]]
            /\ page' = "closed"
    /\ UNCHANGED <<store, snaps, mcfg, up, counts, risked>>

----------------------------------------------------------------------------
(* Configuration, exit and launch.                                           *)

SaveMediaConfig ==
    /\ up /\ page = "main"
    /\ Spend
    /\ mcfg' = [disk |-> [d \in Drives |->
                    IF drv[d].img # NoFile THEN drv[d].path ELSE NoFile],
                ro |-> {d \in Drives : drv[d].ro},
                tape |-> IF tape.loaded THEN tape.path ELSE NoFile]
    /\ UNCHANGED <<drv, chip, store, tape, snaps, page, up, written, risked>>

\* Exit: every dirty drive is written back, from A to D.
Rank == [A |-> 1, B |-> 2, C |-> 3, D |-> 4]
Savers(f, how) ==
    {d \in Drives : Unsaved(drv[d]) /\ drv[d].path = f /\ how[d] # "refused"}
LastSaver(f, how) ==
    CHOOSE d \in Savers(f, how) : \A e \in Savers(f, how) : Rank[e] <= Rank[d]
Finish(how) ==
    [f \in DiskFiles |->
        IF Savers(f, how) = {} THEN store[f]
        ELSE Saved(drv[LastSaver(f, how)], how[LastSaver(f, how)])]

main_finish ==
    /\ up
    /\ Spend
    /\ \E how \in [Drives -> Ends] :
         /\ store' = Finish(how)
         /\ risked' = [f \in DiskFiles |->
                risked[f] \cup UNION {GivenUp(f, drv[d], how[d]) : d \in Drives}]
    /\ drv' = [d \in Drives |-> EmptyDrive]
    /\ tape' = EmptyDeck
    /\ page' = "closed"
    /\ up' = FALSE
    /\ UNCHANGED <<chip, snaps, mcfg, written>>

\* Launch with phosphoric.cfg and no media on the command line.
Launch ==
    /\ ~up
    /\ up' = TRUE
    /\ drv' = [d \in Drives |->
         LET f == mcfg.disk[d]
             ro == d \in mcfg.ro
         IN  IF f = NoFile THEN [EmptyDrive EXCEPT !.ro = ro]
             ELSE [EmptyDrive EXCEPT !.img = store[f].img, !.data = store[f].data,
                                     !.path = f, !.ro = ro]]
    /\ chip' = [sel |-> "A", bad |-> FALSE]
    /\ tape' = IF mcfg.tape = NoFile THEN EmptyDeck
               ELSE [loaded |-> TRUE, buf |-> mcfg.tape, len |-> TapeSize[mcfg.tape],
                     offs |-> 0, path |-> mcfg.tape]
    /\ UNCHANGED <<store, snaps, mcfg, page, counts, written, risked>>

BayNext ==
    \/ GuestWrite
    \/ GuestSelect
    \/ GuestTape
    \/ microdisc_add_bad_sector
    \/ ctl_cmd_load_disk
    \/ ctl_cmd_eject_disk
    \/ F1
    \/ open_browser
    \/ browse_drive
    \/ DiskProtect
    \/ browse_tape
    \/ TapeRewind
    \/ SnapshotSave
    \/ savestate_load
    \/ SaveMediaConfig
    \/ main_finish
    \/ Launch

BaySpec == BayInit /\ [][BayNext]_bayVars
----------------------------------------------------------------------------

\* Every sector the guest wrote is in the .dsk file or will be: in a drive that
\* is dirty and knows the file.  Lost are at most the writes that were not yet
\* saved when their own save failed, and those in which two drives with one file
\* differ.  (A snapshot takes back later writes.)
NothingWrittenIsLost ==
    \A f \in DiskFiles :
        written[f] \subseteq risked[f] \cup store[f].data \cup
            UNION {drv[d].data : d \in {e \in Drives :
                      drv[e].img = f /\ drv[e].dirty /\ drv[e].path = f}}

\* A write-back never puts the content of one image in the file of another
\* ("never clobber a .dsk by accident", main_finish).
ImageGoesToItsFile == \A f \in DiskFiles : store[f].img = f

\* The tape deck plays the tape it shows, inside its length.
TapeIsWhole ==
    tape.loaded => /\ tape.buf = tape.path
                   /\ tape.len = TapeSize[tape.buf]
                   /\ tape.offs <= tape.len

\* The media of the user are safe through swaps, snapshots, the configuration
\* file and a restart, and the controller works with the maps of the medium
\* that is in the selected drive.
MediaAreKept ==
    /\ NothingWrittenIsLost
    /\ ImageGoesToItsFile
    /\ TapeIsWhole
    /\ up => chip.bad = drv[chip.sel].bad
============================================================================
