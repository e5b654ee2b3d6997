-------------------------- MODULE DiskBoardProofs --------------------------
(***************************************************************************)
(* What holds of the disk interface for every number of drives, every set  *)
(* of media, every geometry and every program: types, the drive that the   *)
(* chip works with, the interrupt line, and, for a polite guest, a chip    *)
(* that is quiet when idle and alive when busy.                            *)
(*                                                                         *)
(* None of these is inductive alone.  A byte that is read is a byte only   *)
(* if the offset is inside a sector that is there: Within.  The last two   *)
(* need what the chip is doing: Phase says that it is idle, or ends a      *)
(* command, or transfers.  Each operator of Fdc gets a lemma saying that   *)
(* it Keeps the medium and the interrupt line, leaves the chip Within and  *)
(* leads from one phase to another; each action of DiskBoard then follows  *)
(* from the lemma of the operator it applies.                              *)
(***************************************************************************)
EXTENDS DiskBoard, SequenceTheorems, TLAPS

\* The CPU's view of the interrupt, for a chip f; r: was the CPU reset?
Line(f, r) ==
  LET a == IF f.board = "microdisc" THEN f.intrq /\ f.intena ELSE f.drq
  IN (f.irq => a) /\ (a /\ ~r => f.irq)

\* No transfer reaches outside the sector it works on.
Within(f) ==
  /\ f.op \in SectorOps \cup {"READ_ADDRESS"} => f.cur # NoSector
  /\ f.op \in SectorOps /\ ~(f.stream /\ f.timing = "REAL")
       => f.offset < SectorLen
  /\ f.op \in WriteOps /\ ~f.stream_crc => f.offset < SectorLen
  /\ f.op = "READ_ADDRESS" => f.offset < AddressLen
  /\ f.op = "WRITE_TRACK" /\ f.wt_state = 2 => f.offset < SectorLen
  /\ f.wt_state = 1 => f.wt_idx < IdLen

SameMedium(f, g) ==
  g.disk = f.disk /\ g.bad = f.bad /\ g.protected = f.protected

Keeps(f, g) ==
  g \in Chip /\ SameMedium(f, g) /\ \A r \in BOOLEAN : Line(f, r) => Line(g, r)

Same(f, g) ==
  /\ SameMedium(f, g)
  /\ g.board = f.board /\ g.intena = f.intena
  /\ g.drq = f.drq /\ g.intrq = f.intrq /\ g.irq = f.irq

\* A chip that differs from f in its lines only.
Lines == {"drq", "intrq", "irq"}
Rest(f, g) == \A x \in DOMAIN f \ Lines : g[x] = f[x]

-----------------------------------------------------------------------------
(* Lemmas about Keeps *)

LEMMA SameKeeps ==
  ASSUME NEW f \in Chip, NEW g \in Chip, Same(f, g)
  PROVE  Keeps(f, g)
BY DEF Same, Keeps, Line

LEMMA KeepsTrans ==
  ASSUME NEW f, NEW g, NEW h, Keeps(f, g), Keeps(g, h)
  PROVE  Keeps(f, h)
BY DEF Keeps, SameMedium

LEMMA SetDrqLemma ==
  ASSUME NEW f \in Chip
  PROVE  /\ Keeps(f, set_drq(f)) /\ Rest(f, set_drq(f))
         /\ set_drq(f).drq = TRUE /\ set_drq(f).intrq = f.intrq
<1> DEFINE b == f.irq \/ f.board = "jasmin"
           g == [f EXCEPT !.drq = TRUE, !.irq = b]
<1>1. b \in BOOLEAN
  BY DEF Chip
<1>2. set_drq(f) = g
  BY DEF set_drq
<1> HIDE DEF b
<1>3. g \in Chip
  BY <1>1 DEF Chip
<1>4. /\ Rest(f, g)
      /\ g.disk = f.disk /\ g.bad = f.bad /\ g.protected = f.protected
      /\ g.board = f.board /\ g.intena = f.intena
      /\ g.drq = TRUE /\ g.intrq = f.intrq /\ g.irq = b
  BY <1>1 DEF Chip, Rest, Lines
<1>5. ASSUME NEW r \in BOOLEAN, Line(f, r)
      PROVE  Line(g, r)
  BY <1>4, <1>5 DEF b, Line, Chip
<1> QED BY <1>2, <1>3, <1>4, <1>5 DEF Keeps, SameMedium

LEMMA ClrDrqLemma ==
  ASSUME NEW f \in Chip
  PROVE  /\ Keeps(f, clr_drq(f)) /\ Rest(f, clr_drq(f))
         /\ clr_drq(f).drq = FALSE /\ clr_drq(f).intrq = f.intrq
<1> DEFINE b == f.irq /\ f.board # "jasmin"
           g == [f EXCEPT !.drq = FALSE, !.irq = b]
<1>1. b \in BOOLEAN
  BY DEF Chip
<1>2. clr_drq(f) = g
  BY DEF clr_drq
<1> HIDE DEF b
<1>3. g \in Chip
  BY <1>1 DEF Chip
<1>4. /\ Rest(f, g)
      /\ g.disk = f.disk /\ g.bad = f.bad /\ g.protected = f.protected
      /\ g.board = f.board /\ g.intena = f.intena
      /\ g.drq = FALSE /\ g.intrq = f.intrq /\ g.irq = b
  BY <1>1 DEF Chip, Rest, Lines
<1>5. ASSUME NEW r \in BOOLEAN, Line(f, r)
      PROVE  Line(g, r)
  BY <1>4, <1>5 DEF b, Line, Chip
<1> QED BY <1>2, <1>3, <1>4, <1>5 DEF Keeps, SameMedium

LEMMA SetIntrqLemma ==
  ASSUME NEW f \in Chip
  PROVE  /\ Keeps(f, set_intrq(f)) /\ Rest(f, set_intrq(f))
         /\ set_intrq(f).intrq = TRUE /\ set_intrq(f).drq = f.drq
<1> DEFINE b == f.irq \/ (f.board = "microdisc" /\ f.intena)
           g == [f EXCEPT !.intrq = TRUE, !.irq = b]
<1>1. b \in BOOLEAN
  BY DEF Chip
<1>2. set_intrq(f) = g
  BY DEF set_intrq
<1> HIDE DEF b
<1>3. g \in Chip
  BY <1>1 DEF Chip
<1>4. /\ Rest(f, g)
      /\ g.disk = f.disk /\ g.bad = f.bad /\ g.protected = f.protected
      /\ g.board = f.board /\ g.intena = f.intena
      /\ g.intrq = TRUE /\ g.drq = f.drq /\ g.irq = b
  BY <1>1 DEF Chip, Rest, Lines
<1>5. ASSUME NEW r \in BOOLEAN, Line(f, r)
      PROVE  Line(g, r)
  BY <1>4, <1>5 DEF b, Line, Chip
<1> QED BY <1>2, <1>3, <1>4, <1>5 DEF Keeps, SameMedium

LEMMA ClrIntrqLemma ==
  ASSUME NEW f \in Chip
  PROVE  /\ Keeps(f, clr_intrq(f)) /\ Rest(f, clr_intrq(f))
         /\ clr_intrq(f).intrq = FALSE /\ clr_intrq(f).drq = f.drq
<1> DEFINE b == f.irq /\ f.board # "microdisc"
           g == [f EXCEPT !.intrq = FALSE, !.irq = b]
<1>1. b \in BOOLEAN
  BY DEF Chip
<1>2. clr_intrq(f) = g
  BY DEF clr_intrq
<1> HIDE DEF b
<1>3. g \in Chip
  BY <1>1 DEF Chip
<1>4. /\ Rest(f, g)
      /\ g.disk = f.disk /\ g.bad = f.bad /\ g.protected = f.protected
      /\ g.board = f.board /\ g.intena = f.intena
      /\ g.intrq = FALSE /\ g.drq = f.drq /\ g.irq = b
  BY <1>1 DEF Chip, Rest, Lines
<1>5. ASSUME NEW r \in BOOLEAN, Line(f, r)
      PROVE  Line(g, r)
  BY <1>4, <1>5 DEF b, Line, Chip
<1> QED BY <1>2, <1>3, <1>4, <1>5 DEF Keeps, SameMedium

LEMMA DrqOnLemma ==
  ASSUME NEW f \in Chip
  PROVE  /\ Keeps(f, DrqOn(f))
         /\ Rest([f EXCEPT !.status = f.status \cup {DRQ}], DrqOn(f))
         /\ DrqOn(f).drq = TRUE /\ DrqOn(f).intrq = f.intrq
<1> DEFINE g == [f EXCEPT !.status = f.status \cup {DRQ}]
<1>1. g \in Chip /\ Same(f, g)
  BY DEF Same, SameMedium, Chip, StatusBits
<1>2. Keeps(f, g) /\ g \in Chip /\ g.intrq = f.intrq
  BY <1>1, SameKeeps DEF Keeps, Same
<1>3. DrqOn(f) = set_drq(g)
  BY DEF DrqOn
<1> HIDE DEF g
<1>4. /\ Keeps(g, set_drq(g)) /\ Rest(g, set_drq(g))
      /\ set_drq(g).drq = TRUE /\ set_drq(g).intrq = g.intrq
  BY <1>2, SetDrqLemma
<1> QED BY <1>2, <1>3, <1>4, KeepsTrans DEF g

LEMMA DrqOffLemma ==
  ASSUME NEW f \in Chip
  PROVE  /\ Keeps(f, DrqOff(f))
         /\ Rest([f EXCEPT !.status = f.status \ {DRQ}], DrqOff(f))
         /\ DrqOff(f).drq = FALSE /\ DrqOff(f).intrq = f.intrq
<1> DEFINE g == [f EXCEPT !.status = f.status \ {DRQ}]
<1>1. g \in Chip /\ Same(f, g)
  BY DEF Same, SameMedium, Chip, StatusBits
<1>2. Keeps(f, g) /\ g \in Chip /\ g.intrq = f.intrq
  BY <1>1, SameKeeps DEF Keeps, Same
<1>3. DrqOff(f) = clr_drq(g)
  BY DEF DrqOff
<1> HIDE DEF g
<1>4. /\ Keeps(g, clr_drq(g)) /\ Rest(g, clr_drq(g))
      /\ clr_drq(g).drq = FALSE /\ clr_drq(g).intrq = g.intrq
  BY <1>2, ClrDrqLemma
<1> QED BY <1>2, <1>3, <1>4, KeepsTrans DEF g

LEMMA RefusedLemma ==
  ASSUME NEW f \in Chip, NEW st \in SUBSET StatusBits
  PROVE  /\ Keeps(f, Refused(f, st))
         /\ Rest([f EXCEPT !.op = "NONE", !.status = st], Refused(f, st))
         /\ ~Refused(f, st).drq
<1> DEFINE g == clr_drq(f)
           h == [g EXCEPT !.op = "NONE", !.status = st]
<1>1. Keeps(f, g) /\ g \in Chip /\ Rest(f, g) /\ g.drq = FALSE
  BY ClrDrqLemma DEF Keeps
<1>2. Refused(f, st) = set_intrq(h)
  BY DEF Refused
<1> HIDE DEF g
<1>3. h \in Chip
  BY ZenonT(30), <1>1 DEF Chip, Ops
<1>4. Same(g, h)
  BY <1>1 DEF Same, SameMedium, Chip
<1>5. Rest([f EXCEPT !.op = "NONE", !.status = st], h)
  BY <1>1 DEF Rest, Lines, Chip
<1> HIDE DEF h
<1>6. Keeps(h, set_intrq(h)) /\ Rest(h, set_intrq(h)) /\ set_intrq(h).drq = h.drq
  BY <1>3, SetIntrqLemma
<1>7. Rest([f EXCEPT !.op = "NONE", !.status = st], set_intrq(h))
  BY <1>3, <1>5, <1>6 DEF Rest, Chip
<1> QED
  BY <1>1, <1>2, <1>3, <1>4, <1>6, <1>7, SameKeeps, KeepsTrans DEF Same

-----------------------------------------------------------------------------
(* The phases of a chip that a polite guest drives *)

Idle(f) ==
  /\ BUSY \notin f.status /\ f.op = "NONE"
  /\ ~f.delayed_drq /\ ~f.delayed_int /\ ~f.drq

\* INTRQ is on its way.
Ending(f) ==
  /\ BUSY \in f.status /\ DRQ \notin f.status /\ f.op = "NONE"
  /\ ~f.delayed_drq /\ ~f.drq
  /\ f.delayed_int \/ (f.type1 /\ f.direction = 1 /\ f.c_track = 0)

\* A transfer waits for its sector, moves with the platter or asks for a byte.
Working(f) ==
  /\ BUSY \in f.status /\ f.op # "NONE" /\ ~f.delayed_int
  /\ f.drq <=> DRQ \in f.status
  /\ f.stream => fdc_streamed(f) /\ ~f.delayed_drq
  /\ ~f.stream => (f.delayed_drq <=> ~f.drq)

Phase(f) == Idle(f) \/ Ending(f) \/ Working(f)

LEMMA FindLemma ==
  ASSUME NEW f \in Chip, NEW s \in Bytes
  PROVE  fdc_find_sector(f, s) \in Sector \cup {NoSector}
BY DEF fdc_find_sector, Sector, Chip

LEMMA AcceptedLemma ==
  ASSUME NEW f \in Chip, NEW t \in BOOLEAN
  PROVE  /\ Keeps(f, Accepted(f, t))
         /\ Rest([f EXCEPT !.stream = FALSE, !.stream_crc = FALSE, !.type1 = t],
                 Accepted(f, t))
         /\ Accepted(f, t).drq = f.drq
<1> DEFINE g == clr_intrq(f)
           h == [g EXCEPT !.stream = FALSE, !.stream_crc = FALSE, !.type1 = t]
<1>1. Keeps(f, g) /\ g \in Chip /\ Rest(f, g) /\ g.drq = f.drq
  BY ClrIntrqLemma DEF Keeps
<1>2. Accepted(f, t) = h
  BY DEF Accepted
<1> HIDE DEF g
<1>3. h \in Chip
  BY ZenonT(30), <1>1 DEF Chip
<1>4. Same(g, h)
  BY <1>1 DEF Same, SameMedium, Chip
<1>5. Rest([f EXCEPT !.stream = FALSE, !.stream_crc = FALSE, !.type1 = t], h)
  BY ZenonT(30), <1>1 DEF Rest, Lines, Chip
<1> QED BY <1>1, <1>2, <1>3, <1>4, <1>5, SameKeeps, KeepsTrans DEF Same

LEMMA NotFoundLemma ==
  ASSUME NEW f \in Chip, f.wt_state = 1 => f.wt_idx < IdLen
  PROVE  /\ Keeps(f, fdc_record_not_found(f))
         /\ Within(fdc_record_not_found(f))
         /\ ~f.delayed_drq /\ ~f.delayed_int => Phase(fdc_record_not_found(f))
<1>1. CASE f.timing = "REAL"
  <2> DEFINE g == clr_drq(f)
             h == [g EXCEPT !.op = "NONE", !.status = {BUSY}]
             k == Posted(h, {NOT_FOUND})
  <2>1. Keeps(f, g) /\ g \in Chip /\ Rest(f, g) /\ g.drq = FALSE
    BY ClrDrqLemma DEF Keeps
  <2>2. fdc_record_not_found(f) = k
    BY <1>1 DEF fdc_record_not_found
  <2> HIDE DEF g
  <2>3. k \in Chip
    BY ZenonT(30), <2>1 DEF Chip, Posted, Ops, StatusBits, BUSY, NOT_FOUND
  <2>4. Same(g, k)
    BY <2>1 DEF Same, SameMedium, Chip, Posted
  <2>5. /\ k.op = "NONE" /\ k.wt_state = f.wt_state /\ k.wt_idx = f.wt_idx
        /\ k.status = {BUSY} /\ k.delayed_drq = f.delayed_drq
        /\ k.delayed_int = TRUE /\ k.drq = FALSE
    BY <2>1 DEF Rest, Lines, Chip, Posted
  <2> HIDE DEF k
  <2>6. Within(k)
    BY <2>5 DEF Within, SectorOps, ReadOps, WriteOps
  <2>7. ~f.delayed_drq => Phase(k)
    BY <2>5 DEF Phase, Ending, BUSY, DRQ
  <2> QED BY <2>1, <2>2, <2>3, <2>4, <2>6, <2>7, SameKeeps, KeepsTrans
<1>2. CASE f.timing # "REAL"
  <2> DEFINE k == Refused(f, {NOT_FOUND})
  <2>1. fdc_record_not_found(f) = k
    BY <1>2 DEF fdc_record_not_found
  <2>2. /\ Keeps(f, k) /\ ~k.drq
        /\ Rest([f EXCEPT !.op = "NONE", !.status = {NOT_FOUND}], k)
    BY RefusedLemma DEF StatusBits
  <2> HIDE DEF k
  <2>3. /\ k.op = "NONE" /\ k.wt_state = f.wt_state /\ k.wt_idx = f.wt_idx
        /\ k.status = {NOT_FOUND} /\ k.delayed_drq = f.delayed_drq
        /\ k.delayed_int = f.delayed_int
    BY ZenonT(30), <2>2 DEF Rest, Lines, Chip
  <2>4. Within(k)
    BY <2>3 DEF Within, SectorOps, ReadOps, WriteOps
  <2>5. ~f.delayed_drq /\ ~f.delayed_int => Phase(k)
    BY <2>2, <2>3 DEF Phase, Idle, BUSY, NOT_FOUND
  <2> QED BY <2>1, <2>2, <2>4, <2>5
<1> QED BY <1>1, <1>2

LEMMA NotFoundOp ==
  ASSUME NEW f \in Chip
  PROVE  fdc_record_not_found(f).op = "NONE"
<1>1. CASE f.timing = "REAL"
  <2>1. clr_drq(f) \in Chip
    BY ClrDrqLemma DEF Keeps
  <2> QED BY <1>1, <2>1 DEF fdc_record_not_found, Posted, Chip
<1>2. CASE f.timing # "REAL"
  <2>1. Rest([f EXCEPT !.op = "NONE", !.status = {NOT_FOUND}],
             fdc_record_not_found(f))
    BY <1>2, RefusedLemma DEF fdc_record_not_found, StatusBits
  <2> QED BY <2>1 DEF Rest, Lines, Chip
<1> QED BY <1>1, <1>2

-----------------------------------------------------------------------------
(* The commands.  Started(f, g): g is f after a command.                   *)

Started(f, g) == Keeps(f, g) /\ Within(g) /\ (Idle(f) => Phase(g))

LEMMA SeekLemma ==
  ASSUME NEW f \in Chip, NEW target \in Nat,
         f.op = "NONE", f.wt_state = 1 => f.wt_idx < IdLen, f.status = {BUSY}
  PROVE  /\ Keeps(f, fdc_seek_track(f, target))
         /\ Within(fdc_seek_track(f, target))
         /\ ~f.delayed_drq /\ ~f.delayed_int /\ ~f.drq
              => Phase(fdc_seek_track(f, target))
<1>1. CASE f.disk # NoDisk
  <2> DEFINE t == IF target >= Tracks THEN Tracks - 1 ELSE target
             st == (IF target >= Tracks THEN {SEEK_ERR} ELSE {PULSE})
                   \cup (IF t = 0 THEN {TRK0} ELSE {})
             k == Posted([f EXCEPT !.c_track = t], st)
  <2>1. fdc_seek_track(f, target) = k
    BY <1>1 DEF fdc_seek_track
  <2>2. t \in 0 .. Tracks - 1
    BY GeometryAssumption
  <2>3. st \in SUBSET (StatusBits \ {BUSY})
    BY DEF StatusBits, BUSY, SEEK_ERR, PULSE, TRK0, DRQ, LOST_DATA, NOT_FOUND
  <2> HIDE DEF t, st
  <2>4. k \in Chip
    BY <2>2, <2>3 DEF Posted, Chip
  <2>5. Same(f, k)
    BY DEF Same, SameMedium, Posted, Chip
  <2>6. /\ k.op = "NONE" /\ k.wt_state = f.wt_state /\ k.wt_idx = f.wt_idx
        /\ k.status = {BUSY} /\ k.delayed_drq = f.delayed_drq
        /\ k.delayed_int = TRUE /\ k.drq = f.drq
    BY DEF Posted, Chip
  <2> HIDE DEF k
  <2>7. Within(k)
    BY <2>6 DEF Within, SectorOps, ReadOps, WriteOps
  <2>8. ~f.delayed_drq /\ ~f.drq => Phase(k)
    BY <2>6 DEF Phase, Ending, BUSY, DRQ
  <2> QED BY <2>1, <2>4, <2>5, <2>7, <2>8, SameKeeps
<1>2. CASE f.disk = NoDisk
  <2> DEFINE h == [f EXCEPT !.status = {NOT_READY, SEEK_ERR}]
             k == set_intrq(h)
  <2>1. fdc_seek_track(f, target) = k
    BY <1>2 DEF fdc_seek_track
  <2>2. h \in Chip
    BY DEF Chip, StatusBits, NOT_READY, SEEK_ERR, NOT_FOUND
  <2>3. Same(f, h)
    BY DEF Same, SameMedium, Chip
  <2>4. /\ h.op = "NONE" /\ h.wt_state = f.wt_state /\ h.wt_idx = f.wt_idx
        /\ h.status = {NOT_READY, SEEK_ERR} /\ h.delayed_drq = f.delayed_drq
        /\ h.delayed_int = f.delayed_int /\ h.drq = f.drq
    BY DEF Chip
  <2> HIDE DEF h
  <2>5. Keeps(h, k) /\ Rest(h, k) /\ k.drq = h.drq
    BY <2>2, SetIntrqLemma
  <2> HIDE DEF k
  <2>6. /\ k.op = "NONE" /\ k.wt_state = f.wt_state /\ k.wt_idx = f.wt_idx
        /\ k.status = {NOT_READY, SEEK_ERR} /\ k.delayed_drq = f.delayed_drq
        /\ k.delayed_int = f.delayed_int
    BY <2>2, <2>4, <2>5 DEF Rest, Lines, Chip
  <2>7. Within(k)
    BY <2>6 DEF Within, SectorOps, ReadOps, WriteOps
  <2>8. ~f.delayed_drq /\ ~f.delayed_int /\ ~f.drq => Phase(k)
    BY <2>4, <2>5, <2>6 DEF Phase, Idle, BUSY, NOT_READY, SEEK_ERR, NOT_FOUND
  <2> QED BY <2>1, <2>2, <2>3, <2>5, <2>7, <2>8, SameKeeps, KeepsTrans
<1> QED BY <1>1, <1>2

LEMMA TypeILemma ==
  ASSUME NEW f \in Chip, Within(f), NEW d \in 0 .. 1
  PROVE  LET g == TypeI(f, d)
         IN /\ g \in Chip /\ Keeps(f, g)
            /\ g.op = "NONE" /\ (g.wt_state = 1 => g.wt_idx < IdLen)
            /\ g.status = {BUSY} /\ g.type1 = TRUE /\ g.direction = d
            /\ g.c_track = f.c_track
            /\ g.delayed_drq = f.delayed_drq
            /\ g.delayed_int = f.delayed_int /\ g.drq = f.drq
<1> DEFINE a == Accepted(f, TRUE)
           g == [a EXCEPT !.status = {BUSY}, !.direction = d, !.op = "NONE"]
<1>1. TypeI(f, d) = g
  BY DEF TypeI
<1>2. /\ a \in Chip /\ Keeps(f, a) /\ a.drq = f.drq
      /\ Rest([f EXCEPT !.stream = FALSE, !.stream_crc = FALSE, !.type1 = TRUE],
              a)
  BY AcceptedLemma DEF Keeps
<1> HIDE DEF a
<1>3. /\ a.wt_state = f.wt_state /\ a.wt_idx = f.wt_idx
      /\ a.delayed_drq = f.delayed_drq /\ a.delayed_int = f.delayed_int
      /\ a.type1 = TRUE /\ a.c_track = f.c_track
  BY ZenonT(30), <1>2 DEF Rest, Lines, Chip
<1>4. g \in Chip
  BY ZenonT(30), <1>2 DEF Chip, Ops, StatusBits
<1>5. Same(a, g)
  BY <1>2 DEF Same, SameMedium, Chip
<1>6. /\ g.op = "NONE" /\ g.wt_state = a.wt_state /\ g.wt_idx = a.wt_idx
      /\ g.status = {BUSY} /\ g.type1 = a.type1 /\ g.direction = d
      /\ g.c_track = a.c_track
      /\ g.delayed_drq = a.delayed_drq /\ g.delayed_int = a.delayed_int
      /\ g.drq = a.drq
  BY <1>2 DEF Chip
<1> HIDE DEF g
<1>7. Keeps(f, g)
  BY <1>2, <1>4, <1>5, SameKeeps, KeepsTrans
<1> QED
  BY <1>1, <1>2, <1>3, <1>4, <1>6, <1>7 DEF Within

LEMMA SeekingLemma ==
  ASSUME NEW f \in Chip, Within(f), NEW d \in 0 .. 1, NEW target \in Nat
  PROVE  Started(f, fdc_seek_track(TypeI(f, d), target))
<1> DEFINE g == TypeI(f, d)
<1>1. /\ g \in Chip /\ Keeps(f, g)
      /\ g.op = "NONE" /\ (g.wt_state = 1 => g.wt_idx < IdLen)
      /\ g.status = {BUSY}
      /\ g.delayed_drq = f.delayed_drq
      /\ g.delayed_int = f.delayed_int /\ g.drq = f.drq
  BY TypeILemma
<1> HIDE DEF g
<1>2. /\ Keeps(g, fdc_seek_track(g, target))
      /\ Within(fdc_seek_track(g, target))
      /\ ~g.delayed_drq /\ ~g.delayed_int /\ ~g.drq
           => Phase(fdc_seek_track(g, target))
  BY <1>1, SeekLemma
<1> QED BY <1>1, <1>2, KeepsTrans DEF Started, Idle, g

LEMMA TypeICommandsLemma ==
  ASSUME NEW f \in Chip, Within(f)
  PROVE  /\ Started(f, restore(f)) /\ Started(f, seek(f)) /\ Started(f, step(f))
         /\ Started(f, step_in(f)) /\ Started(f, step_out(f))
<1>1. /\ f.direction \in 0 .. 1 /\ 0 \in 0 .. 1 /\ 1 \in 0 .. 1
      /\ f.data \in Nat /\ f.c_track \in Nat
      /\ f.c_track > 0 => f.c_track - 1 \in Nat
  BY DEF Chip, Bytes
<1>2. Started(f, restore(f))
  BY <1>1, SeekingLemma DEF restore
<1>3. Started(f, seek(f))
  BY <1>1, SeekingLemma DEF seek
<1>4. Started(f, step(f))
  <2> DEFINE t == IF f.direction = 0 THEN f.c_track + 1
                  ELSE IF f.c_track > 0 THEN f.c_track - 1 ELSE 0
  <2>1. t \in Nat
    BY <1>1
  <2> HIDE DEF t
  <2>2. Started(f, fdc_seek_track(TypeI(f, f.direction), t))
    BY <1>1, <2>1, SeekingLemma
  <2> QED BY <2>2 DEF step, t
<1>5. Started(f, step_in(f))
  BY <1>1, SeekingLemma DEF step_in
<1>6. Started(f, step_out(f))
  <2>1. CASE f.c_track > 0
    BY <1>1, <2>1, SeekingLemma DEF step_out
  <2>2. CASE ~(f.c_track > 0)
    <3> DEFINE g == TypeI(f, 1)
    <3>1. step_out(f) = g /\ f.c_track = 0
      BY <1>1, <2>2 DEF step_out
    <3>2. /\ Keeps(f, g)
          /\ g.op = "NONE" /\ (g.wt_state = 1 => g.wt_idx < IdLen)
          /\ g.status = {BUSY} /\ g.type1 = TRUE /\ g.direction = 1
          /\ g.c_track = f.c_track
          /\ g.delayed_drq = f.delayed_drq /\ g.drq = f.drq
      BY <1>1, TypeILemma
    <3> HIDE DEF g
    <3>3. Within(g)
      BY <3>2 DEF Within, SectorOps, ReadOps, WriteOps
    <3>4. Idle(f) => Phase(g)
      BY <3>1, <3>2 DEF Idle, Phase, Ending, BUSY, DRQ
    <3> QED BY <3>1, <3>2, <3>3, <3>4 DEF Started
  <2> QED BY <2>1, <2>2
<1> QED BY <1>2, <1>3, <1>4, <1>5, <1>6

\* A chip that has just accepted a command of type II or III.
LEMMA AcceptedIILemma ==
  ASSUME NEW f \in Chip, Within(f)
  PROVE  LET g == Accepted(f, FALSE)
         IN /\ g \in Chip /\ Keeps(f, g)
            /\ g.wt_state = 1 => g.wt_idx < IdLen
            /\ ~g.stream /\ g.drq = f.drq
            /\ g.delayed_drq = f.delayed_drq /\ g.delayed_int = f.delayed_int
            /\ g.sector = f.sector /\ g.timing = f.timing
<1> DEFINE g == Accepted(f, FALSE)
<1>1. /\ g \in Chip /\ Keeps(f, g) /\ g.drq = f.drq
      /\ Rest([f EXCEPT !.stream = FALSE, !.stream_crc = FALSE, !.type1 = FALSE],
              g)
  BY AcceptedLemma DEF Keeps
<1> HIDE DEF g
<1>2. /\ g.wt_state = f.wt_state /\ g.wt_idx = f.wt_idx
      /\ g.delayed_drq = f.delayed_drq /\ g.delayed_int = f.delayed_int
      /\ g.stream = FALSE /\ g.sector = f.sector /\ g.timing = f.timing
  BY ZenonT(30), <1>1 DEF Rest, Lines, Chip
<1> QED BY <1>1, <1>2 DEF Within, g

LEMMA RefusedII ==
  ASSUME NEW f \in Chip, Within(f), NEW st \in SUBSET (StatusBits \ {BUSY})
  PROVE  Started(f, Refused(Accepted(f, FALSE), st))
<1> DEFINE g == Accepted(f, FALSE)
           k == Refused(g, st)
<1>1. /\ g \in Chip /\ Keeps(f, g)
      /\ g.wt_state = 1 => g.wt_idx < IdLen
      /\ g.delayed_drq = f.delayed_drq /\ g.delayed_int = f.delayed_int
  BY AcceptedIILemma
<1> HIDE DEF g
<1>2. /\ Keeps(g, k) /\ ~k.drq
      /\ Rest([g EXCEPT !.op = "NONE", !.status = st], k)
  BY <1>1, RefusedLemma
<1> HIDE DEF k
<1>3. /\ k.op = "NONE" /\ k.status = st
      /\ k.wt_state = g.wt_state /\ k.wt_idx = g.wt_idx
      /\ k.delayed_drq = g.delayed_drq /\ k.delayed_int = g.delayed_int
  BY ZenonT(30), <1>1, <1>2 DEF Rest, Lines, Chip
<1>4. Within(k)
  BY <1>1, <1>3 DEF Within, SectorOps, ReadOps, WriteOps
<1>5. Idle(f) => Idle(k)
  BY <1>1, <1>2, <1>3 DEF Idle
<1> QED BY <1>1, <1>2, <1>4, <1>5, KeepsTrans DEF Started, Phase, g, k

LEMMA WaitSectorLemma ==
  ASSUME NEW f \in Chip, Within(f), NEW s \in Bytes,
         NEW op \in SectorOps \cup {"READ_ADDRESS"}
  PROVE  LET g == Accepted(f, FALSE)
             k == WaitSector(g, s, op)
         IN /\ Started(f, k)
            /\ k.op = op => k.timing = f.timing
<1> DEFINE g == Accepted(f, FALSE)
           cur == fdc_find_sector(g, s)
           h == [g EXCEPT !.offset = 0, !.cur = cur]
           k == WaitSector(g, s, op)
<1>1. /\ g \in Chip /\ Keeps(f, g)
      /\ g.wt_state = 1 => g.wt_idx < IdLen
      /\ ~g.stream /\ g.drq = f.drq
      /\ g.delayed_drq = f.delayed_drq /\ g.delayed_int = f.delayed_int
      /\ g.timing = f.timing
  BY AcceptedIILemma
<1> HIDE DEF g
<1>2. cur \in Sector \cup {NoSector}
  BY <1>1, FindLemma
<1> HIDE DEF cur
<1>3. h \in Chip
  BY <1>1, <1>2 DEF Chip
<1>4. Same(g, h)
  BY <1>1 DEF Same, SameMedium, Chip
<1>5. Keeps(f, h)
  BY <1>1, <1>3, <1>4, SameKeeps, KeepsTrans
<1>6. /\ h.wt_state = g.wt_state /\ h.wt_idx = g.wt_idx
      /\ h.delayed_drq = g.delayed_drq /\ h.delayed_int = g.delayed_int
      /\ h.drq = g.drq /\ h.stream = g.stream /\ h.timing = g.timing
      /\ h.cur = cur /\ h.offset = 0
  BY <1>1 DEF Chip
<1> HIDE DEF h
<1>7. CASE cur = NoSector
  <2>1. k = fdc_record_not_found(h)
    BY <1>7 DEF WaitSector, cur, h
  <2>2. /\ Keeps(h, k) /\ Within(k)
        /\ ~h.delayed_drq /\ ~h.delayed_int => Phase(k)
    BY <1>1, <1>3, <1>6, <2>1, NotFoundLemma
  <2>3. Idle(f) => Phase(k)
    BY <1>1, <1>6, <2>2 DEF Idle
  <2>4. Started(f, k)
    BY <1>5, <2>2, <2>3, KeepsTrans DEF Started
  <2>5. k.op # op
    <3>1. k.op = "NONE"
      BY <1>3, <2>1, NotFoundOp
    <3> QED BY <3>1 DEF SectorOps, ReadOps, WriteOps
  <2> QED BY <2>4, <2>5 DEF g
<1>8. CASE cur # NoSector
  <2>1. k = [h EXCEPT !.status = {BUSY, NOT_READY}, !.delayed_drq = TRUE,
                      !.op = op]
    BY <1>8 DEF WaitSector, cur, h
  <2> HIDE DEF k
  <2>2. k \in Chip
    <3>1. op \in Ops /\ {BUSY, NOT_READY} \in SUBSET StatusBits
      BY DEF Ops, StatusBits
    <3> QED BY ZenonT(30), <1>3, <2>1, <3>1 DEF Chip
  <2>3. Same(h, k)
    BY <1>3, <2>1 DEF Same, SameMedium, Chip
  <2>4. /\ k.op = op /\ k.cur = cur /\ k.offset = 0
        /\ k.wt_state = h.wt_state /\ k.wt_idx = h.wt_idx
        /\ k.status = {BUSY, NOT_READY} /\ k.delayed_drq = TRUE
        /\ k.delayed_int = h.delayed_int /\ k.drq = h.drq
        /\ k.stream = h.stream /\ k.timing = h.timing
    BY <1>3, <1>6, <2>1 DEF Chip
  <2>5. Within(k)
    BY <1>1, <1>6, <1>8, <2>4, GeometryAssumption
    DEF Within, SectorOps, ReadOps, WriteOps, AddressLen
  <2>6. Idle(f) => Working(k)
    BY <1>1, <1>6, <2>4
    DEF Idle, Working, SectorOps, ReadOps, WriteOps, BUSY, NOT_READY, DRQ
  <2> QED
    BY <1>1, <1>3, <1>5, <1>6, <2>2, <2>3, <2>4, <2>5, <2>6, SameKeeps, KeepsTrans
    DEF Started, Phase, g, k
<1> QED BY <1>7, <1>8

LEMMA ReadSectorLemma ==
  ASSUME NEW f \in Chip, Within(f), NEW op \in ReadOps
  PROVE  Started(f, read_sector(f, op))
<1>1. {NOT_READY} \in SUBSET (StatusBits \ {BUSY})
  BY DEF StatusBits, BUSY, NOT_READY
<1>2. Started(f, Refused(Accepted(f, FALSE), {NOT_READY}))
  BY <1>1, RefusedII
<1>3. f.sector \in Bytes /\ op \in SectorOps \cup {"READ_ADDRESS"}
  BY DEF Chip, SectorOps
<1>4. Started(f, WaitSector(Accepted(f, FALSE), f.sector, op))
  BY <1>3, WaitSectorLemma
<1> QED BY <1>2, <1>4 DEF read_sector, fdc_not_ready

LEMMA WriteSectorLemma ==
  ASSUME NEW f \in Chip, Within(f), NEW op \in WriteOps
  PROVE  Started(f, write_sector(f, op))
<1>1. /\ {NOT_READY} \in SUBSET (StatusBits \ {BUSY})
      /\ {WRITE_PROT} \in SUBSET (StatusBits \ {BUSY})
  BY DEF StatusBits, BUSY, NOT_READY, WRITE_PROT
<1>2. Started(f, Refused(Accepted(f, FALSE), {NOT_READY}))
  BY <1>1, RefusedII
<1>3. Started(f, Refused(Accepted(f, FALSE), {WRITE_PROT}))
  BY <1>1, RefusedII
<1>4. f.sector \in Bytes /\ op \in SectorOps \cup {"READ_ADDRESS"}
  BY DEF Chip, SectorOps
<1>5. Started(f, WaitSector(Accepted(f, FALSE), f.sector, op))
  BY <1>4, WaitSectorLemma
<1> QED BY <1>2, <1>3, <1>5 DEF write_sector, fdc_not_ready, fdc_write_protected

LEMMA ReadAddressLemma ==
  ASSUME NEW f \in Chip, Within(f)
  PROVE  Started(f, read_address(f))
<1> DEFINE h == WaitSector(Accepted(f, FALSE), 1, "READ_ADDRESS")
           d == [h EXCEPT !.delayed_drq = f.delayed_drq]
           k == DrqOn(d)
<1>1. {NOT_READY} \in SUBSET (StatusBits \ {BUSY})
  BY DEF StatusBits, BUSY, NOT_READY
<1>2. Started(f, fdc_not_ready(Accepted(f, FALSE)))
  BY <1>1, RefusedII DEF fdc_not_ready
<1>3. 1 \in Bytes
  BY ByteAssumption DEF Bytes
<1>4. Started(f, h) /\ h \in Chip
  BY <1>3, WaitSectorLemma DEF Started, Keeps
<1>5. /\ f.disk = NoDisk => read_address(f) = fdc_not_ready(Accepted(f, FALSE))
      /\ f.disk # NoDisk /\ h.op = "READ_ADDRESS" /\ f.timing = "FAST"
           => read_address(f) = k
      /\ f.disk # NoDisk /\ ~(h.op = "READ_ADDRESS" /\ f.timing = "FAST")
           => read_address(f) = h
  BY DEF read_address
<1> HIDE DEF h
<1>6. ASSUME h.op = "READ_ADDRESS"
      PROVE  Started(f, k)
  <2>1. d \in Chip
    BY <1>4 DEF Chip
  <2>2. Same(h, d)
    BY <1>4 DEF Same, SameMedium, Chip
  <2>3. /\ d.op = h.op /\ d.cur = h.cur /\ d.offset = h.offset
        /\ d.stream = h.stream /\ d.status = h.status
        /\ d.wt_state = h.wt_state /\ d.wt_idx = h.wt_idx
        /\ d.delayed_drq = f.delayed_drq /\ d.delayed_int = h.delayed_int
    BY <1>4 DEF Chip
  <2> HIDE DEF d
  <2>4. /\ Keeps(d, k) /\ k.drq = TRUE
        /\ Rest([d EXCEPT !.status = d.status \cup {DRQ}], k)
    BY <2>1, DrqOnLemma
  <2> HIDE DEF k
  <2>5. /\ k.op = d.op /\ k.cur = d.cur /\ k.offset = d.offset
        /\ k.stream = d.stream /\ k.status = d.status \cup {DRQ}
        /\ k.wt_state = d.wt_state /\ k.wt_idx = d.wt_idx
        /\ k.delayed_drq = d.delayed_drq /\ k.delayed_int = d.delayed_int
    BY <2>1, <2>4 DEF Rest, Lines, Chip
  <2>6. Within(k)
    BY <1>4, <1>6, <2>3, <2>5
    DEF Started, Within, SectorOps, ReadOps, WriteOps
  <2>7. Idle(f) => Working(k)
    BY <1>4, <1>6, <2>3, <2>4, <2>5
    DEF Started, Phase, Idle, Ending, Working, fdc_streamed, SectorOps, ReadOps,
        WriteOps
  <2>8. Keeps(f, k)
    BY <1>4, <2>1, <2>2, <2>4, SameKeeps, KeepsTrans DEF Started
  <2> QED BY <2>6, <2>7, <2>8 DEF Started, Phase
<1> QED BY <1>2, <1>4, <1>5, <1>6

LEMMA ReadTrackLemma ==
  ASSUME NEW f \in Chip, Within(f)
  PROVE  Started(f, read_track(f))
<1> DEFINE g == Accepted(f, FALSE)
           k == [g EXCEPT !.status = {BUSY, NOT_READY}, !.delayed_drq = TRUE,
                          !.op = "READ_TRACK"]
<1>1. {NOT_READY} \in SUBSET (StatusBits \ {BUSY})
  BY DEF StatusBits, BUSY, NOT_READY
<1>2. Started(f, fdc_not_ready(g))
  BY <1>1, RefusedII DEF fdc_not_ready
<1>3. read_track(f) = IF f.disk = NoDisk THEN fdc_not_ready(g) ELSE k
  BY DEF read_track
<1>4. /\ g \in Chip /\ Keeps(f, g)
      /\ g.wt_state = 1 => g.wt_idx < IdLen
      /\ ~g.stream /\ g.drq = f.drq
      /\ g.delayed_int = f.delayed_int
  BY AcceptedIILemma
<1> HIDE DEF g
<1>5. k \in Chip
  <2>1. {BUSY, NOT_READY} \in SUBSET StatusBits
    BY DEF StatusBits
  <2> QED BY ZenonT(30), <1>4, <2>1 DEF Chip, Ops
<1>6. Same(g, k)
  BY <1>4 DEF Same, SameMedium, Chip
<1>7. /\ k.op = "READ_TRACK" /\ k.status = {BUSY, NOT_READY}
      /\ k.wt_state = g.wt_state /\ k.wt_idx = g.wt_idx
      /\ k.delayed_drq = TRUE /\ k.delayed_int = g.delayed_int
      /\ k.drq = g.drq /\ k.stream = g.stream
  BY <1>4 DEF Chip
<1> HIDE DEF k
<1>8. Within(k)
  BY <1>4, <1>7 DEF Within, SectorOps, ReadOps, WriteOps
<1>9. Idle(f) => Working(k)
  BY <1>4, <1>7 DEF Idle, Working, BUSY, NOT_READY, DRQ
<1>10. Started(f, k)
  BY <1>4, <1>5, <1>6, <1>8, <1>9, SameKeeps, KeepsTrans DEF Started, Phase
<1> QED BY <1>2, <1>3, <1>10

LEMMA WriteTrackLemma ==
  ASSUME NEW f \in Chip, Within(f)
  PROVE  Started(f, write_track(f))
<1> DEFINE a == Accepted(f, FALSE)
           g == clr_drq(a)
           k == [g EXCEPT !.status = {BUSY, NOT_READY},
                   !.delayed_drq = TRUE, !.delayed_int = FALSE, !.wt_state = 0,
                   !.wt_idx = 0, !.wt_done = 0, !.cur = NoSector,
                   !.op = "WRITE_TRACK"]
<1>1. /\ {NOT_READY} \in SUBSET (StatusBits \ {BUSY})
      /\ {WRITE_PROT} \in SUBSET (StatusBits \ {BUSY})
  BY DEF StatusBits, BUSY, NOT_READY, WRITE_PROT
<1>2. Started(f, fdc_not_ready(a)) /\ Started(f, fdc_write_protected(a))
  BY <1>1, RefusedII DEF fdc_not_ready, fdc_write_protected
<1>3. write_track(f) = IF f.disk = NoDisk THEN fdc_not_ready(a)
                       ELSE IF f.protected THEN fdc_write_protected(a)
                       ELSE k
  BY DEF write_track
<1>4. a \in Chip /\ Keeps(f, a) /\ ~a.stream
  BY AcceptedIILemma
<1> HIDE DEF a
<1>5. g \in Chip /\ Keeps(a, g) /\ Rest(a, g) /\ g.drq = FALSE
  BY <1>4, ClrDrqLemma DEF Keeps
<1>6. g.stream = a.stream
  BY <1>4, <1>5 DEF Rest, Lines, Chip
<1> HIDE DEF g
<1>7. k \in Chip
  <2>1. /\ {BUSY, NOT_READY} \in SUBSET StatusBits
        /\ 0 \in Bytes /\ 0 \in 0 .. IdLen /\ 0 \in 0 .. 2
    BY ByteAssumption DEF StatusBits, Bytes, IdLen
  <2> DEFINE h == [g EXCEPT !.status = {BUSY, NOT_READY}, !.delayed_drq = TRUE,
                            !.delayed_int = FALSE, !.wt_state = 0]
  <2>2. h \in Chip
    BY ZenonT(30), <1>5, <2>1 DEF Chip
  <2>3. k = [h EXCEPT !.wt_idx = 0, !.wt_done = 0, !.cur = NoSector,
                      !.op = "WRITE_TRACK"]
    BY <1>5
  <2> HIDE DEF h, k
  <2>4. "WRITE_TRACK" \in Ops /\ NoSector \in Sector \cup {NoSector}
    BY DEF Ops
  <2> QED BY ZenonT(30), <2>1, <2>2, <2>3, <2>4 DEF Chip
<1>8. Same(g, k)
  BY <1>5 DEF Same, SameMedium, Chip
<1>9. /\ k.op = "WRITE_TRACK" /\ k.status = {BUSY, NOT_READY}
      /\ k.wt_state = 0 /\ k.delayed_drq = TRUE /\ k.delayed_int = FALSE
      /\ k.drq = g.drq /\ k.stream = g.stream
  BY <1>5 DEF Chip
<1> HIDE DEF k
<1>10. Within(k)
  BY <1>9 DEF Within, SectorOps, ReadOps, WriteOps
<1>11. Working(k)
  BY <1>4, <1>5, <1>6, <1>9 DEF Working, BUSY, NOT_READY, DRQ
<1>12. Started(f, k)
  BY <1>4, <1>5, <1>7, <1>8, <1>10, <1>11, SameKeeps, KeepsTrans
  DEF Started, Phase
<1> QED BY <1>2, <1>3, <1>12

LEMMA ForceLemma ==
  ASSUME NEW f \in Chip, Within(f), NEW now \in BOOLEAN
  PROVE  /\ Keeps(f, force_interrupt(f, now))
         /\ Within(force_interrupt(f, now))
         /\ Idle(force_interrupt(f, now))
<1> DEFINE a == clr_intrq(f)
           b == clr_drq(a)
           g == [b EXCEPT !.status = {}, !.type1 = TRUE, !.delayed_int = FALSE,
                          !.delayed_drq = FALSE, !.op = "NONE"]
<1>1. a \in Chip /\ Keeps(f, a) /\ Rest(f, a)
  BY ClrIntrqLemma DEF Keeps
<1>2. force_interrupt(f, now) = IF now THEN set_intrq(g) ELSE g
  BY DEF force_interrupt
<1> HIDE DEF a
<1>3. b \in Chip /\ Keeps(a, b) /\ Rest(a, b) /\ b.drq = FALSE
  BY <1>1, ClrDrqLemma DEF Keeps
<1> HIDE DEF b
<1>4. b.wt_state = f.wt_state /\ b.wt_idx = f.wt_idx
  BY <1>1, <1>3 DEF Rest, Lines, Chip
<1>5. g \in Chip
  BY ZenonT(30), <1>3 DEF Chip, Ops
<1>6. Same(b, g)
  BY <1>3 DEF Same, SameMedium, Chip
<1>7. /\ g.op = "NONE" /\ g.status = {} /\ g.delayed_drq = FALSE
      /\ g.delayed_int = FALSE /\ g.drq = b.drq
      /\ g.wt_state = b.wt_state /\ g.wt_idx = b.wt_idx
  BY <1>3 DEF Chip
<1> HIDE DEF g
<1>8. Keeps(f, g)
  BY <1>1, <1>3, <1>5, <1>6, SameKeeps, KeepsTrans
<1>9. Within(g) /\ Idle(g)
  BY <1>3, <1>4, <1>7 DEF Within, Idle, SectorOps, ReadOps, WriteOps
<1> DEFINE k == set_intrq(g)
<1>10. Keeps(g, k) /\ Rest(g, k) /\ k.drq = g.drq
  BY <1>5, SetIntrqLemma
<1> HIDE DEF k
<1>11. /\ k.op = g.op /\ k.status = g.status /\ k.delayed_drq = g.delayed_drq
       /\ k.delayed_int = g.delayed_int
       /\ k.wt_state = g.wt_state /\ k.wt_idx = g.wt_idx
  BY <1>5, <1>10 DEF Rest, Lines, Chip
<1>12. Within(k) /\ Idle(k)
  BY <1>3, <1>4, <1>7, <1>10, <1>11 DEF Within, Idle, SectorOps, ReadOps, WriteOps
<1>13. Keeps(f, k)
  BY <1>8, <1>10, KeepsTrans
<1> QED BY <1>2, <1>8, <1>9, <1>12, <1>13 DEF k

LEMMA CommandLemma ==
  ASSUME NEW f \in Chip, Within(f), NEW c \in Commands
  PROVE  /\ Started(f, fdc_command(f, c))
         /\ c \in Forces => Idle(fdc_command(f, c))
<1>1. CASE c \in {"RESTORE", "SEEK", "STEP", "STEP_IN", "STEP_OUT"}
  <2>1. \/ fdc_command(f, c) = restore(f) \/ fdc_command(f, c) = seek(f)
        \/ fdc_command(f, c) = step(f) \/ fdc_command(f, c) = step_in(f)
        \/ fdc_command(f, c) = step_out(f)
    BY <1>1 DEF fdc_command, ReadOps, WriteOps, Forces
  <2>2. c \notin Forces
    BY <1>1 DEF Forces
  <2> QED BY <2>1, <2>2, TypeICommandsLemma
<1>2. CASE c \in ReadOps
  <2>1. fdc_command(f, c) = read_sector(f, c) /\ c \notin Forces
    BY <1>2 DEF fdc_command, ReadOps, WriteOps, Forces
  <2> QED BY <1>2, <2>1, ReadSectorLemma
<1>3. CASE c \in WriteOps
  <2>1. fdc_command(f, c) = write_sector(f, c) /\ c \notin Forces
    BY <1>3 DEF fdc_command, ReadOps, WriteOps, Forces
  <2> QED BY <1>3, <2>1, WriteSectorLemma
<1>4. CASE c \in {"READ_ADDRESS", "READ_TRACK", "WRITE_TRACK"}
  <2>1. /\ c \notin Forces
        /\ \/ fdc_command(f, c) = read_address(f)
           \/ fdc_command(f, c) = read_track(f)
           \/ fdc_command(f, c) = write_track(f)
    BY <1>4 DEF fdc_command, ReadOps, WriteOps, Forces
  <2> QED BY <2>1, ReadAddressLemma, ReadTrackLemma, WriteTrackLemma
<1>5. CASE c \in Forces
  <2>1. fdc_command(f, c) = force_interrupt(f, c = "FORCE_D8")
    BY <1>5 DEF fdc_command, ReadOps, WriteOps, Forces
  <2> QED BY <2>1, ForceLemma DEF Started, Phase
<1> QED
  BY <1>1, <1>2, <1>3, <1>4, <1>5 DEF Commands, Ops, SectorOps

-----------------------------------------------------------------------------
(* The data register.  Served(f, g): g is f after an access to it.         *)

Served(f, g) ==
  /\ Keeps(f, g) /\ Within(g)
  /\ Working(f) /\ DRQ \in f.status => Phase(g)

Images == [Media -> [Cell -> Bytes]]

LEMMA ByteLemma ==
  ASSUME NEW im \in Images, NEW s \in Sector, NEW o \in Nat, o < SectorLen
  PROVE  ByteAt(im, s, o) \in Bytes
<1>1. CellOf(s, o) \in Cell
  BY GeometryAssumption DEF CellOf, Cell, Place, Offsets, Sector
<1>2. im[s.medium] \in [Cell -> Bytes]
  BY DEF Images, Sector
<1> QED BY <1>1, <1>2 DEF ByteAt

LEMMA StoredLemma ==
  ASSUME NEW im \in Images, NEW s, NEW o, NEW v \in Bytes
  PROVE  Stored(im, s, o, v) \in Images
<1> DEFINE row == [im[s.medium] EXCEPT ![CellOf(s, o)] = v]
<1>1. Stored(im, s, o, v) = [im EXCEPT ![s.medium] = row]
  BY DEF Stored
<1>2. s.medium \in Media => row \in [Cell -> Bytes]
  BY DEF Images
<1> HIDE DEF row
<1> QED BY <1>1, <1>2 DEF Images

\* A busy chip between two bytes.
Between(f) ==
  /\ BUSY \in f.status /\ DRQ \notin f.status /\ ~f.drq
  /\ ~f.delayed_drq /\ ~f.delayed_int /\ ~f.stream

LEMMA PostedLemma ==
  ASSUME NEW f \in Chip, f.wt_state = 1 => f.wt_idx < IdLen,
         NEW st \in SUBSET (StatusBits \ {BUSY})
  PROVE  LET k == Posted([f EXCEPT !.op = "NONE"], st)
         IN Keeps(f, k) /\ Within(k) /\ (Between(f) => Phase(k))
<1> DEFINE k == Posted([f EXCEPT !.op = "NONE"], st)
<1>1. k \in Chip
  BY DEF Posted, Chip, Ops
<1>2. Same(f, k)
  BY DEF Posted, Same, SameMedium, Chip
<1>3. /\ k.op = "NONE" /\ k.wt_state = f.wt_state /\ k.wt_idx = f.wt_idx
      /\ k.status = f.status /\ k.delayed_drq = f.delayed_drq
      /\ k.delayed_int = TRUE /\ k.drq = f.drq
  BY DEF Posted, Chip
<1> HIDE DEF k
<1>4. Within(k)
  BY <1>3 DEF Within, SectorOps, ReadOps, WriteOps
<1>5. Between(f) => Ending(k)
  BY <1>3 DEF Between, Ending
<1> QED BY <1>1, <1>2, <1>4, <1>5, SameKeeps DEF Phase, k

LEMMA SectorDoneLemma ==
  ASSUME NEW f \in Chip, f.wt_state = 1 => f.wt_idx < IdLen,
         NEW st \in SUBSET (StatusBits \ {BUSY})
  PROVE  LET k == SectorDone(f, st)
         IN Keeps(f, k) /\ Within(k) /\ (Between(f) => Phase(k))
<1> DEFINE id == (f.sector + 1) % (MaxByte + 1)
           next == fdc_find_sector(f, id)
           g == [f EXCEPT !.sector = id, !.offset = 0, !.cur = next]
           k == SectorDone(f, st)
<1>1. CASE f.op \notin MultiOps
  BY <1>1, PostedLemma DEF SectorDone
<1>2. CASE f.op \in MultiOps
  <2>1. id \in Bytes
    BY ByteAssumption DEF Chip, Bytes
  <2>2. next \in Sector \cup {NoSector}
    BY <2>1, FindLemma
  <2>3. k = IF next = NoSector
            THEN Posted([g EXCEPT !.op = "NONE"], st \cup {NOT_FOUND})
            ELSE [g EXCEPT !.delayed_drq = TRUE]
    BY <1>2 DEF SectorDone
  <2> HIDE DEF id, next, k
  <2>4. g \in Chip
    BY <2>1, <2>2 DEF Chip
  <2>5. Same(f, g)
    BY DEF Same, SameMedium, Chip
  <2>6. /\ g.wt_state = f.wt_state /\ g.wt_idx = f.wt_idx /\ g.op = f.op
        /\ g.status = f.status /\ g.drq = f.drq /\ g.stream = f.stream
        /\ g.delayed_drq = f.delayed_drq /\ g.delayed_int = f.delayed_int
        /\ g.offset = 0 /\ g.cur = next
    BY DEF Chip
  <2> HIDE DEF g
  <2>7. Between(f) => Between(g)
    BY <2>6 DEF Between
  <2>8. CASE next = NoSector
    <3>1. st \cup {NOT_FOUND} \in SUBSET (StatusBits \ {BUSY})
      BY DEF StatusBits, BUSY, NOT_FOUND
    <3>2. Keeps(g, k) /\ Within(k) /\ (Between(g) => Phase(k))
      BY <2>3, <2>4, <2>6, <2>8, <3>1, PostedLemma
    <3> QED BY <2>4, <2>5, <2>7, <3>2, SameKeeps, KeepsTrans DEF k
  <2>9. CASE next # NoSector
    <3>1. k = [g EXCEPT !.delayed_drq = TRUE]
      BY <2>3, <2>9
    <3>2. k \in Chip
      BY ZenonT(30), <2>4, <3>1 DEF Chip
    <3>3. Same(g, k)
      BY <2>4, <3>1 DEF Same, SameMedium, Chip
    <3>4. /\ k.wt_state = g.wt_state /\ k.wt_idx = g.wt_idx /\ k.op = g.op
          /\ k.status = g.status /\ k.drq = g.drq /\ k.stream = g.stream
          /\ k.delayed_drq = TRUE /\ k.delayed_int = g.delayed_int
          /\ k.offset = 0 /\ k.cur = next
      BY <2>4, <2>6, <3>1 DEF Chip
    <3>5. Within(k)
      BY <1>2, <2>6, <2>9, <3>4, GeometryAssumption
      DEF Within, MultiOps, SectorOps, ReadOps, WriteOps
    <3>6. Between(g) => Working(k)
      BY <1>2, <2>6, <3>4 DEF Between, Working, MultiOps
    <3> QED
      BY <2>4, <2>5, <2>7, <3>2, <3>3, <3>5, <3>6, SameKeeps, KeepsTrans
      DEF Phase, k
  <2> QED BY <2>8, <2>9
<1> QED BY <1>1, <1>2

\* After DRQ is served, a transfer that is not streamed is between two bytes.
LEMMA ServedLemma ==
  ASSUME NEW f \in Chip
  PROVE  LET g == DrqOff(f)
         IN /\ g \in Chip /\ Keeps(f, g) /\ g.drq = FALSE
            /\ g.status = f.status \ {DRQ} /\ g.op = f.op /\ g.cur = f.cur
            /\ g.offset = f.offset /\ g.stream = f.stream
            /\ g.stream_crc = f.stream_crc /\ g.timing = f.timing
            /\ g.wt_state = f.wt_state /\ g.wt_idx = f.wt_idx
            /\ g.delayed_drq = f.delayed_drq /\ g.delayed_int = f.delayed_int
            /\ g.wt_done = f.wt_done /\ g.disk = f.disk
<1> DEFINE g == DrqOff(f)
<1>1. /\ g \in Chip /\ Keeps(f, g) /\ g.drq = FALSE
      /\ Rest([f EXCEPT !.status = f.status \ {DRQ}], g)
  BY DrqOffLemma DEF Keeps
<1> HIDE DEF g
<1>2. /\ g.status = f.status \ {DRQ} /\ g.op = f.op /\ g.cur = f.cur
      /\ g.offset = f.offset /\ g.stream = f.stream
      /\ g.stream_crc = f.stream_crc /\ g.timing = f.timing
  BY <1>1 DEF Rest, Lines, Chip
<1>3. /\ g.wt_state = f.wt_state /\ g.wt_idx = f.wt_idx
      /\ g.delayed_drq = f.delayed_drq /\ g.delayed_int = f.delayed_int
      /\ g.wt_done = f.wt_done /\ g.disk = f.disk
  BY <1>1 DEF Rest, Lines, Chip
<1> QED BY <1>1, <1>2, <1>3 DEF g

\* The DRQ of a streamed transfer is served and the byte goes on with the
\* platter.
LEMMA StreamServedLemma ==
  ASSUME NEW f \in Chip, Within(f), f.stream
  PROVE  Served(f, DrqOff(f))
<1> DEFINE g == DrqOff(f)
<1>1. /\ g \in Chip /\ Keeps(f, g) /\ g.drq = FALSE
      /\ g.status = f.status \ {DRQ} /\ g.op = f.op /\ g.cur = f.cur
      /\ g.offset = f.offset /\ g.stream = f.stream
      /\ g.stream_crc = f.stream_crc /\ g.timing = f.timing
      /\ g.wt_state = f.wt_state /\ g.wt_idx = f.wt_idx
      /\ g.delayed_drq = f.delayed_drq /\ g.delayed_int = f.delayed_int
  BY ServedLemma
<1> HIDE DEF g
<1>2. Within(g)
  BY <1>1 DEF Within
<1>3. Working(f) => Working(g)
  BY <1>1 DEF Working, fdc_streamed, BUSY, DRQ
<1> QED BY <1>1, <1>2, <1>3 DEF Served, Phase, g

\* After a byte that the CPU paced: g differs from the chip f that served it in
\* the data register, the flag and the offset.
LEMMA NextByteLemma ==
  ASSUME NEW g \in Chip, g.op \in SectorOps, g.cur # NoSector,
         g.wt_state = 1 => g.wt_idx < IdLen
  PROVE  LET k == NextByte(g)
         IN Keeps(g, k) /\ Within(k) /\ (Between(g) => Phase(k))
<1> DEFINE k == NextByte(g)
<1>1. CASE g.offset >= SectorLen
  <2>1. k = SectorDone(g, {})
    BY <1>1 DEF NextByte
  <2>2. {} \in SUBSET (StatusBits \ {BUSY})
    OBVIOUS
  <2> QED BY <2>1, <2>2, SectorDoneLemma
<1>2. CASE ~(g.offset >= SectorLen)
  <2>1. k = [g EXCEPT !.delayed_drq = TRUE]
    BY <1>2 DEF NextByte
  <2> HIDE DEF k
  <2>2. k \in Chip
    BY ZenonT(30), <2>1 DEF Chip
  <2>3. Same(g, k)
    BY <2>1 DEF Same, SameMedium, Chip
  <2>4. /\ k.wt_state = g.wt_state /\ k.wt_idx = g.wt_idx /\ k.op = g.op
        /\ k.status = g.status /\ k.drq = g.drq /\ k.stream = g.stream
        /\ k.delayed_drq = TRUE /\ k.delayed_int = g.delayed_int
        /\ k.offset = g.offset /\ k.cur = g.cur
    BY <2>1 DEF Chip
  <2>5. g.offset < SectorLen
    BY <1>2, GeometryAssumption DEF Chip
  <2>6. Within(k)
    BY <2>4, <2>5 DEF Within, SectorOps, ReadOps, WriteOps
  <2>7. Between(g) => Working(k)
    BY <2>4 DEF Between, Working, SectorOps, ReadOps, WriteOps
  <2> QED BY <2>2, <2>3, <2>6, <2>7, SameKeeps DEF Phase, k
<1> QED BY <1>1, <1>2

LEMMA ReadByteLemma ==
  ASSUME NEW f \in Chip, Within(f), NEW im \in Images, f.op \in ReadOps
  PROVE  Served(f, read_sector_byte(f, im))
<1>1. f.cur # NoSector /\ f.op \in SectorOps
  BY DEF Within, SectorOps
<1>2. CASE f.stream
  <2>1. read_sector_byte(f, im) = DrqOff(f)
    BY <1>1, <1>2 DEF read_sector_byte
  <2> QED BY <1>2, <2>1, StreamServedLemma
<1>3. CASE ~f.stream
  <2> DEFINE v == ByteAt(im, f.cur, f.offset)
             a == DrqOff(f)
             o == a.offset + 1
             g == [a EXCEPT !.data = v, !.offset = o]
             k == NextByte(g)
  <2>1. read_sector_byte(f, im) = k
    BY <1>1, <1>3 DEF read_sector_byte
  <2>2. v \in Bytes
    <3>1. f.cur \in Sector /\ f.offset \in Nat /\ f.offset < SectorLen
      BY <1>1, <1>3 DEF Chip, Within
    <3> QED BY <3>1, ByteLemma
  <2> HIDE DEF v
  <2>3. /\ a \in Chip /\ Keeps(f, a) /\ a.drq = FALSE
        /\ a.status = f.status \ {DRQ} /\ a.op = f.op /\ a.cur = f.cur
        /\ a.stream = f.stream
        /\ a.wt_state = f.wt_state /\ a.wt_idx = f.wt_idx
        /\ a.delayed_drq = f.delayed_drq /\ a.delayed_int = f.delayed_int
    BY ServedLemma
  <2> HIDE DEF a
  <2>4. g \in Chip
    <3>1. o \in Nat
      BY <2>3 DEF Chip
    <3> HIDE DEF o
    <3> QED BY <2>2, <2>3, <3>1 DEF Chip
  <2>5. Same(a, g)
    BY <2>3 DEF Same, SameMedium, Chip
  <2>6. /\ g.op = a.op /\ g.cur = a.cur /\ g.stream = a.stream
        /\ g.status = a.status /\ g.drq = a.drq
        /\ g.wt_state = a.wt_state /\ g.wt_idx = a.wt_idx
        /\ g.delayed_drq = a.delayed_drq /\ g.delayed_int = a.delayed_int
    BY <2>3 DEF Chip
  <2> HIDE DEF g
  <2>7. Keeps(g, k) /\ Within(k) /\ (Between(g) => Phase(k))
    BY <1>1, <2>3, <2>4, <2>6, NextByteLemma DEF Within
  <2>8. Working(f) /\ DRQ \in f.status => Between(g)
    BY <1>3, <2>3, <2>6 DEF Working, Between, BUSY, DRQ
  <2> QED
    BY <2>1, <2>3, <2>4, <2>5, <2>7, <2>8, SameKeeps, KeepsTrans DEF Served
<1> QED BY <1>2, <1>3

LEMMA WriteByteLemma ==
  ASSUME NEW f \in Chip, Within(f), f.op \in WriteOps
  PROVE  Served(f, write_sector_byte(f))
<1>1. f.cur # NoSector /\ f.op \in SectorOps
  BY DEF Within, SectorOps
<1>2. CASE f.stream
  <2>1. write_sector_byte(f) = DrqOff(f)
    BY <1>1, <1>2 DEF write_sector_byte
  <2> QED BY <1>2, <2>1, StreamServedLemma
<1>3. CASE ~f.stream
  <2> DEFINE a == DrqOff(f)
             o == a.offset + 1
             g == [a EXCEPT !.offset = o, !.modified = TRUE]
             k == NextByte(g)
  <2>1. write_sector_byte(f) = k
    BY <1>1, <1>3 DEF write_sector_byte
  <2>2. /\ a \in Chip /\ Keeps(f, a) /\ a.drq = FALSE
        /\ a.status = f.status \ {DRQ} /\ a.op = f.op /\ a.cur = f.cur
        /\ a.stream = f.stream
        /\ a.wt_state = f.wt_state /\ a.wt_idx = f.wt_idx
        /\ a.delayed_drq = f.delayed_drq /\ a.delayed_int = f.delayed_int
    BY ServedLemma
  <2> HIDE DEF a
  <2>3. g \in Chip
    <3>1. o \in Nat
      BY <2>2 DEF Chip
    <3> HIDE DEF o
    <3> QED BY <2>2, <3>1 DEF Chip
  <2>4. Same(a, g)
    BY <2>2 DEF Same, SameMedium, Chip
  <2>5. /\ g.op = a.op /\ g.cur = a.cur /\ g.stream = a.stream
        /\ g.status = a.status /\ g.drq = a.drq
        /\ g.wt_state = a.wt_state /\ g.wt_idx = a.wt_idx
        /\ g.delayed_drq = a.delayed_drq /\ g.delayed_int = a.delayed_int
    BY <2>2 DEF Chip
  <2> HIDE DEF g
  <2>6. Keeps(g, k) /\ Within(k) /\ (Between(g) => Phase(k))
    BY <1>1, <2>2, <2>3, <2>5, NextByteLemma DEF Within
  <2>7. Working(f) /\ DRQ \in f.status => Between(g)
    BY <1>3, <2>2, <2>5 DEF Working, Between, BUSY, DRQ
  <2> QED
    BY <2>1, <2>2, <2>3, <2>4, <2>6, <2>7, SameKeeps, KeepsTrans DEF Served
<1> QED BY <1>2, <1>3

\* A transfer that asks for one more byte later.
LEMMA AgainLemma ==
  ASSUME NEW g \in Chip, Within(g), g.op # "NONE", g.op \notin SectorOps
  PROVE  LET k == [g EXCEPT !.delayed_drq = TRUE]
         IN Keeps(g, k) /\ Within(k) /\ (Between(g) => Phase(k))
<1> DEFINE k == [g EXCEPT !.delayed_drq = TRUE]
<1>1. k \in Chip
  BY DEF Chip
<1>2. Same(g, k)
  BY DEF Same, SameMedium, Chip
<1>3. /\ k.wt_state = g.wt_state /\ k.wt_idx = g.wt_idx /\ k.op = g.op
      /\ k.status = g.status /\ k.drq = g.drq /\ k.stream = g.stream
      /\ k.delayed_drq = TRUE /\ k.delayed_int = g.delayed_int
      /\ k.offset = g.offset /\ k.cur = g.cur /\ k.stream_crc = g.stream_crc
  BY DEF Chip
<1> HIDE DEF k
<1>4. Within(k)
  BY <1>3 DEF Within
<1>5. Between(g) => Working(k)
  BY <1>3 DEF Between, Working
<1> QED BY <1>1, <1>2, <1>4, <1>5, SameKeeps DEF Phase, k

LEMMA ReadAddressByteLemma ==
  ASSUME NEW f \in Chip, Within(f), f.op = "READ_ADDRESS"
  PROVE  Served(f, read_address_byte(f))
<1> DEFINE a == DrqOff(f)
           v == AddressField(f)[f.offset + 1]
           s == IF f.offset = 0 THEN f.c_track ELSE a.sector
           o == a.offset + 1
           g == [a EXCEPT !.data = v, !.sector = s, !.offset = o]
           k == read_address_byte(f)
<1>1. /\ a \in Chip /\ Keeps(f, a) /\ a.drq = FALSE
      /\ a.status = f.status \ {DRQ} /\ a.op = f.op /\ a.cur = f.cur
      /\ a.stream = f.stream /\ a.offset = f.offset
      /\ a.wt_state = f.wt_state /\ a.wt_idx = f.wt_idx
      /\ a.delayed_drq = f.delayed_drq /\ a.delayed_int = f.delayed_int
  BY ServedLemma
<1>2. k = IF g.offset >= AddressLen
          THEN Posted([g EXCEPT !.op = "NONE"], {})
          ELSE [g EXCEPT !.delayed_drq = TRUE]
  BY DEF read_address_byte
<1>3. v \in Bytes
  <2>1. /\ 0 \in Bytes /\ 1 \in Bytes /\ f.c_track \in Bytes /\ f.side \in Bytes
        /\ f.sector \in Bytes
    BY ByteAssumption, GeometryAssumption DEF Bytes, Chip
  <2>2. f.offset + 1 \in 1 .. 6
    BY DEF Within, Chip, AddressLen
  <2> QED BY <2>1, <2>2 DEF AddressField
<1>4. s \in Bytes
  BY <1>1, ByteAssumption, GeometryAssumption DEF Bytes, Chip
<1> HIDE DEF a, v, s, k
<1>5. g \in Chip
  <2>1. o \in Nat
    BY <1>1 DEF Chip
  <2> HIDE DEF o
  <2> QED BY <1>1, <1>3, <1>4, <2>1 DEF Chip
<1>6. Same(a, g)
  BY <1>1 DEF Same, SameMedium, Chip
<1>7. /\ g.op = a.op /\ g.cur = a.cur /\ g.stream = a.stream
      /\ g.status = a.status /\ g.drq = a.drq /\ g.offset = a.offset + 1
      /\ g.wt_state = a.wt_state /\ g.wt_idx = a.wt_idx
      /\ g.delayed_drq = a.delayed_drq /\ g.delayed_int = a.delayed_int
  BY <1>1 DEF Chip
<1> HIDE DEF g
<1>8. Working(f) /\ DRQ \in f.status => Between(g)
  BY <1>1, <1>7
  DEF Working, Between, fdc_streamed, SectorOps, ReadOps, WriteOps, BUSY, DRQ
<1>9. g.wt_state = 1 => g.wt_idx < IdLen
  BY <1>1, <1>7 DEF Within
<1>10. Keeps(g, k) /\ Within(k) /\ (Between(g) => Phase(k))
  <2>1. CASE g.offset >= AddressLen
    <3>1. {} \in SUBSET (StatusBits \ {BUSY})
      OBVIOUS
    <3> QED BY <1>2, <1>5, <1>9, <2>1, <3>1, PostedLemma
  <2>2. CASE ~(g.offset >= AddressLen)
    <3>1. g.offset < AddressLen
      BY <1>5, <2>2 DEF Chip, AddressLen
    <3>2. Within(g)
      BY <1>1, <1>7, <1>9, <3>1 DEF Within, SectorOps, ReadOps, WriteOps
    <3>3. g.op # "NONE" /\ g.op \notin SectorOps
      BY <1>1, <1>7 DEF SectorOps, ReadOps, WriteOps
    <3> QED BY <1>2, <1>5, <2>2, <3>2, <3>3, AgainLemma
  <2> QED BY <2>1, <2>2
<1> QED
  BY <1>1, <1>5, <1>6, <1>8, <1>10, SameKeeps, KeepsTrans DEF Served, k

\* The parser of a formatted track moves in its own fields.
Parsed(f, g) ==
  /\ g.op = f.op /\ g.status = f.status /\ g.drq = f.drq /\ g.stream = f.stream
  /\ g.delayed_drq = f.delayed_drq /\ g.delayed_int = f.delayed_int

LEMMA FormatLemma ==
  ASSUME NEW f \in Chip, Within(f), f.op = "WRITE_TRACK", NEW v \in Bytes
  PROVE  LET g == FormatByte(f, v)
         IN g \in Chip /\ Keeps(f, g) /\ Within(g) /\ Parsed(f, g)
<1> DEFINE g == FormatByte(f, v)
<1> USE DEF Parsed
<1>1. CASE f.wt_state = 0 /\ v = ID_AM
  <2>1. g = [f EXCEPT !.wt_state = 1, !.wt_idx = 0]
    BY <1>1, ByteAssumption DEF FormatByte
  <2> HIDE DEF g
  <2>2. 0 \in 0 .. IdLen /\ 1 \in 0 .. 2 /\ 0 < IdLen
    BY DEF IdLen
  <2>3. g \in Chip
    BY ZenonT(30), <2>1, <2>2 DEF Chip
  <2>4. Same(f, g)
    BY <2>1 DEF Same, SameMedium, Chip
  <2>5. Parsed(f, g) /\ g.wt_state = 1 /\ g.wt_idx = 0
    BY <2>1 DEF Chip
  <2>6. Within(g)
    BY <2>2, <2>5 DEF Within, SectorOps, ReadOps, WriteOps
  <2> QED BY <2>3, <2>4, <2>5, <2>6, SameKeeps DEF g
<1>2. CASE f.wt_state = 0 /\ v # ID_AM /\ v = DATA_AM
  <2> DEFINE cur == fdc_find_sector(f, f.wt_sector)
  <2>1. g = [f EXCEPT !.wt_state = 2, !.offset = 0, !.cur = cur]
    BY <1>2, ByteAssumption DEF FormatByte
  <2>2. cur \in Sector \cup {NoSector}
    BY FindLemma DEF Chip
  <2> HIDE DEF g, cur
  <2>3. 2 \in 0 .. 2 /\ 0 < SectorLen
    BY GeometryAssumption
  <2>4. g \in Chip
    BY ZenonT(30), <2>1, <2>2, <2>3 DEF Chip
  <2>5. Same(f, g)
    BY <2>1 DEF Same, SameMedium, Chip
  <2>6. Parsed(f, g) /\ g.wt_state = 2 /\ g.offset = 0
    BY <2>1 DEF Chip
  <2>7. Within(g)
    BY <2>3, <2>6 DEF Within, SectorOps, ReadOps, WriteOps
  <2> QED BY <2>4, <2>5, <2>6, <2>7, SameKeeps DEF g
<1>3. CASE f.wt_state = 1
  <2> DEFINE s == IF f.wt_idx = 2 THEN v ELSE f.wt_sector
             i == f.wt_idx + 1
             w == IF f.wt_idx + 1 >= IdLen THEN 0 ELSE 1
  <2>1. g = [f EXCEPT !.wt_sector = s, !.wt_idx = i, !.wt_state = w]
    BY <1>3 DEF FormatByte
  <2>2. /\ s \in Bytes /\ i \in 0 .. IdLen /\ w \in 0 .. 2
        /\ w # 2 /\ (w = 1 => i < IdLen)
    BY <1>3 DEF Within, Chip, IdLen
  <2> HIDE DEF g, s, i, w
  <2>3. g \in Chip
    BY ZenonT(30), <2>1, <2>2 DEF Chip
  <2>4. Same(f, g)
    BY <2>1 DEF Same, SameMedium, Chip
  <2>5. Parsed(f, g) /\ g.wt_state = w /\ g.wt_idx = i
    BY <2>1 DEF Chip
  <2>6. Within(g)
    BY <2>2, <2>5 DEF Within, SectorOps, ReadOps, WriteOps
  <2> QED BY <2>3, <2>4, <2>5, <2>6, SameKeeps DEF g
<1>4. CASE f.wt_state = 2
  <2> DEFINE o == f.offset + 1
             w == IF f.offset + 1 >= SectorLen THEN 0 ELSE 2
             n == IF f.offset + 1 >= SectorLen /\ f.wt_done < MaxByte
                  THEN f.wt_done + 1 ELSE f.wt_done
  <2>1. g = [f EXCEPT !.offset = o, !.wt_state = w, !.wt_done = n]
    BY <1>4 DEF FormatByte
  <2>2. o \in Nat /\ w \in 0 .. 2 /\ w # 1 /\ (w = 2 => o < SectorLen)
    BY GeometryAssumption DEF Chip
  <2>3. n \in Bytes
    BY ByteAssumption DEF Chip, Bytes
  <2> HIDE DEF g, o, w, n
  <2>4. g \in Chip
    BY ZenonT(30), <2>1, <2>2, <2>3 DEF Chip
  <2>5. Same(f, g)
    BY <2>1 DEF Same, SameMedium, Chip
  <2>6. Parsed(f, g) /\ g.wt_state = w /\ g.offset = o
    BY <2>1 DEF Chip
  <2>7. Within(g)
    BY <2>2, <2>6 DEF Within, SectorOps, ReadOps, WriteOps
  <2> QED BY <2>4, <2>5, <2>6, <2>7, SameKeeps DEF g
<1>5. CASE f.wt_state = 0 /\ v # ID_AM /\ v # DATA_AM
  <2>1. g = f
    BY <1>5 DEF FormatByte
  <2> QED BY <2>1 DEF Keeps, SameMedium
<1>6. f.wt_state \in {0, 1, 2}
  BY DEF Chip
<1> QED BY <1>1, <1>2, <1>3, <1>4, <1>5, <1>6

LEMMA WriteTrackByteLemma ==
  ASSUME NEW f \in Chip, Within(f), f.op = "WRITE_TRACK", NEW v \in Bytes
  PROVE  Served(f, write_track_byte(f, v))
<1> DEFINE m == [f EXCEPT !.modified = TRUE]
           p == FormatByte(m, v)
           g == DrqOff(p)
           k == write_track_byte(f, v)
<1>1. k = IF f.disk # NoDisk /\ g.wt_done >= Spt
          THEN Posted([g EXCEPT !.op = "NONE"], {})
          ELSE [g EXCEPT !.delayed_drq = TRUE]
  BY DEF write_track_byte
<1>2. m \in Chip
  BY DEF Chip
<1>3. Same(f, m)
  BY DEF Same, SameMedium, Chip
<1>4. /\ Parsed(f, m) /\ m.wt_state = f.wt_state /\ m.wt_idx = f.wt_idx
      /\ m.offset = f.offset
  BY DEF Parsed, Chip
<1> HIDE DEF m
<1>5. Within(m) /\ m.op = "WRITE_TRACK"
  BY <1>4 DEF Within, Parsed, SectorOps, ReadOps, WriteOps
<1>6. p \in Chip /\ Keeps(m, p) /\ Within(p) /\ Parsed(m, p)
  BY <1>2, <1>5, FormatLemma
<1> HIDE DEF p
<1>7. /\ g \in Chip /\ Keeps(p, g) /\ g.drq = FALSE
      /\ g.status = p.status \ {DRQ} /\ g.op = p.op
      /\ g.offset = p.offset /\ g.stream = p.stream
      /\ g.wt_state = p.wt_state /\ g.wt_idx = p.wt_idx
      /\ g.delayed_drq = p.delayed_drq /\ g.delayed_int = p.delayed_int
  BY <1>6, ServedLemma
<1> HIDE DEF g, k
<1>8. Within(g) /\ g.op = "WRITE_TRACK"
  BY <1>5, <1>6, <1>7 DEF Within, Parsed, SectorOps, ReadOps, WriteOps
<1>9. Working(f) /\ DRQ \in f.status => Between(g)
  BY <1>4, <1>6, <1>7
  DEF Parsed, Working, Between, fdc_streamed, SectorOps, ReadOps, WriteOps,
      BUSY, DRQ
<1>10. Keeps(f, g)
  BY <1>2, <1>3, <1>6, <1>7, SameKeeps, KeepsTrans
<1>11. Keeps(g, k) /\ Within(k) /\ (Between(g) => Phase(k))
  <2>1. CASE f.disk # NoDisk /\ g.wt_done >= Spt
    <3>1. {} \in SUBSET (StatusBits \ {BUSY})
      OBVIOUS
    <3> QED BY <1>1, <1>7, <1>8, <2>1, <3>1, PostedLemma DEF Within
  <2>2. CASE ~(f.disk # NoDisk /\ g.wt_done >= Spt)
    <3>1. g.op # "NONE" /\ g.op \notin SectorOps
      BY <1>8 DEF SectorOps, ReadOps, WriteOps
    <3> QED BY <1>1, <1>7, <1>8, <2>2, <3>1, AgainLemma
  <2> QED BY <2>1, <2>2
<1> QED BY <1>9, <1>10, <1>11, KeepsTrans DEF Served, k

AddressReads == ReadOps \cup {"READ_ADDRESS"}
TrackWrites == WriteOps \cup {"WRITE_TRACK"}

LEMMA ReadDataLemma ==
  ASSUME NEW f \in Chip, Within(f), NEW im \in Images
  PROVE  /\ Served(f, fdc_read_data(f, im))
         /\ f.op \notin AddressReads => fdc_read_data(f, im) = f
<1>1. CASE f.op \in ReadOps
  BY <1>1, ReadByteLemma DEF fdc_read_data, AddressReads, ReadOps
<1>2. CASE f.op = "READ_ADDRESS"
  <2>1. fdc_read_data(f, im) = read_address_byte(f)
    BY <1>2 DEF fdc_read_data, ReadOps
  <2> QED BY <1>2, <2>1, ReadAddressByteLemma DEF AddressReads
<1>3. CASE f.op \notin AddressReads
  <2>1. fdc_read_data(f, im) = f
    BY <1>3 DEF fdc_read_data, AddressReads
  <2> QED BY <2>1 DEF Served, Keeps, SameMedium, Phase
<1> QED BY <1>1, <1>2, <1>3 DEF AddressReads

LEMMA WriteDataLemma ==
  ASSUME NEW f \in Chip, Within(f), NEW v \in Bytes
  PROVE  /\ Served(f, fdc_write_data(f, v))
         /\ f.op \notin TrackWrites /\ Phase(f) => Phase(fdc_write_data(f, v))
<1> DEFINE g == [f EXCEPT !.data = v]
           k == fdc_write_data(f, v)
<1>1. k = CASE f.op \in WriteOps -> write_sector_byte(g)
            [] f.op = "WRITE_TRACK" -> write_track_byte(g, v)
            [] OTHER -> g
  BY DEF fdc_write_data
<1>2. g \in Chip
  BY DEF Chip
<1>3. Same(f, g)
  BY DEF Same, SameMedium, Chip
<1>4. /\ Parsed(f, g) /\ g.wt_state = f.wt_state /\ g.wt_idx = f.wt_idx
      /\ g.offset = f.offset /\ g.cur = f.cur /\ g.stream_crc = f.stream_crc
      /\ g.timing = f.timing /\ g.type1 = f.type1 /\ g.direction = f.direction
      /\ g.c_track = f.c_track
  BY DEF Parsed, Chip
<1> HIDE DEF g, k
<1>5. Within(g)
  BY <1>4 DEF Within, Parsed
<1>6. (Working(f) => Working(g)) /\ (Phase(f) => Phase(g))
  BY <1>4 DEF Phase, Idle, Ending, Working, Parsed, fdc_streamed
<1>7. Keeps(f, g)
  BY <1>2, <1>3, SameKeeps
<1>8. CASE f.op \in WriteOps
  <2>1. k = write_sector_byte(g) /\ g.op \in WriteOps
    BY <1>1, <1>4, <1>8 DEF Parsed, WriteOps
  <2>2. Served(g, k)
    BY <1>2, <1>5, <2>1, WriteByteLemma
  <2> QED
    BY <1>4, <1>6, <1>7, <1>8, <2>2, KeepsTrans
    DEF Served, Parsed, TrackWrites, k
<1>9. CASE f.op = "WRITE_TRACK"
  <2>1. k = write_track_byte(g, v) /\ g.op = "WRITE_TRACK"
    BY <1>1, <1>4, <1>9 DEF Parsed, WriteOps
  <2>2. Served(g, k)
    BY <1>2, <1>5, <2>1, WriteTrackByteLemma
  <2> QED
    BY <1>4, <1>6, <1>7, <1>9, <2>2, KeepsTrans
    DEF Served, Parsed, TrackWrites, k
<1>10. CASE f.op \notin TrackWrites
  <2>1. k = g
    BY <1>1, <1>10 DEF TrackWrites
  <2> QED BY <1>5, <1>6, <1>7, <2>1 DEF Served, Phase, k
<1> QED BY <1>8, <1>9, <1>10 DEF TrackWrites

-----------------------------------------------------------------------------
(* fdc_ticktock.  Ticked(f, g): g is f some cycles later.                   *)

Ticked(f, g) == Keeps(f, g) /\ Within(g) /\ (Phase(f) => Phase(g))

LEMMA IntLemma ==
  ASSUME NEW f \in Chip, Within(f), f.delayed_int
  PROVE  Ticked(f, fdc_int_expires(f))
<1> DEFINE g == [f EXCEPT !.delayed_int = FALSE, !.status = f.di_status,
                          !.di_status = {}]
           k == set_intrq(g)
<1>1. fdc_int_expires(f) = k
  BY DEF fdc_int_expires
<1>2. g \in Chip
  BY DEF Chip
<1>3. Same(f, g)
  BY DEF Same, SameMedium, Chip
<1>4. /\ g.op = f.op /\ g.cur = f.cur /\ g.offset = f.offset
      /\ g.stream = f.stream /\ g.stream_crc = f.stream_crc
      /\ g.timing = f.timing /\ g.wt_state = f.wt_state /\ g.wt_idx = f.wt_idx
      /\ g.delayed_drq = f.delayed_drq /\ g.delayed_int = FALSE
      /\ g.status = f.di_status /\ g.drq = f.drq
  BY DEF Chip
<1> HIDE DEF g
<1>5. Keeps(g, k) /\ Rest(g, k) /\ k.drq = g.drq
  BY <1>2, SetIntrqLemma
<1> HIDE DEF k
<1>6. /\ k.op = g.op /\ k.cur = g.cur /\ k.offset = g.offset
      /\ k.stream = g.stream /\ k.stream_crc = g.stream_crc
      /\ k.timing = g.timing /\ k.wt_state = g.wt_state /\ k.wt_idx = g.wt_idx
      /\ k.delayed_drq = g.delayed_drq /\ k.delayed_int = g.delayed_int
      /\ k.status = g.status
  BY <1>2, <1>5 DEF Rest, Lines, Chip
<1>7. Within(k)
  BY <1>4, <1>6 DEF Within
<1>8. BUSY \notin f.di_status
  BY DEF Chip
<1>9. Phase(f) => Idle(k)
  BY <1>4, <1>5, <1>6, <1>8 DEF Phase, Idle, Ending, Working
<1> QED
  BY <1>1, <1>2, <1>3, <1>5, <1>7, <1>9, SameKeeps, KeepsTrans
  DEF Ticked, Phase

\* DRQ goes up on a busy chip.
LEMMA RaisedLemma ==
  ASSUME NEW g \in Chip
  PROVE  LET k == DrqOn(g)
         IN /\ k \in Chip /\ Keeps(g, k) /\ k.drq = TRUE
            /\ k.status = g.status \cup {DRQ} /\ k.op = g.op /\ k.cur = g.cur
            /\ k.offset = g.offset /\ k.stream = g.stream
            /\ k.stream_crc = g.stream_crc /\ k.timing = g.timing
            /\ k.wt_state = g.wt_state /\ k.wt_idx = g.wt_idx
            /\ k.delayed_drq = g.delayed_drq /\ k.delayed_int = g.delayed_int
<1> DEFINE k == DrqOn(g)
<1>1. /\ k \in Chip /\ Keeps(g, k) /\ k.drq = TRUE
      /\ Rest([g EXCEPT !.status = g.status \cup {DRQ}], k)
  BY DrqOnLemma DEF Keeps
<1> HIDE DEF k
<1>2. /\ k.status = g.status \cup {DRQ} /\ k.op = g.op /\ k.cur = g.cur
      /\ k.offset = g.offset /\ k.stream = g.stream
      /\ k.stream_crc = g.stream_crc /\ k.timing = g.timing
      /\ k.wt_state = g.wt_state /\ k.wt_idx = g.wt_idx
      /\ k.delayed_drq = g.delayed_drq /\ k.delayed_int = g.delayed_int
  BY <1>1 DEF Rest, Lines, Chip
<1> QED BY <1>1, <1>2 DEF k

LEMMA DrqLemma ==
  ASSUME NEW f \in Chip, Within(f), NEW im \in Images, f.delayed_drq
  PROVE  Ticked(f, fdc_drq_expires(f, im))
<1> DEFINE g == [f EXCEPT !.delayed_drq = FALSE]
           k == fdc_drq_expires(f, im)
<1>1. k = IF fdc_streamed(f) /\ f.cur # NoSector
          THEN fdc_stream_start(g, im) ELSE DrqOn(g)
  BY DEF fdc_drq_expires
<1>2. g \in Chip
  BY DEF Chip
<1>3. Same(f, g)
  BY DEF Same, SameMedium, Chip
<1>4. /\ g.op = f.op /\ g.cur = f.cur /\ g.offset = f.offset
      /\ g.stream = f.stream /\ g.stream_crc = f.stream_crc
      /\ g.timing = f.timing /\ g.wt_state = f.wt_state /\ g.wt_idx = f.wt_idx
      /\ g.delayed_drq = FALSE /\ g.delayed_int = f.delayed_int
      /\ g.status = f.status /\ g.drq = f.drq
  BY DEF Chip
<1> HIDE DEF g, k
<1>5. Keeps(f, g)
  BY <1>2, <1>3, SameKeeps
<1>6. CASE fdc_streamed(f) /\ f.cur # NoSector
  <2> DEFINE v == IF f.op \in WriteOps THEN g.data ELSE ByteAt(im, g.cur, 0)
             o == IF f.op \in WriteOps THEN 0 ELSE 1
             h == [g EXCEPT !.stream = TRUE, !.stream_crc = FALSE,
                            !.offset = o, !.data = v]
  <2>1. v \in Bytes /\ o \in Nat
    <3>1. g.cur \in Sector /\ 0 < SectorLen
      BY <1>2, <1>4, <1>6, GeometryAssumption DEF Chip
    <3> QED BY <1>2, <3>1, ByteLemma DEF Chip
  <2>2. k = DrqOn(h)
    <3>1. k = fdc_stream_start(g, im)
      BY <1>1, <1>6
    <3>2. CASE f.op \in WriteOps
      <4>1. h = [g EXCEPT !.stream = TRUE, !.stream_crc = FALSE, !.offset = 0]
        BY <1>2, <3>2 DEF Chip
      <4> QED BY <1>4, <3>1, <3>2, <4>1 DEF fdc_stream_start
    <3>3. CASE f.op \notin WriteOps
      <4>1. h = [[g EXCEPT !.stream = TRUE, !.stream_crc = FALSE, !.offset = 0]
                   EXCEPT !.data = ByteAt(im, g.cur, 0), !.offset = 1]
        BY <1>2, <3>3 DEF Chip
      <4>2. [g EXCEPT !.stream = TRUE, !.stream_crc = FALSE, !.offset = 0].cur
            = g.cur
        BY <1>2 DEF Chip
      <4> QED BY <1>4, <3>1, <3>3, <4>1, <4>2 DEF fdc_stream_start
    <3> QED BY <3>2, <3>3
  <2>3. f.op \in WriteOps => o < SectorLen
    BY GeometryAssumption
  <2> HIDE DEF v, o
  <2>4. h \in Chip
    BY ZenonT(30), <1>2, <2>1 DEF Chip
  <2>5. Same(g, h)
    BY <1>2 DEF Same, SameMedium, Chip
  <2>6. /\ h.op = g.op /\ h.cur = g.cur /\ h.offset = o
        /\ h.stream = TRUE /\ h.stream_crc = FALSE
        /\ h.timing = g.timing /\ h.wt_state = g.wt_state
        /\ h.wt_idx = g.wt_idx /\ h.status = g.status
        /\ h.delayed_drq = g.delayed_drq /\ h.delayed_int = g.delayed_int
    BY <1>2 DEF Chip
  <2> HIDE DEF h
  <2>7. /\ k \in Chip /\ Keeps(h, k) /\ k.drq = TRUE
        /\ k.status = h.status \cup {DRQ} /\ k.op = h.op /\ k.cur = h.cur
        /\ k.offset = h.offset /\ k.stream = h.stream
        /\ k.stream_crc = h.stream_crc /\ k.timing = h.timing
        /\ k.wt_state = h.wt_state /\ k.wt_idx = h.wt_idx
        /\ k.delayed_drq = h.delayed_drq /\ k.delayed_int = h.delayed_int
    BY <2>2, <2>4, RaisedLemma
  <2>8. Within(k)
    BY <1>4, <1>6, <2>3, <2>6, <2>7
    DEF Within, fdc_streamed, SectorOps, ReadOps, WriteOps
  <2>9. Phase(f) => Working(k)
    BY <1>4, <1>6, <2>6, <2>7
    DEF Phase, Idle, Ending, Working, fdc_streamed
  <2> QED
    BY <1>5, <2>4, <2>5, <2>7, <2>8, <2>9, <1>2, SameKeeps, KeepsTrans
    DEF Ticked, Phase, k
<1>7. CASE ~(fdc_streamed(f) /\ f.cur # NoSector)
  <2>1. k = DrqOn(g)
    BY <1>1, <1>7
  <2>2. /\ k \in Chip /\ Keeps(g, k) /\ k.drq = TRUE
        /\ k.status = g.status \cup {DRQ} /\ k.op = g.op /\ k.cur = g.cur
        /\ k.offset = g.offset /\ k.stream = g.stream
        /\ k.stream_crc = g.stream_crc /\ k.timing = g.timing
        /\ k.wt_state = g.wt_state /\ k.wt_idx = g.wt_idx
        /\ k.delayed_drq = g.delayed_drq /\ k.delayed_int = g.delayed_int
    BY <1>2, <2>1, RaisedLemma
  <2>3. Within(k)
    BY <1>4, <2>2 DEF Within
  <2>4. Phase(f) => Working(k)
    BY <1>4, <2>2 DEF Phase, Idle, Ending, Working, fdc_streamed
  <2> QED BY <1>5, <2>2, <2>3, <2>4, KeepsTrans DEF Ticked, Phase, k
<1> QED BY <1>6, <1>7

\* LOST DATA says nothing about the phase.
LEMMA LostLemma ==
  ASSUME NEW f \in Chip
  PROVE  LET g == fdc_stream_lost(f)
         IN /\ g \in Chip /\ Keeps(f, g) /\ g.op = f.op /\ g.cur = f.cur
            /\ g.offset = f.offset /\ g.stream = f.stream
            /\ g.stream_crc = f.stream_crc /\ g.timing = f.timing
            /\ g.wt_state = f.wt_state /\ g.wt_idx = f.wt_idx
            /\ g.delayed_drq = f.delayed_drq /\ g.delayed_int = f.delayed_int
            /\ g.drq = f.drq
            /\ BUSY \in g.status <=> BUSY \in f.status
            /\ DRQ \in g.status <=> DRQ \in f.status
<1> DEFINE st == f.status \cup (IF DRQ \in f.status THEN {LOST_DATA} ELSE {})
           g == [f EXCEPT !.status = st]
<1>1. fdc_stream_lost(f) = g
  <2>1. CASE DRQ \in f.status
    BY <2>1 DEF fdc_stream_lost
  <2>2. CASE DRQ \notin f.status
    <3>1. st = f.status
      BY <2>2
    <3> HIDE DEF st
    <3>2. g = f
      BY <3>1 DEF Chip
    <3> QED BY <2>2, <3>2 DEF fdc_stream_lost
  <2> QED BY <2>1, <2>2
<1>2. /\ st \in SUBSET StatusBits
      /\ BUSY \in st <=> BUSY \in f.status
      /\ DRQ \in st <=> DRQ \in f.status
  BY DEF Chip, StatusBits, BUSY, DRQ, LOST_DATA
<1> HIDE DEF st
<1>3. g \in Chip
  BY <1>2 DEF Chip
<1>4. Same(f, g)
  BY DEF Same, SameMedium, Chip
<1>5. /\ g.op = f.op /\ g.cur = f.cur
      /\ g.offset = f.offset /\ g.stream = f.stream
      /\ g.stream_crc = f.stream_crc /\ g.timing = f.timing
      /\ g.wt_state = f.wt_state /\ g.wt_idx = f.wt_idx
      /\ g.delayed_drq = f.delayed_drq /\ g.delayed_int = f.delayed_int
      /\ g.drq = f.drq /\ g.status = st
  BY DEF Chip
<1> HIDE DEF g
<1> QED BY <1>1, <1>2, <1>3, <1>4, <1>5, SameKeeps

\* A streamed transfer under way, for a polite guest.
Streaming(f) ==
  /\ BUSY \in f.status /\ f.op # "NONE" /\ ~f.delayed_int /\ ~f.delayed_drq
  /\ f.drq <=> DRQ \in f.status

LEMMA StreamDoneLemma ==
  ASSUME NEW f \in Chip, f.wt_state = 1 => f.wt_idx < IdLen
  PROVE  LET k == fdc_stream_sector_done(f)
         IN Keeps(f, k) /\ Within(k) /\ (Streaming(f) => Phase(k))
<1> DEFINE h == [f EXCEPT !.stream = FALSE, !.stream_crc = FALSE]
           g == DrqOff(h)
           st == f.status \cap {LOST_DATA}
           k == fdc_stream_sector_done(f)
<1>1. k = SectorDone(g, st)
  BY DEF fdc_stream_sector_done
<1>2. h \in Chip
  BY DEF Chip
<1>3. Same(f, h)
  BY DEF Same, SameMedium, Chip
<1>4. /\ h.wt_state = f.wt_state /\ h.wt_idx = f.wt_idx
      /\ h.delayed_drq = f.delayed_drq /\ h.delayed_int = f.delayed_int
      /\ h.status = f.status /\ h.stream = FALSE
  BY DEF Chip
<1> HIDE DEF h
<1>5. /\ g \in Chip /\ Keeps(h, g) /\ g.drq = FALSE
      /\ g.status = h.status \ {DRQ} /\ g.stream = h.stream
      /\ g.wt_state = h.wt_state /\ g.wt_idx = h.wt_idx
      /\ g.delayed_drq = h.delayed_drq /\ g.delayed_int = h.delayed_int
  BY <1>2, ServedLemma
<1>6. st \in SUBSET (StatusBits \ {BUSY})
  BY DEF StatusBits, BUSY, LOST_DATA
<1> HIDE DEF g, st, k
<1>7. Streaming(f) => Between(g)
  BY <1>4, <1>5 DEF Streaming, Between, BUSY, DRQ
<1>8. Keeps(g, k) /\ Within(k) /\ (Between(g) => Phase(k))
  BY <1>1, <1>4, <1>5, <1>6, SectorDoneLemma
<1> QED BY <1>2, <1>3, <1>5, <1>7, <1>8, SameKeeps, KeepsTrans DEF k

LEMMA StreamWriteLemma ==
  ASSUME NEW f \in Chip, Within(f), f.stream, fdc_streamed(f), ~f.stream_crc,
         f.op \in WriteOps
  PROVE  Ticked(f, stream_write_step(f))
<1> DEFINE g == fdc_stream_lost(f)
           k == stream_write_step(f)
<1>1. /\ g \in Chip /\ Keeps(f, g) /\ g.op = f.op /\ g.cur = f.cur
      /\ g.offset = f.offset /\ g.stream = f.stream
      /\ g.stream_crc = f.stream_crc /\ g.timing = f.timing
      /\ g.wt_state = f.wt_state /\ g.wt_idx = f.wt_idx
      /\ g.delayed_drq = f.delayed_drq /\ g.delayed_int = f.delayed_int
      /\ g.drq = f.drq
      /\ BUSY \in g.status <=> BUSY \in f.status
      /\ DRQ \in g.status <=> DRQ \in f.status
  BY LostLemma
<1>2. k = IF GapMissed(f)
          THEN fdc_stream_sector_done([g EXCEPT !.op = "WRITE_SECTOR",
                                                !.offset = SectorLen])
          ELSE LET h == [g EXCEPT !.offset = @ + 1, !.modified = TRUE]
               IN IF h.offset < SectorLen THEN DrqOn(h)
                  ELSE [DrqOff(h) EXCEPT !.stream_crc = TRUE]
  BY DEF stream_write_step
<1> HIDE DEF g, k
<1>3. Phase(f) => Streaming(g)
  BY <1>1 DEF Phase, Idle, Ending, Working, Streaming, fdc_streamed,
              SectorOps, WriteOps
<1>4. g.wt_state = 1 => g.wt_idx < IdLen
  BY <1>1 DEF Within
<1>5. CASE GapMissed(f)
  <2> DEFINE h == [g EXCEPT !.op = "WRITE_SECTOR", !.offset = SectorLen]
  <2>1. k = fdc_stream_sector_done(h)
    BY <1>2, <1>5
  <2>2. h \in Chip
    BY ZenonT(30), <1>1, GeometryAssumption DEF Chip, Ops, SectorOps, WriteOps
  <2>3. Same(g, h)
    BY <1>1 DEF Same, SameMedium, Chip
  <2>4. /\ h.wt_state = g.wt_state /\ h.wt_idx = g.wt_idx
        /\ h.delayed_drq = g.delayed_drq /\ h.delayed_int = g.delayed_int
        /\ h.status = g.status /\ h.drq = g.drq /\ h.op = "WRITE_SECTOR"
    BY <1>1 DEF Chip
  <2> HIDE DEF h
  <2>5. Streaming(g) => Streaming(h)
    BY <2>4 DEF Streaming
  <2>6. Keeps(h, k) /\ Within(k) /\ (Streaming(h) => Phase(k))
    BY <1>4, <2>1, <2>2, <2>4, StreamDoneLemma
  <2> QED
    BY <1>1, <1>3, <2>2, <2>3, <2>5, <2>6, SameKeeps, KeepsTrans
    DEF Ticked, k
<1>6. CASE ~GapMissed(f)
  <2> DEFINE o == g.offset + 1
             h == [g EXCEPT !.offset = o, !.modified = TRUE]
  <2>1. o \in Nat
    BY <1>1 DEF Chip
  <2>2. k = IF h.offset < SectorLen THEN DrqOn(h)
            ELSE [DrqOff(h) EXCEPT !.stream_crc = TRUE]
    BY <1>2, <1>6
  <2> HIDE DEF o
  <2>3. h \in Chip
    BY <1>1, <2>1 DEF Chip
  <2>4. Same(g, h)
    BY <1>1 DEF Same, SameMedium, Chip
  <2>5. /\ h.wt_state = g.wt_state /\ h.wt_idx = g.wt_idx /\ h.cur = g.cur
        /\ h.delayed_drq = g.delayed_drq /\ h.delayed_int = g.delayed_int
        /\ h.status = g.status /\ h.drq = g.drq /\ h.op = g.op
        /\ h.stream = g.stream /\ h.stream_crc = g.stream_crc
        /\ h.timing = g.timing /\ h.offset = o
    BY <1>1 DEF Chip
  <2> HIDE DEF h
  <2>6. Keeps(f, h)
    BY <1>1, <2>3, <2>4, SameKeeps, KeepsTrans
  <2>7. CASE h.offset < SectorLen
    <3>1. k = DrqOn(h)
      BY <2>2, <2>7
    <3>2. /\ k \in Chip /\ Keeps(h, k) /\ k.drq = TRUE
          /\ k.status = h.status \cup {DRQ} /\ k.op = h.op /\ k.cur = h.cur
          /\ k.offset = h.offset /\ k.stream = h.stream
          /\ k.stream_crc = h.stream_crc /\ k.timing = h.timing
          /\ k.wt_state = h.wt_state /\ k.wt_idx = h.wt_idx
          /\ k.delayed_drq = h.delayed_drq /\ k.delayed_int = h.delayed_int
      BY <2>3, <3>1, RaisedLemma
    <3>3. Within(k)
      BY <1>1, <2>5, <2>7, <3>2
      DEF Within, SectorOps, ReadOps, WriteOps
    <3>4. Streaming(g) => Working(k)
      BY <1>1, <2>5, <3>2 DEF Streaming, Working, fdc_streamed
    <3> QED BY <1>3, <2>6, <3>2, <3>3, <3>4, KeepsTrans DEF Ticked, Phase, k
  <2>8. CASE ~(h.offset < SectorLen)
    <3> DEFINE d == DrqOff(h)
    <3>1. k = [d EXCEPT !.stream_crc = TRUE]
      BY <2>2, <2>8
    <3>2. /\ d \in Chip /\ Keeps(h, d) /\ d.drq = FALSE
          /\ d.status = h.status \ {DRQ} /\ d.op = h.op /\ d.cur = h.cur
          /\ d.offset = h.offset /\ d.stream = h.stream
          /\ d.timing = h.timing
          /\ d.wt_state = h.wt_state /\ d.wt_idx = h.wt_idx
          /\ d.delayed_drq = h.delayed_drq /\ d.delayed_int = h.delayed_int
      BY <2>3, ServedLemma
    <3> HIDE DEF d
    <3>3. k \in Chip
      BY ZenonT(30), <3>1, <3>2 DEF Chip
    <3>4. Same(d, k)
      BY <3>1, <3>2 DEF Same, SameMedium, Chip
    <3>5. /\ k.drq = d.drq /\ k.status = d.status /\ k.op = d.op
          /\ k.cur = d.cur /\ k.stream = d.stream /\ k.stream_crc = TRUE
          /\ k.timing = d.timing /\ k.wt_state = d.wt_state
          /\ k.wt_idx = d.wt_idx /\ k.offset = d.offset
          /\ k.delayed_drq = d.delayed_drq /\ k.delayed_int = d.delayed_int
      BY <3>1, <3>2 DEF Chip
    <3>6. Within(k)
      BY <1>1, <2>5, <3>2, <3>5
      DEF Within, fdc_streamed, SectorOps, ReadOps, WriteOps
    <3>7. Streaming(g) => Working(k)
      BY <1>1, <2>5, <3>2, <3>5
      DEF Streaming, Working, fdc_streamed, BUSY, DRQ
    <3> QED
      BY <1>3, <2>6, <3>2, <3>3, <3>4, <3>6, <3>7, SameKeeps, KeepsTrans
      DEF Ticked, Phase, k
  <2> QED BY <2>7, <2>8
<1> QED BY <1>5, <1>6

LEMMA StreamReadLemma ==
  ASSUME NEW f \in Chip, Within(f), f.stream, fdc_streamed(f), ~f.stream_crc,
         f.op \notin WriteOps, NEW im \in Images
  PROVE  Ticked(f, stream_read_step(f, im))
<1> DEFINE k == stream_read_step(f, im)
<1>1. f.op \in ReadOps /\ f.cur \in Sector
  BY DEF fdc_streamed, Within, Chip, SectorOps
<1>2. CASE f.offset < SectorLen
  <2> DEFINE g == fdc_stream_lost(f)
             v == ByteAt(im, f.cur, f.offset)
             o == g.offset + 1
             h == [g EXCEPT !.data = v, !.offset = o]
  <2>1. k = DrqOn(h)
    BY <1>2 DEF stream_read_step
  <2>2. /\ g \in Chip /\ Keeps(f, g) /\ g.op = f.op /\ g.cur = f.cur
        /\ g.offset = f.offset /\ g.stream = f.stream
        /\ g.stream_crc = f.stream_crc /\ g.timing = f.timing
        /\ g.wt_state = f.wt_state /\ g.wt_idx = f.wt_idx
        /\ g.delayed_drq = f.delayed_drq /\ g.delayed_int = f.delayed_int
        /\ g.drq = f.drq
        /\ BUSY \in g.status <=> BUSY \in f.status
        /\ DRQ \in g.status <=> DRQ \in f.status
    BY LostLemma
  <2>3. v \in Bytes
    BY <1>1, <1>2, ByteLemma DEF Chip
  <2> HIDE DEF g, k, v
  <2>4. o \in Nat
    BY <2>2 DEF Chip
  <2> HIDE DEF o
  <2>5. h \in Chip
    BY <2>2, <2>3, <2>4 DEF Chip
  <2>6. Same(g, h)
    BY <2>2 DEF Same, SameMedium, Chip
  <2>7. /\ h.wt_state = g.wt_state /\ h.wt_idx = g.wt_idx /\ h.cur = g.cur
        /\ h.delayed_drq = g.delayed_drq /\ h.delayed_int = g.delayed_int
        /\ h.status = g.status /\ h.op = g.op /\ h.stream = g.stream
        /\ h.stream_crc = g.stream_crc /\ h.timing = g.timing
    BY <2>2 DEF Chip
  <2> HIDE DEF h
  <2>8. /\ k \in Chip /\ Keeps(h, k) /\ k.drq = TRUE
        /\ k.status = h.status \cup {DRQ} /\ k.op = h.op /\ k.cur = h.cur
        /\ k.stream = h.stream
        /\ k.stream_crc = h.stream_crc /\ k.timing = h.timing
        /\ k.wt_state = h.wt_state /\ k.wt_idx = h.wt_idx
        /\ k.delayed_drq = h.delayed_drq /\ k.delayed_int = h.delayed_int
    BY <2>1, <2>5, RaisedLemma
  <2>9. Within(k)
    BY <1>1, <2>2, <2>7, <2>8
    DEF Within, fdc_streamed, SectorOps, ReadOps, WriteOps
  <2>10. Phase(f) => Working(k)
    BY <1>1, <2>2, <2>7, <2>8
    DEF Phase, Idle, Ending, Working, fdc_streamed, ReadOps
  <2> QED
    BY <2>2, <2>5, <2>6, <2>8, <2>9, <2>10, SameKeeps, KeepsTrans
    DEF Ticked, Phase, k
<1>3. CASE ~(f.offset < SectorLen)
  <2>1. k = [f EXCEPT !.stream_crc = TRUE]
    BY <1>3 DEF stream_read_step
  <2> HIDE DEF k
  <2>2. k \in Chip
    BY ZenonT(30), <2>1 DEF Chip
  <2>3. Same(f, k)
    BY <2>1 DEF Same, SameMedium, Chip
  <2>4. /\ Parsed(f, k) /\ k.wt_state = f.wt_state /\ k.wt_idx = f.wt_idx
        /\ k.cur = f.cur /\ k.offset = f.offset /\ k.timing = f.timing
    BY <2>1 DEF Parsed, Chip
  <2>5. Within(k)
    BY <1>1, <2>4
    DEF Within, Parsed, fdc_streamed, SectorOps, ReadOps, WriteOps
  <2>6. Phase(f) => Working(k)
    BY <1>1, <2>4
    DEF Phase, Idle, Ending, Working, Parsed, fdc_streamed, ReadOps
  <2> QED BY <2>2, <2>3, <2>5, <2>6, SameKeeps DEF Ticked, Phase, k
<1> QED BY <1>2, <1>3

LEMMA StreamLemma ==
  ASSUME NEW f \in Chip, Within(f), f.stream, fdc_streamed(f), NEW im \in Images
  PROVE  Ticked(f, fdc_stream_step(f, im))
<1>1. CASE f.stream_crc
  <2> DEFINE g == fdc_stream_lost(f)
             k == fdc_stream_sector_done(g)
  <2>1. fdc_stream_step(f, im) = k
    BY <1>1 DEF fdc_stream_step
  <2>2. /\ g \in Chip /\ Keeps(f, g) /\ g.op = f.op
        /\ g.wt_state = f.wt_state /\ g.wt_idx = f.wt_idx
        /\ g.delayed_drq = f.delayed_drq /\ g.delayed_int = f.delayed_int
        /\ g.drq = f.drq
        /\ BUSY \in g.status <=> BUSY \in f.status
        /\ DRQ \in g.status <=> DRQ \in f.status
    BY LostLemma
  <2> HIDE DEF g
  <2>3. g.wt_state = 1 => g.wt_idx < IdLen
    BY <2>2 DEF Within
  <2>4. Phase(f) => Streaming(g)
    BY <2>2
    DEF Phase, Idle, Ending, Working, Streaming, fdc_streamed, SectorOps,
        ReadOps, WriteOps
  <2>5. Keeps(g, k) /\ Within(k) /\ (Streaming(g) => Phase(k))
    BY <2>2, <2>3, StreamDoneLemma
  <2> QED BY <2>1, <2>2, <2>4, <2>5, KeepsTrans DEF Ticked
<1>2. CASE ~f.stream_crc /\ f.op \in WriteOps
  BY <1>2, StreamWriteLemma DEF fdc_stream_step
<1>3. CASE ~f.stream_crc /\ f.op \notin WriteOps
  BY <1>3, StreamReadLemma DEF fdc_stream_step
<1> QED BY <1>1, <1>2, <1>3

LEMMA StopLemma ==
  ASSUME NEW f \in Chip, Within(f), f.stream, ~fdc_streamed(f)
  PROVE  Ticked(f, [f EXCEPT !.stream = FALSE])
<1> DEFINE k == [f EXCEPT !.stream = FALSE]
<1>1. k \in Chip
  BY DEF Chip
<1>2. Same(f, k)
  BY DEF Same, SameMedium, Chip
<1>3. /\ k.op = f.op /\ k.cur = f.cur /\ k.offset = f.offset
      /\ k.stream_crc = f.stream_crc /\ k.timing = f.timing
      /\ k.wt_state = f.wt_state /\ k.wt_idx = f.wt_idx
      /\ k.delayed_drq = f.delayed_drq /\ k.delayed_int = f.delayed_int
      /\ k.drq = f.drq /\ k.status = f.status /\ k.type1 = f.type1
      /\ k.direction = f.direction /\ k.c_track = f.c_track
  BY DEF Chip
<1> HIDE DEF k
<1>4. Within(k)
  BY <1>3 DEF Within, fdc_streamed
<1>5. Phase(f) => Phase(k)
  BY <1>3 DEF Phase, Idle, Ending, Working
<1> QED BY <1>1, <1>2, <1>4, <1>5, SameKeeps DEF Ticked, k

LEMMA AgesLemma ==
  ASSUME NEW f \in Chip, Within(f), LateDrq(f)
  PROVE  Ticked(f, fdc_lost_data(f))
<1> DEFINE k == fdc_lost_data(f)
<1>1. k = fdc_stream_lost(f)
  BY DEF fdc_lost_data, fdc_stream_lost, LateDrq
<1>2. /\ k \in Chip /\ Keeps(f, k) /\ k.op = f.op /\ k.cur = f.cur
      /\ k.offset = f.offset /\ k.stream = f.stream
      /\ k.stream_crc = f.stream_crc /\ k.timing = f.timing
      /\ k.wt_state = f.wt_state /\ k.wt_idx = f.wt_idx
      /\ k.delayed_drq = f.delayed_drq /\ k.delayed_int = f.delayed_int
      /\ k.drq = f.drq
      /\ BUSY \in k.status <=> BUSY \in f.status
      /\ DRQ \in k.status <=> DRQ \in f.status
  BY <1>1, LostLemma
<1> HIDE DEF k
<1>3. Within(k)
  BY <1>2 DEF Within
<1>4. Phase(f) => Working(k)
  BY <1>2
  DEF Phase, Idle, Ending, Working, LateDrq, fdc_op_transfers_data,
      fdc_streamed, SectorOps, ReadOps, WriteOps
<1> QED BY <1>2, <1>3, <1>4 DEF Ticked, Phase, k

-----------------------------------------------------------------------------
(* The invariant *)

Jobs ==
  [op : SectorOps \cup {"NONE"}, first : Sector \cup {NoSector},
   bytes : Seq(Bytes)]

\* The types of the variables that belong neither to the chip nor to the slots.
Ledger ==
  /\ dirty \in [Drives -> BOOLEAN] /\ image \in Images /\ spare \subseteq Media
  /\ acts \in 0 .. MaxActs /\ polite \in BOOLEAN /\ job \in Jobs
  /\ wrote \subseteq Drives

Slots ==
  /\ drive \in Drives /\ disk \in [Drives -> Media \cup {NoDisk}]
  /\ bad \in [Drives -> SUBSET Place] /\ protect \in [Drives -> BOOLEAN]

IInv ==
  /\ fdc \in Chip /\ Slots /\ Ledger /\ reset \in BOOLEAN
  /\ Within(fdc)
  /\ ChipHoldsDrive
  /\ Line(fdc, reset)
  /\ polite => Phase(fdc)

LEMMA NoJobLemma == NoJob \in Jobs
<1>1. <<>> \in Seq(Bytes)
  OBVIOUS
<1> QED BY <1>1 DEF NoJob, Jobs

LEMMA InitIInv == Init => IInv
<1> SUFFICES ASSUME Init PROVE IInv
  OBVIOUS
<1>1. PICK b \in Fitted :
        fdc = [fdc_init(b[1], b[2]) EXCEPT !.disk = Loaded[FirstDrive],
                                           !.bad = Damaged[FirstDrive]]
  BY DEF Init
<1>2. b[1] \in {"microdisc", "jasmin"} /\ b[2] \in {"FAST", "REAL"}
  BY ChoicesAssumption
<1>3. /\ Loaded[FirstDrive] \in Media \cup {NoDisk}
      /\ Damaged[FirstDrive] \in SUBSET Place
  BY LoadedAssumption, DrivesAssumption
<1>4. 0 \in Bytes /\ 0 \in 0 .. Tracks - 1 /\ 0 \in 0 .. IdLen /\ 0 \in 0 .. 2
  BY ByteAssumption, GeometryAssumption DEF Bytes, IdLen
<1>5. fdc_init(b[1], b[2]) \in Chip
  BY <1>2, <1>4 DEF fdc_init, Chip, Ops
<1>6. fdc \in Chip
  BY ZenonT(30), <1>1, <1>3, <1>5 DEF Chip
<1>7. /\ fdc.op = "NONE" /\ fdc.wt_state = 0 /\ fdc.status = {}
      /\ ~fdc.delayed_drq /\ ~fdc.delayed_int /\ ~fdc.drq /\ ~fdc.intrq
      /\ ~fdc.irq /\ fdc.disk = Loaded[FirstDrive]
      /\ fdc.bad = Damaged[FirstDrive] /\ fdc.protected = FALSE
  BY <1>1 DEF fdc_init
<1>8. Within(fdc)
  BY <1>7 DEF Within, SectorOps, ReadOps, WriteOps
<1>9. Phase(fdc) /\ Line(fdc, reset)
  BY <1>7 DEF Phase, Idle, Line
<1>10. Slots
  BY LoadedAssumption, DrivesAssumption DEF Init, Slots
<1>11. ChipHoldsDrive
  BY <1>7, DrivesAssumption DEF Init, ChipHoldsDrive
<1>12. Ledger
  <2>1. image \in Images
    BY LoadedAssumption DEF Init, Images
  <2>2. acts \in 0 .. MaxActs
    BY BoundsAssumption DEF Init
  <2> QED BY <2>1, <2>2, NoJobLemma DEF Init, Ledger
<1> QED BY <1>6, <1>8, <1>9, <1>10, <1>11, <1>12 DEF Init, IInv

\* A step of the chip alone.
LEMMA ChipStep ==
  ASSUME IInv, UNCHANGED <<slots, reset>>, Ledger',
         Keeps(fdc, fdc'), Within(fdc'), polite' => Phase(fdc')
  PROVE  IInv'
<1>1. fdc' \in Chip /\ SameMedium(fdc, fdc') /\ Line(fdc', reset)
  BY DEF IInv, Keeps
<1>2. Slots' /\ ChipHoldsDrive'
  BY <1>1 DEF IInv, Slots, slots, ChipHoldsDrive, SameMedium
<1> QED BY <1>1, <1>2 DEF IInv

LEMMA ActLemma ==
  ASSUME acts \in 0 .. MaxActs, Act
  PROVE  acts' \in 0 .. MaxActs
BY BoundsAssumption DEF Act

\* The flag of the chip goes to the drive.
LEMMA WrittenLemma ==
  ASSUME dirty \in [Drives -> BOOLEAN], NEW f \in Chip, Written(f), Within(f)
  PROVE  /\ dirty' \in [Drives -> BOOLEAN] /\ Keeps(f, fdc') /\ Within(fdc')
         /\ Phase(f) => Phase(fdc')
<1> DEFINE k == [f EXCEPT !.modified = FALSE]
<1>1. fdc' = k
  BY DEF Written
<1>2. k \in Chip
  BY DEF Chip
<1>3. Same(f, k)
  BY DEF Same, SameMedium, Chip
<1>4. /\ k.op = f.op /\ k.cur = f.cur /\ k.offset = f.offset
      /\ k.stream = f.stream /\ k.stream_crc = f.stream_crc
      /\ k.timing = f.timing
      /\ k.wt_state = f.wt_state /\ k.wt_idx = f.wt_idx
      /\ k.delayed_drq = f.delayed_drq /\ k.delayed_int = f.delayed_int
      /\ k.drq = f.drq /\ k.status = f.status /\ k.type1 = f.type1
      /\ k.direction = f.direction /\ k.c_track = f.c_track
  BY DEF Chip
<1> HIDE DEF k
<1>5. Within(k)
  BY <1>4 DEF Within
<1>6. Phase(f) => Phase(k)
  BY <1>4 DEF Phase, Idle, Ending, Working, fdc_streamed
<1>7. dirty' \in [Drives -> BOOLEAN]
  BY DEF Written
<1> QED BY <1>1, <1>2, <1>3, <1>5, <1>6, <1>7, SameKeeps

LEMMA HeapsLemma ==
  ASSUME image \in Images
  PROVE  Heaps \subseteq Images
<1>1. ASSUME NEW v \in Bytes
      PROVE  [image EXCEPT ![fdc.cur.medium] = [c \in Cell |-> v]] \in Images
  <2> DEFINE row == [c \in Cell |-> v]
  <2>1. row \in [Cell -> Bytes]
    OBVIOUS
  <2> HIDE DEF row
  <2>2. [image EXCEPT ![fdc.cur.medium] = row] \in Images
    BY <2>1 DEF Images
  <2> QED BY <2>2 DEF row
<1> QED BY <1>1 DEF Heaps

-----------------------------------------------------------------------------
(* One lemma for each group of actions *)

LEMMA AppendLemma ==
  ASSUME job \in Jobs, NEW v \in Bytes
  PROVE  [job EXCEPT !.bytes = Append(@, v)] \in Jobs
<1> DEFINE b == Append(job.bytes, v)
<1>1. b \in Seq(Bytes)
  BY DEF Jobs
<1> HIDE DEF b
<1>2. [job EXCEPT !.bytes = b] \in Jobs
  BY <1>1 DEF Jobs
<1> QED BY <1>2 DEF b

LEMMA WriteCommandStep ==
  ASSUME IInv, NEW c \in Commands, WriteCommand(c)
  PROVE  IInv'
<1> DEFINE g == fdc_command(fdc, c)
           free == polite /\ BUSY \notin fdc.status
           new == [op |-> c, first |-> g.cur, bytes |-> <<>>]
<1>1. /\ Act /\ Written(g) /\ polite' = (c \in Forces \/ free)
      /\ job' = IF c \in SectorOps /\ g.op = c /\ free THEN new ELSE NoJob
      /\ UNCHANGED <<slots, image, spare, wrote, reset>>
  BY DEF WriteCommand
<1>2. Started(fdc, g) /\ (c \in Forces => Idle(g))
  BY CommandLemma DEF IInv
<1>3. free => Idle(fdc)
  BY DEF IInv, Phase, Idle, Ending, Working
<1> HIDE DEF g, free
<1>4. g \in Chip /\ Within(g) /\ Keeps(fdc, g) /\ (polite' => Phase(g))
  BY <1>1, <1>2, <1>3 DEF Started, Keeps, Phase
<1>5. /\ dirty' \in [Drives -> BOOLEAN] /\ Keeps(g, fdc') /\ Within(fdc')
      /\ Phase(g) => Phase(fdc')
  BY <1>1, <1>4, WrittenLemma DEF IInv, Ledger
<1>6. c \in SectorOps => new \in Jobs
  <2>1. <<>> \in Seq(Bytes)
    OBVIOUS
  <2>2. g.cur \in Sector \cup {NoSector}
    BY <1>4 DEF Chip
  <2> QED BY <2>1, <2>2 DEF Jobs
<1> HIDE DEF new
<1>7. job' \in Jobs
  BY <1>1, <1>6, NoJobLemma
<1>8. polite' \in BOOLEAN
  BY <1>1 DEF IInv, Ledger, free
<1>9. Ledger'
  BY <1>1, <1>5, <1>7, <1>8, ActLemma DEF IInv, Ledger
<1> QED BY <1>1, <1>4, <1>5, <1>9, KeepsTrans, ChipStep

LEMMA ReadStatusStep ==
  ASSUME IInv, ReadStatus
  PROVE  IInv'
<1> DEFINE k == clr_intrq(fdc)
<1>1. fdc' = k /\ fdc \in Chip
  BY DEF ReadStatus, IInv
<1>2. Keeps(fdc, k) /\ Rest(fdc, k) /\ k.drq = fdc.drq
  BY <1>1, ClrIntrqLemma
<1> HIDE DEF k
<1>3. /\ k.op = fdc.op /\ k.cur = fdc.cur /\ k.offset = fdc.offset
      /\ k.stream = fdc.stream /\ k.stream_crc = fdc.stream_crc
      /\ k.timing = fdc.timing
      /\ k.wt_state = fdc.wt_state /\ k.wt_idx = fdc.wt_idx
      /\ k.delayed_drq = fdc.delayed_drq /\ k.delayed_int = fdc.delayed_int
      /\ k.status = fdc.status /\ k.type1 = fdc.type1
      /\ k.direction = fdc.direction /\ k.c_track = fdc.c_track
  BY <1>1, <1>2 DEF Rest, Lines, Chip
<1>4. Within(k)
  BY <1>3 DEF Within, IInv
<1>5. polite => Phase(k)
  BY <1>2, <1>3 DEF IInv, Phase, Idle, Ending, Working, fdc_streamed
<1>6. Ledger' /\ UNCHANGED <<slots, reset>> /\ polite' = polite
  BY DEF ReadStatus, IInv, Ledger
<1> QED BY <1>1, <1>2, <1>4, <1>5, <1>6, ChipStep

LEMMA SectorRegisterStep ==
  ASSUME IInv, NEW s \in 0 .. Spt + 1, WriteSectorRegister(s)
  PROVE  IInv'
<1> DEFINE k == [fdc EXCEPT !.sector = s]
<1>1. /\ Act /\ Written(k) /\ job' = NoJob
      /\ UNCHANGED <<slots, image, spare, polite, wrote, reset>>
  BY DEF WriteSectorRegister
<1>2. s \in Bytes /\ fdc \in Chip
  BY ByteAssumption, GeometryAssumption DEF Bytes, IInv
<1>3. k \in Chip
  BY <1>2 DEF Chip
<1>4. Same(fdc, k)
  BY <1>2 DEF Same, SameMedium, Chip
<1>5. /\ k.op = fdc.op /\ k.cur = fdc.cur /\ k.offset = fdc.offset
      /\ k.stream = fdc.stream /\ k.stream_crc = fdc.stream_crc
      /\ k.timing = fdc.timing /\ k.drq = fdc.drq
      /\ k.wt_state = fdc.wt_state /\ k.wt_idx = fdc.wt_idx
      /\ k.delayed_drq = fdc.delayed_drq /\ k.delayed_int = fdc.delayed_int
      /\ k.status = fdc.status /\ k.type1 = fdc.type1
      /\ k.direction = fdc.direction /\ k.c_track = fdc.c_track
  BY <1>2 DEF Chip
<1> HIDE DEF k
<1>6. Within(k)
  BY <1>5 DEF Within, IInv
<1>7. polite => Phase(k)
  BY <1>5 DEF IInv, Phase, Idle, Ending, Working, fdc_streamed
<1>8. /\ dirty' \in [Drives -> BOOLEAN] /\ Keeps(k, fdc') /\ Within(fdc')
      /\ Phase(k) => Phase(fdc')
  BY <1>1, <1>3, <1>6, WrittenLemma DEF IInv, Ledger
<1>9. Ledger'
  BY <1>1, <1>8, ActLemma, NoJobLemma DEF IInv, Ledger
<1> QED
  BY <1>1, <1>2, <1>3, <1>4, <1>7, <1>8, <1>9, SameKeeps, KeepsTrans, ChipStep

LEMMA ReadDataStep ==
  ASSUME IInv, ReadData \/ ReadDataUnasked
  PROVE  IInv'
<1>1. PICK heap \in Heaps : fdc' = fdc_read_data(fdc, heap)
  BY DEF ReadData, ReadDataUnasked
<1>2. heap \in Images /\ fdc \in Chip /\ Within(fdc)
  BY <1>1, HeapsLemma DEF IInv, Ledger
<1>3. Served(fdc, fdc') /\ (fdc.op \notin AddressReads => fdc' = fdc)
  BY <1>1, <1>2, ReadDataLemma
<1>4. Keeps(fdc, fdc') /\ Within(fdc') /\ fdc'.data \in Bytes
  BY <1>3 DEF Served, Keeps, Chip
<1>5. UNCHANGED <<slots, dirty, image, spare, wrote, reset>>
  BY DEF ReadData, ReadDataUnasked
<1>6. CASE ReadData
  <2>1. /\ fdc.op \in AddressReads /\ DRQ \in fdc.status
        /\ UNCHANGED <<acts, polite>>
        /\ job' = IF job.op = fdc.op
                  THEN [job EXCEPT !.bytes = Append(@, fdc'.data)] ELSE job
    BY <1>6 DEF ReadData, Asked, AddressReads
  <2>2. polite' => Phase(fdc')
    BY <1>3, <2>1 DEF IInv, Phase, Idle, Ending, Served, AddressReads, ReadOps
  <2>3. job' \in Jobs
    BY <1>4, <2>1, AppendLemma DEF IInv, Ledger
  <2>4. Ledger'
    BY <1>5, <2>1, <2>3 DEF IInv, Ledger
  <2> QED BY <1>4, <1>5, <2>2, <2>4, ChipStep
<1>7. CASE ReadDataUnasked
  <2>1. Act /\ job' = NoJob /\ polite' = (polite /\ fdc.op \notin AddressReads)
    BY <1>7 DEF ReadDataUnasked, AddressReads
  <2>2. polite' => Phase(fdc')
    BY <1>3, <2>1 DEF IInv
  <2>3. polite' \in BOOLEAN
    BY <2>1 DEF IInv, Ledger
  <2>4. Ledger'
    BY <1>5, <2>1, <2>3, ActLemma, NoJobLemma DEF IInv, Ledger
  <2> QED BY <1>4, <1>5, <2>2, <2>4, ChipStep
<1> QED BY <1>6, <1>7

LEMMA GuestBytesLemma == GuestBytes \subseteq Bytes
<1>1. 1 .. Spt \subseteq Bytes /\ 0 \in Bytes
  BY ByteAssumption, GeometryAssumption DEF Bytes
<1>2. FormatBytes \subseteq Bytes
  BY <1>1, ByteAssumption, BoundsAssumption DEF FormatBytes, Bytes
<1> QED BY <1>2, BoundsAssumption DEF GuestBytes

LEMMA WriteDataStep ==
  ASSUME IInv, NEW v \in GuestBytes, WriteData(v) \/ WriteDataUnasked(v)
  PROVE  IInv'
<1> DEFINE g == fdc_write_data(fdc, v)
<1>1. v \in Bytes /\ fdc \in Chip /\ Within(fdc)
  BY GuestBytesLemma DEF IInv
<1>2. /\ Served(fdc, g)
      /\ fdc.op \notin TrackWrites /\ Phase(fdc) => Phase(g)
  BY <1>1, WriteDataLemma
<1>3. DataWritten(v)
  BY DEF WriteData, WriteDataUnasked
<1>4. Written(g) /\ UNCHANGED <<slots, spare, reset>>
  BY <1>3 DEF DataWritten
<1> HIDE DEF g
<1>5. g \in Chip /\ Keeps(fdc, g) /\ Within(g)
  BY <1>2 DEF Served, Keeps
<1>6. /\ dirty' \in [Drives -> BOOLEAN] /\ Keeps(g, fdc') /\ Within(fdc')
      /\ Phase(g) => Phase(fdc')
  BY <1>4, <1>5, WrittenLemma DEF IInv, Ledger
<1>7. image' \in Images
  BY <1>1, <1>3, StoredLemma DEF DataWritten, IInv, Ledger
<1>8. wrote' \subseteq Drives
  BY <1>3 DEF DataWritten, Holding, IInv, Ledger, Slots
<1>9. CASE WriteData(v)
  <2>1. /\ fdc.op \in TrackWrites /\ DRQ \in fdc.status
        /\ UNCHANGED <<acts, polite>>
        /\ job' = IF job.op = fdc.op
                  THEN [job EXCEPT !.bytes = Append(@, v)] ELSE job
    BY <1>9 DEF WriteData, Asked, TrackWrites
  <2>2. polite' => Phase(fdc')
    BY <1>2, <1>6, <2>1
    DEF IInv, Phase, Idle, Ending, Served, TrackWrites, WriteOps
  <2>3. job' \in Jobs
    BY <1>1, <2>1, AppendLemma DEF IInv, Ledger
  <2>4. Ledger'
    BY <1>4, <1>6, <1>7, <1>8, <2>1, <2>3 DEF IInv, Ledger
  <2> QED BY <1>4, <1>5, <1>6, <2>2, <2>4, KeepsTrans, ChipStep
<1>10. CASE WriteDataUnasked(v)
  <2>1. Act /\ job' = NoJob /\ polite' = (polite /\ fdc.op \notin TrackWrites)
    BY <1>10 DEF WriteDataUnasked, TrackWrites
  <2>2. polite' => Phase(fdc')
    BY <1>2, <1>6, <2>1 DEF IInv
  <2>3. polite' \in BOOLEAN
    BY <2>1 DEF IInv, Ledger
  <2>4. Ledger'
    BY <1>4, <1>6, <1>7, <1>8, <2>1, <2>3, ActLemma, NoJobLemma
    DEF IInv, Ledger
  <2> QED BY <1>4, <1>5, <1>6, <2>2, <2>4, KeepsTrans, ChipStep
<1> QED BY <1>9, <1>10

LEMMA TickStep ==
  ASSUME IInv, Tick
  PROVE  IInv'
<1>1. /\ fdc \in Chip /\ Within(fdc) /\ Heaps \subseteq Images
      /\ UNCHANGED <<slots, dirty, spare, acts, polite, reset>>
  BY HeapsLemma
  DEF IInv, Ledger, Tick, IntExpires, DrqExpires, StreamStep, StreamStops,
      DrqAges
<1>2. Ticked(fdc, fdc')
  <2>1. CASE IntExpires
    BY <1>1, <2>1, IntLemma DEF IntExpires
  <2>2. CASE DrqExpires
    BY <1>1, <2>2, DrqLemma DEF DrqExpires
  <2>3. CASE StreamStep
    BY <1>1, <2>3, StreamLemma DEF StreamStep
  <2>4. CASE StreamStops
    BY <1>1, <2>4, StopLemma DEF StreamStops
  <2>5. CASE DrqAges
    BY <1>1, <2>5, AgesLemma DEF DrqAges
  <2> QED BY <2>1, <2>2, <2>3, <2>4, <2>5 DEF Tick
<1>3. job' \in Jobs
  BY NoJobLemma
  DEF IInv, Ledger, Tick, IntExpires, DrqExpires, StreamStep, StreamStops,
      DrqAges
<1>4. image' \in Images /\ wrote' \subseteq Drives
  <2>1. CASE StreamStep /\ StreamStores(fdc)
    <3>1. StreamByte(fdc) \in Bytes
      BY <1>1, ByteAssumption DEF StreamByte, Chip, Bytes
    <3> QED BY <2>1, <3>1, StoredLemma DEF StreamStep, Holding, IInv, Ledger
  <2>2. CASE ~(StreamStep /\ StreamStores(fdc))
    BY <2>2
    DEF IInv, Ledger, Tick, IntExpires, DrqExpires, StreamStep, StreamStops,
        DrqAges
  <2> QED BY <2>1, <2>2
<1>5. Ledger'
  BY <1>1, <1>3, <1>4 DEF IInv, Ledger
<1> QED BY <1>1, <1>2, <1>5, ChipStep DEF Ticked, IInv

\* Fields that the phase and the bounds of a transfer depend on.
Runs(f, g) ==
  /\ g.op = f.op /\ g.cur = f.cur /\ g.offset = f.offset
  /\ g.stream = f.stream /\ g.stream_crc = f.stream_crc
  /\ g.timing = f.timing /\ g.drq = f.drq
  /\ g.wt_state = f.wt_state /\ g.wt_idx = f.wt_idx
  /\ g.delayed_drq = f.delayed_drq /\ g.delayed_int = f.delayed_int
  /\ g.status = f.status /\ g.type1 = f.type1
  /\ g.direction = f.direction /\ g.c_track = f.c_track

LEMMA RunsLemma ==
  ASSUME NEW f, NEW g, Runs(f, g)
  PROVE  /\ Within(f) => Within(g)
         /\ Phase(f) => Phase(g)
BY DEF Runs, Within, Phase, Idle, Ending, Working, fdc_streamed

Wired(f, g) ==
  /\ g.board = f.board /\ g.intena = f.intena /\ g.intrq = f.intrq
  /\ g.irq = f.irq

LEMMA WiredLemma ==
  ASSUME NEW f, NEW g, Runs(f, g), Wired(f, g), NEW r, Line(f, r)
  PROVE  Line(g, r)
BY DEF Runs, Wired, Line

LEMMA SelectedLemma ==
  ASSUME NEW f \in Chip, Slots, NEW d \in Drives
  PROVE  LET k == Selected(f, d)
         IN /\ k \in Chip /\ Runs(f, k) /\ Wired(f, k)
            /\ k.disk = disk[d] /\ k.bad = bad[d] /\ k.protected = protect[d]
<1> DEFINE k == Selected(f, d)
<1>1. /\ disk[d] \in Media \cup {NoDisk} /\ bad[d] \in SUBSET Place
      /\ protect[d] \in BOOLEAN
  BY DEF Slots
<1>2. k \in Chip
  BY <1>1 DEF Selected, Chip
<1>3. Runs(f, k)
  BY DEF Selected, Runs, Chip
<1>4. /\ Wired(f, k)
      /\ k.disk = disk[d] /\ k.bad = bad[d] /\ k.protected = protect[d]
  BY DEF Selected, Wired, Chip
<1> QED BY <1>2, <1>3, <1>4

LEMMA ControlStep ==
  ASSUME IInv, NEW ena \in BOOLEAN, NEW s \in 0 .. 1, NEW d \in Drives,
         WriteControl(ena, s, d)
  PROVE  IInv'
<1> DEFINE b == ena /\ fdc.intrq
           g == [fdc EXCEPT !.irq = b, !.intena = ena, !.side = s]
<1>1. /\ Act /\ fdc.board = "microdisc"
      /\ fdc' = IF d # drive THEN Selected(g, d) ELSE g
      /\ drive' = d /\ job' = NoJob
      /\ UNCHANGED <<disk, bad, protect, dirty, image, spare, polite, wrote,
                     reset>>
  BY DEF WriteControl
<1>2. fdc \in Chip /\ b \in BOOLEAN
  BY DEF IInv, Chip
<1>3. b => ena /\ fdc.intrq
  OBVIOUS
<1>4. ena /\ fdc.intrq => b
  OBVIOUS
<1> HIDE DEF b
<1>5. g \in Chip
  BY <1>2 DEF Chip
<1>6. Runs(fdc, g)
  BY <1>2 DEF Runs, Chip
<1>7. /\ g.board = fdc.board /\ g.intena = ena /\ g.intrq = fdc.intrq
      /\ g.irq = b
      /\ g.disk = fdc.disk /\ g.bad = fdc.bad /\ g.protected = fdc.protected
  BY <1>2 DEF Chip
<1> HIDE DEF g
<1>8. Line(g, reset)
  BY <1>1, <1>3, <1>4, <1>7 DEF Line
<1>9. /\ Selected(g, d) \in Chip /\ Runs(g, Selected(g, d))
      /\ Wired(g, Selected(g, d))
      /\ Selected(g, d).disk = disk[d] /\ Selected(g, d).bad = bad[d]
      /\ Selected(g, d).protected = protect[d]
  BY <1>5, SelectedLemma DEF IInv
<1>10. fdc' \in Chip /\ Line(fdc', reset)
  BY <1>1, <1>5, <1>8, <1>9, WiredLemma
<1>11. Within(g) /\ (Phase(fdc) => Phase(g))
  BY <1>6, RunsLemma DEF IInv
<1>12. Within(fdc') /\ (Phase(fdc) => Phase(fdc'))
  BY <1>1, <1>9, <1>11, RunsLemma
<1>13. Slots' /\ ChipHoldsDrive'
  BY <1>1, <1>7, <1>9 DEF IInv, Slots, ChipHoldsDrive
<1>14. Ledger'
  BY <1>1, ActLemma, NoJobLemma DEF IInv, Ledger
<1> QED BY <1>1, <1>10, <1>12, <1>13, <1>14 DEF IInv

LEMMA SideStep ==
  ASSUME IInv, NEW s \in 0 .. 1, SelectSide(s)
  PROVE  IInv'
<1> DEFINE k == [fdc EXCEPT !.side = s]
<1>1. /\ Act /\ fdc' = k /\ job' = NoJob /\ fdc \in Chip
      /\ UNCHANGED <<slots, dirty, image, spare, polite, wrote, reset>>
  BY DEF SelectSide, IInv
<1>2. k \in Chip
  BY <1>1 DEF Chip
<1>3. Runs(fdc, k)
  BY <1>1 DEF Runs, Chip
<1>4. Same(fdc, k)
  BY <1>1 DEF Same, SameMedium, Chip
<1> HIDE DEF k
<1>5. Within(k) /\ (polite => Phase(k)) /\ Keeps(fdc, k)
  BY <1>1, <1>2, <1>3, <1>4, RunsLemma, SameKeeps DEF IInv
<1>6. Ledger'
  BY <1>1, ActLemma, NoJobLemma DEF IInv, Ledger
<1> QED BY <1>1, <1>5, <1>6, ChipStep

LEMMA DriveStep ==
  ASSUME IInv, NEW d \in Drives, SelectDrive(d)
  PROVE  IInv'
<1>1. /\ Act /\ fdc \in Chip
      /\ fdc' = IF d # drive THEN Selected(fdc, d) ELSE fdc
      /\ drive' = d /\ job' = NoJob
      /\ UNCHANGED <<disk, bad, protect, dirty, image, spare, polite, wrote,
                     reset>>
  BY DEF SelectDrive, IInv
<1>2. /\ Selected(fdc, d) \in Chip /\ Runs(fdc, Selected(fdc, d))
      /\ Wired(fdc, Selected(fdc, d))
      /\ Selected(fdc, d).disk = disk[d] /\ Selected(fdc, d).bad = bad[d]
      /\ Selected(fdc, d).protected = protect[d]
  BY <1>1, SelectedLemma DEF IInv
<1>3. fdc' \in Chip /\ Line(fdc', reset)
  BY <1>1, <1>2, WiredLemma DEF IInv
<1>4. Within(fdc') /\ (Phase(fdc) => Phase(fdc'))
  BY <1>1, <1>2, RunsLemma DEF IInv
<1>5. Slots' /\ ChipHoldsDrive'
  BY <1>1, <1>2 DEF IInv, Slots, ChipHoldsDrive
<1>6. Ledger'
  BY <1>1, ActLemma, NoJobLemma DEF IInv, Ledger
<1> QED BY <1>1, <1>3, <1>4, <1>5, <1>6 DEF IInv

LEMMA ResetStep ==
  ASSUME IInv, ResetController
  PROVE  IInv'
<1> DEFINE g == fdc_reset(fdc)
           k == [g EXCEPT !.intrq = FALSE, !.drq = FALSE, !.irq = FALSE]
<1>1. /\ Act /\ fdc' = k /\ job' = NoJob /\ polite' = TRUE
      /\ fdc.board = "jasmin" /\ fdc \in Chip
      /\ UNCHANGED <<slots, dirty, image, spare, wrote, reset>>
  BY DEF ResetController, IInv
<1>2. /\ 1 \in Bytes /\ 0 \in Bytes /\ 0 \in 0 .. Tracks - 1 /\ 0 \in Nat
      /\ 0 \in 0 .. 2 /\ 0 \in 0 .. IdLen /\ "NONE" \in Ops
      /\ {} \in SUBSET StatusBits /\ {} \in SUBSET (StatusBits \ {BUSY})
  BY ByteAssumption, GeometryAssumption DEF Bytes, IdLen, Ops
<1>3. g \in Chip
  <2> DEFINE a == [fdc EXCEPT !.status = {}, !.type1 = FALSE, !.sector = 1,
                     !.c_track = 0, !.op = "NONE", !.cur = NoSector,
                     !.offset = 0]
             b == [a EXCEPT !.wt_state = 0, !.wt_idx = 0, !.wt_done = 0,
                     !.delayed_drq = FALSE, !.delayed_int = FALSE,
                     !.di_status = {}, !.stream = FALSE, !.stream_crc = FALSE]
  <2>1. g = b
    BY <1>1 DEF fdc_reset, Chip
  <2>2. a \in Chip
    BY <1>1, <1>2 DEF Chip
  <2> HIDE DEF a
  <2>3. b \in Chip
    BY ZenonT(30), <1>2, <2>2 DEF Chip
  <2> QED BY <2>1, <2>3
<1>4. /\ g.board = "jasmin" /\ g.disk = fdc.disk /\ g.bad = fdc.bad
      /\ g.protected = fdc.protected /\ g.op = "NONE" /\ g.wt_state = 0
      /\ g.status = {} /\ ~g.delayed_drq /\ ~g.delayed_int
  BY <1>1 DEF fdc_reset, Chip
<1> HIDE DEF g
<1>5. k \in Chip
  BY <1>3 DEF Chip
<1>6. /\ k.board = "jasmin" /\ k.disk = fdc.disk /\ k.bad = fdc.bad
      /\ k.protected = fdc.protected /\ k.op = "NONE" /\ k.wt_state = 0
      /\ k.status = {} /\ ~k.delayed_drq /\ ~k.delayed_int
      /\ ~k.drq /\ ~k.irq
  BY <1>3, <1>4 DEF Chip
<1> HIDE DEF k
<1>7. Within(k)
  BY <1>6 DEF Within, SectorOps, ReadOps, WriteOps
<1>8. Phase(k)
  BY <1>6 DEF Phase, Idle
<1>9. Keeps(fdc, k)
  BY <1>5, <1>6 DEF Keeps, SameMedium, Line
<1>10. Ledger'
  BY <1>1, ActLemma, NoJobLemma DEF IInv, Ledger
<1> QED BY <1>1, <1>7, <1>8, <1>9, <1>10, ChipStep

\* A floppy enters or leaves drive d.
LEMMA SetDiskLemma ==
  ASSUME IInv, NEW d \in Drives, NEW m \in Media \cup {NoDisk}, set_disk(d, m),
         UNCHANGED <<drive, protect, polite, reset>>, Ledger'
  PROVE  IInv'
<1> DEFINE k == [fdc EXCEPT !.disk = m, !.bad = {}]
<1>1. /\ disk' = [disk EXCEPT ![d] = m] /\ bad' = [bad EXCEPT ![d] = {}]
      /\ fdc' = IF d = drive THEN k ELSE fdc
      /\ fdc \in Chip
  BY DEF set_disk, IInv
<1>2. k \in Chip
  BY <1>1 DEF Chip
<1>3. Runs(fdc, k)
  BY <1>1 DEF Runs, Chip
<1>4. Wired(fdc, k)
  BY <1>1 DEF Wired, Chip
<1>5. k.disk = m /\ k.bad = {} /\ k.protected = fdc.protected
  BY <1>1 DEF Chip
<1> HIDE DEF k
<1>6. fdc' \in Chip /\ Line(fdc', reset)
  BY <1>1, <1>2, <1>3, <1>4, WiredLemma DEF IInv
<1>7. Within(fdc') /\ (Phase(fdc) => Phase(fdc'))
  BY <1>1, <1>3, RunsLemma DEF IInv
<1>8. Slots'
  BY <1>1 DEF IInv, Slots
<1>9. ChipHoldsDrive'
  <2>1. CASE d = drive
    BY <1>1, <1>5, <2>1 DEF IInv, Slots, ChipHoldsDrive
  <2>2. CASE d # drive
    BY <1>1, <2>2 DEF IInv, Slots, ChipHoldsDrive
  <2> QED BY <2>1, <2>2
<1> QED BY <1>6, <1>7, <1>8, <1>9 DEF IInv

LEMMA LoadStep ==
  ASSUME IInv, NEW d \in Drives, NEW m \in Media, LoadDisk(d, m)
  PROVE  IInv'
<1>1. Ledger'
  BY ActLemma, NoJobLemma DEF LoadDisk, IInv, Ledger
<1> QED BY <1>1, SetDiskLemma DEF LoadDisk

LEMMA EjectStep ==
  ASSUME IInv, NEW d \in Drives, EjectDisk(d)
  PROVE  IInv'
<1>1. Ledger'
  BY ActLemma, NoJobLemma DEF EjectDisk, IInv, Ledger
<1> QED BY <1>1, SetDiskLemma DEF EjectDisk

LEMMA ProtectStep ==
  ASSUME IInv, NEW d \in Drives, NEW on \in BOOLEAN, SetProtected(d, on)
  PROVE  IInv'
<1> DEFINE k == [fdc EXCEPT !.protected = on]
<1>1. /\ Act /\ protect' = [protect EXCEPT ![d] = on]
      /\ fdc' = IF d = drive THEN k ELSE fdc
      /\ fdc \in Chip
      /\ UNCHANGED <<drive, disk, bad, dirty, image, spare, polite, job,
                     wrote, reset>>
  BY DEF SetProtected, IInv
<1>2. k \in Chip
  BY <1>1 DEF Chip
<1>3. Runs(fdc, k)
  BY <1>1 DEF Runs, Chip
<1>4. Wired(fdc, k)
  BY <1>1 DEF Wired, Chip
<1>5. k.disk = fdc.disk /\ k.bad = fdc.bad /\ k.protected = on
  BY <1>1 DEF Chip
<1> HIDE DEF k
<1>6. fdc' \in Chip /\ Line(fdc', reset)
  BY <1>1, <1>2, <1>3, <1>4, WiredLemma DEF IInv
<1>7. Within(fdc') /\ (Phase(fdc) => Phase(fdc'))
  BY <1>1, <1>3, RunsLemma DEF IInv
<1>8. Slots'
  BY <1>1 DEF IInv, Slots
<1>9. ChipHoldsDrive'
  <2>1. CASE d = drive
    BY <1>1, <1>5, <2>1 DEF IInv, Slots, ChipHoldsDrive
  <2>2. CASE d # drive
    BY <1>1, <2>2 DEF IInv, Slots, ChipHoldsDrive
  <2> QED BY <2>1, <2>2
<1>10. Ledger'
  BY <1>1, ActLemma DEF IInv, Ledger
<1> QED BY <1>1, <1>6, <1>7, <1>8, <1>9, <1>10 DEF IInv

LEMMA CpuResetStep ==
  ASSUME IInv, CpuReset
  PROVE  IInv'
<1> DEFINE k == [fdc EXCEPT !.irq = FALSE]
<1>1. /\ Act /\ fdc' = k /\ fdc \in Chip /\ reset' = TRUE
      /\ UNCHANGED <<slots, dirty, image, spare, polite, job, wrote>>
  BY DEF CpuReset, IInv
<1>2. k \in Chip
  BY <1>1 DEF Chip
<1>3. Runs(fdc, k)
  BY <1>1 DEF Runs, Chip
<1>4. k.irq = FALSE /\ SameMedium(fdc, k)
  BY <1>1 DEF SameMedium, Chip
<1> HIDE DEF k
<1>5. Line(k, TRUE)
  BY <1>4 DEF Line
<1>6. Within(k) /\ (Phase(fdc) => Phase(k))
  BY <1>3, RunsLemma DEF IInv
<1>7. Slots' /\ ChipHoldsDrive'
  BY <1>1, <1>4 DEF IInv, Slots, slots, ChipHoldsDrive, SameMedium
<1>8. Ledger'
  BY <1>1, ActLemma DEF IInv, Ledger
<1> QED BY <1>1, <1>2, <1>5, <1>6, <1>7, <1>8 DEF IInv

LEMMA NextIInv == IInv /\ [Next]_vars => IInv'
<1> SUFFICES ASSUME IInv, [Next]_vars PROVE IInv'
  OBVIOUS
<1>1. CASE Access
  <2>1. ASSUME NEW c \in Commands, WriteCommand(c) PROVE IInv'
    BY <2>1, WriteCommandStep
  <2>2. CASE ReadStatus
    BY <2>2, ReadStatusStep
  <2>3. ASSUME NEW s \in 0 .. Spt + 1, WriteSectorRegister(s) PROVE IInv'
    BY <2>3, SectorRegisterStep
  <2>4. CASE ReadData \/ ReadDataUnasked
    BY <2>4, ReadDataStep
  <2>5. ASSUME NEW v \in GuestBytes, WriteData(v) \/ WriteDataUnasked(v)
        PROVE  IInv'
    BY <2>5, WriteDataStep
  <2> QED BY <1>1, <2>1, <2>2, <2>3, <2>4, <2>5 DEF Access
<1>2. CASE Control
  <2>1. ASSUME NEW ena \in BOOLEAN, NEW s \in 0 .. 1, NEW d \in Drives,
               WriteControl(ena, s, d)
        PROVE  IInv'
    BY <2>1, ControlStep
  <2>2. ASSUME NEW s \in 0 .. 1, SelectSide(s) PROVE IInv'
    BY <2>2, SideStep
  <2>3. ASSUME NEW d \in Drives, SelectDrive(d) PROVE IInv'
    BY <2>3, DriveStep
  <2>4. CASE ResetController
    BY <2>4, ResetStep
  <2> QED BY <1>2, <2>1, <2>2, <2>3, <2>4 DEF Control
<1>3. CASE Tick
  BY <1>3, TickStep
<1>4. CASE Host
  <2>1. ASSUME NEW d \in Drives, NEW m \in Media, LoadDisk(d, m) PROVE IInv'
    BY <2>1, LoadStep
  <2>2. ASSUME NEW d \in Drives, EjectDisk(d) PROVE IInv'
    BY <2>2, EjectStep
  <2>3. ASSUME NEW d \in Drives, NEW on \in BOOLEAN, SetProtected(d, on)
        PROVE  IInv'
    BY <2>3, ProtectStep
  <2>4. CASE CpuReset
    BY <2>4, CpuResetStep
  <2> QED BY <1>4, <2>1, <2>2, <2>3, <2>4 DEF Host
<1>5. CASE UNCHANGED vars
  BY <1>5
  DEF vars, slots, IInv, Slots, Ledger, ChipHoldsDrive
<1> QED BY <1>1, <1>2, <1>3, <1>4, <1>5 DEF Next

LEMMA Invariance == Spec => []IInv
<1> QED BY InitIInv, NextIInv, PTL DEF Spec

-----------------------------------------------------------------------------
(* The theorems *)

\* The state of the interface has its types: in particular the head stays on
\* the disk, and no byte that is read comes from outside a sector.
THEOREM DiskTypeCorrect == Spec => []TypeOK
<1>1. IInv => TypeOK
  BY DEF IInv, Slots, Ledger, Images, Jobs, TypeOK
<1> QED BY <1>1, Invariance, PTL

\* Whatever is selected, loaded, ejected or protected, and whatever the chip
\* does meanwhile, it works with the medium of the drive that is selected.
THEOREM ChipFollowsDrive == Spec => []ChipHoldsDrive
<1>1. IInv => ChipHoldsDrive
  BY DEF IInv
<1> QED BY <1>1, Invariance, PTL

\* The disk interrupt of the CPU is the line of the board, with no edge lost
\* and none left over, except for the one that a reset of the CPU drops.
THEOREM DiskIrqExact == Spec => []IrqFollowsLine
<1>1. IInv => IrqFollowsLine
  BY DEF IInv, Line, IrqFollowsLine, Asserted
<1> QED BY <1>1, Invariance, PTL

\* The two together: drive, chip, line and CPU agree.
THEOREM DiskInStep == Spec => []BoardIsInStep
<1>1. ChipHoldsDrive /\ IrqFollowsLine => BoardIsInStep
  BY DEF BoardIsInStep
<1> QED BY <1>1, ChipFollowsDrive, DiskIrqExact, PTL

\* For a polite guest a chip that is not busy has nothing left to deliver.
THEOREM DiskIdleQuiet == Spec => []IdleIsQuiet
<1>1. IInv => IdleIsQuiet
  BY DEF IInv, Phase, Idle, Ending, Working, IdleIsQuiet
<1> QED BY <1>1, Invariance, PTL

\* For a polite guest a busy chip is waiting for something that will come, or
\* stepped out of track 0.
THEOREM DiskBusyAlive == Spec => []BusyIsAlive
<1>1. IInv => BusyIsAlive
  BY DEF IInv, Phase, Idle, Ending, Working, BusyIsAlive, StepOutAtTrack0
<1> QED BY <1>1, Invariance, PTL

\* The two together: a polite guest's commands end, and leave nothing behind.
THEOREM DiskEndsCleanly == Spec => []CommandsEndCleanly
<1>1. IdleIsQuiet /\ BusyIsAlive => CommandsEndCleanly
  BY DEF CommandsEndCleanly
<1> QED BY <1>1, DiskIdleQuiet, DiskBusyAlive, PTL

-----------------------------------------------------------------------------
(* A sector command of the disk interface moves every byte of its sectors,   *)
(* once and in order, or says LOST DATA, and a write marks its drive: for    *)
(* every geometry, every profile and every program.                          *)
(*                                                                           *)
(* JobInv compares the bytes that went through the data register with the    *)
(* sectors.  While the command works, the sector register and the offset     *)
(* tell how far the head is, and the program is level with it, one byte      *)
(* behind (a byte waits to be read) or one ahead (a byte waits to be         *)
(* written).                                                                 *)


\* Sector s of the track that the job works on.
On(j, s) ==
  [medium |-> j.first.medium, side |-> j.first.side, track |-> j.first.track,
   sector |-> s]

\* Byte r of the sector that is q sectors past the first.
Cells(j, im, q, r) ==
  im[j.first.medium][<<<<j.first.side, j.first.track, j.first.sector + q>>, r>>]

\* The first n bytes of the job are those of the image.
InPlace(j, im, n) ==
  \A q \in 0 .. Spt - j.first.sector, r \in Offsets :
    SectorLen * q + r < n
      => j.bytes[SectorLen * q + r + 1] = Cells(j, im, q, r)

\* The n bytes of the job are those of the image.
Whole(j, im, n) == Len(j.bytes) = n /\ InPlace(j, im, n)

\* Bytes that passed the head, in the sectors before this one and in this one.
Passed(f, j) == SectorLen * (f.sector - j.first.sector) + f.offset

\* The chip works on the sectors of the job.
Anchored(f, j) ==
  /\ j.first \in Sector
  /\ j.op \in SectorOps
  /\ f.disk = j.first.medium /\ f.side = j.first.side
  /\ f.c_track = j.first.track
  /\ f.sector \in j.first.sector .. Spt
  /\ j.op \notin MultiOps => f.sector = j.first.sector
  /\ f.cur = On(j, f.sector)
  /\ f.op = j.op

\* Who paces the bytes: the program, or the platter once it streams.
Paced(f) ==
  /\ f.timing = "FAST" => ~f.stream /\ f.offset < SectorLen
  /\ f.timing = "REAL" /\ ~f.stream => f.offset = 0 /\ DRQ \notin f.status
  /\ f.stream =>
       /\ ~f.delayed_drq
       /\ f.offset \in 0 .. SectorLen
       /\ f.op \in ReadOps => f.offset > 0
       /\ f.op \in ReadOps /\ f.stream_crc => f.offset = SectorLen
       /\ f.op \in WriteOps => (f.stream_crc <=> f.offset = SectorLen)
       /\ f.op \in WriteOps /\ f.stream_crc => DRQ \notin f.status

\* A streamed transfer says LOST DATA as soon as a byte is lost.
Clean(f) == f.timing = "REAL" => LOST_DATA \notin f.status

\* A byte that was read from the platter waits in the data register.
Behind(f) == f.stream /\ DRQ \in f.status

Reading(f, j, im) ==
  IF Behind(f)
  THEN /\ Whole(j, im, Passed(f, j) - 1)
       /\ f.data = ByteAt(im, f.cur, f.offset - 1)
  ELSE Whole(j, im, Passed(f, j))

\* A byte that the program wrote waits for the platter.
Ahead(f) == f.stream /\ ~f.stream_crc /\ DRQ \notin f.status

\* d: the drive is marked.
Writing(f, j, im, d) ==
  /\ InPlace(j, im, Passed(f, j))
  /\ IF Ahead(f)
     THEN /\ Len(j.bytes) = Passed(f, j) + 1
          /\ f.data = j.bytes[Len(j.bytes)]
     ELSE Len(j.bytes) = Passed(f, j)
  /\ Passed(f, j) > 0 => f.modified \/ d
  /\ Len(j.bytes) >= 2 => d

Transfers(f, j, im, d) ==
  /\ Anchored(f, j)
  /\ Paced(f)
  /\ Clean(f) => /\ f.op \in ReadOps => Reading(f, j, im)
                 /\ f.op \in WriteOps => Writing(f, j, im, d)

Count(f, j) == IF j.op \in MultiOps THEN f.sector - j.first.sector ELSE 1

\* The command is over.
Over(f, j, im, d) ==
  /\ f.op = "NONE"
  /\ j.first \in Sector /\ j.op \in SectorOps
  /\ f.sector \in j.first.sector .. Spt + 1
  /\ LOST_DATA \notin f.di_status =>
       /\ Whole(j, im, SectorLen * Count(f, j))
       /\ j.op \in WriteOps => d

Progress(f, j, im, d) == Transfers(f, j, im, d) \/ Over(f, j, im, d)

JobInv == job.op # "NONE" => Progress(fdc, job, image, dirty[drive])

-----------------------------------------------------------------------------
(* Positions: byte r of sector q is byte SectorLen * q + r of the job *)

LEMMA NextLemma ==
  ASSUME NEW k \in Int
  PROVE  /\ SectorLen * k \in Int /\ SectorLen * 0 = 0
         /\ SectorLen * (k + 1) = SectorLen * k + SectorLen
BY GeometryAssumption

LEMMA BelowLemma ==
  ASSUME NEW q \in Nat, NEW k \in Nat, q < k
  PROVE  SectorLen * q + SectorLen <= SectorLen * k
<1> DEFINE d == k - q - 1
<1>1. d \in Nat /\ k = q + 1 + d
  OBVIOUS
<1> HIDE DEF d
<1>2. SectorLen * d >= 0 /\ SectorLen * d \in Nat
  BY <1>1, GeometryAssumption
<1>3. SectorLen * (q + 1 + d) = SectorLen * q + SectorLen + SectorLen * d
  BY <1>1, GeometryAssumption
<1> QED BY <1>1, <1>2, <1>3, GeometryAssumption

LEMMA OrderLemma ==
  ASSUME NEW q \in Nat, NEW k \in Nat, NEW r \in Offsets, NEW o \in Offsets
  PROVE  /\ SectorLen * q + r < SectorLen * k + o + 1 /\ <<q, r>> # <<k, o>>
              => SectorLen * q + r < SectorLen * k + o
         /\ SectorLen * q + r < SectorLen * k + o => q <= k
         /\ q < k => SectorLen * q + r < SectorLen * k
<1> DEFINE a == SectorLen * q
           b == SectorLen * k
<1>1. a \in Nat /\ b \in Nat
  BY GeometryAssumption
<1>2. q < k => a + SectorLen <= b
  BY BelowLemma
<1>3. k < q => b + SectorLen <= a
  BY BelowLemma
<1>4. q = k => a = b
  OBVIOUS
<1>5. r \in Nat /\ o \in Nat /\ r < SectorLen /\ o < SectorLen
  BY GeometryAssumption DEF Offsets
<1> HIDE DEF a, b
<1>6. /\ a + r < b + o + 1 /\ <<q, r>> # <<k, o>> => a + r < b + o
      /\ a + r < b + o => q <= k
      /\ q < k => a + r < b
  BY <1>1, <1>2, <1>3, <1>4, <1>5, GeometryAssumption
<1> QED BY <1>6 DEF a, b

LEMMA DivLemma ==
  ASSUME NEW i \in Nat
  PROVE  /\ i \div SectorLen \in Nat /\ i % SectorLen \in Offsets
         /\ i = SectorLen * (i \div SectorLen) + (i % SectorLen)
BY GeometryAssumption, SMTT(30) DEF Offsets

-----------------------------------------------------------------------------
(* Bytes of the job and bytes of the image *)

LEMMA CellLemma ==
  ASSUME NEW j \in Jobs, j.first \in Sector,
         NEW q \in 0 .. Spt - j.first.sector, NEW r \in Offsets
  PROVE  /\ j.first.sector + q \in 1 .. Spt
         /\ On(j, j.first.sector + q) \in Sector
         /\ CellOf(On(j, j.first.sector + q), r)
              = <<<<j.first.side, j.first.track, j.first.sector + q>>, r>>
         /\ CellOf(On(j, j.first.sector + q), r) \in Cell
<1>1. j.first.sector \in 1 .. Spt
  BY DEF Sector
<1>2. j.first.sector + q \in 1 .. Spt
  BY <1>1, GeometryAssumption
<1>3. On(j, j.first.sector + q) \in Sector
  BY <1>2 DEF On, Sector
<1>4. CellOf(On(j, j.first.sector + q), r)
        = <<<<j.first.side, j.first.track, j.first.sector + q>>, r>>
  BY DEF CellOf, On
<1>5. <<<<j.first.side, j.first.track, j.first.sector + q>>, r>> \in Cell
  BY <1>2 DEF Cell, Place, Sector
<1> QED BY <1>2, <1>3, <1>4, <1>5

\* What the chip reads is the byte that the job should get.
LEMMA ByteAtLemma ==
  ASSUME NEW im, NEW j \in Jobs, j.first \in Sector,
         NEW q \in 0 .. Spt - j.first.sector, NEW r \in Offsets
  PROVE  ByteAt(im, On(j, j.first.sector + q), r) = Cells(j, im, q, r)
<1>1. CellOf(On(j, j.first.sector + q), r)
        = <<<<j.first.side, j.first.track, j.first.sector + q>>, r>>
  BY CellLemma
<1>2. On(j, j.first.sector + q).medium = j.first.medium
  BY DEF On
<1> QED BY <1>1, <1>2 DEF ByteAt, Cells

\* A stored byte changes its own cell only.
LEMMA StoreLemma ==
  ASSUME NEW im \in Images, NEW j \in Jobs, j.first \in Sector,
         NEW k \in 0 .. Spt - j.first.sector, NEW o \in Offsets,
         NEW v \in Bytes,
         NEW q \in 0 .. Spt - j.first.sector, NEW r \in Offsets
  PROVE  Cells(j, Stored(im, On(j, j.first.sector + k), o, v), q, r)
           = IF <<q, r>> = <<k, o>> THEN v ELSE Cells(j, im, q, r)
<1> DEFINE m == j.first.medium
           c == <<<<j.first.side, j.first.track, j.first.sector + k>>, o>>
           d == <<<<j.first.side, j.first.track, j.first.sector + q>>, r>>
           row == [im[m] EXCEPT ![c] = v]
<1>1. m \in Media /\ im[m] \in [Cell -> Bytes]
  BY DEF Sector, Images
<1>2. c \in Cell /\ d \in Cell
  BY CellLemma
<1>3. /\ CellOf(On(j, j.first.sector + k), o) = c
      /\ On(j, j.first.sector + k).medium = m
  BY CellLemma DEF On
<1>4. Stored(im, On(j, j.first.sector + k), o, v) = [im EXCEPT ![m] = row]
  BY <1>3 DEF Stored
<1>5. row[d] = IF d = c THEN v ELSE im[m][d]
  BY <1>1, <1>2
<1>6. d = c <=> <<q, r>> = <<k, o>>
  <2>1. j.first.sector \in Nat
    BY DEF Sector
  <2>2. q \in Int /\ k \in Int
    OBVIOUS
  <2> QED BY <2>1, <2>2
<1> HIDE DEF row, c
<1>7. [im EXCEPT ![m] = row][m] = row
  BY <1>1 DEF Images
<1>8. /\ Cells(j, [im EXCEPT ![m] = row], q, r) = row[d]
      /\ Cells(j, im, q, r) = im[m][d]
  BY <1>7 DEF Cells
<1> QED BY <1>4, <1>5, <1>6, <1>8

LEMMA AppendedLemma ==
  ASSUME NEW j \in Jobs, NEW v \in Bytes
  PROVE  LET l == [j EXCEPT !.bytes = Append(@, v)]
         IN /\ l \in Jobs /\ l.first = j.first /\ l.op = j.op
            /\ Len(l.bytes) = Len(j.bytes) + 1 /\ Len(j.bytes) \in Nat
            /\ l.bytes[Len(j.bytes) + 1] = v
            /\ \A i \in 1 .. Len(j.bytes) : l.bytes[i] = j.bytes[i]
<1> DEFINE b == Append(j.bytes, v)
           l == [j EXCEPT !.bytes = b]
<1>1. j.bytes \in Seq(Bytes)
  BY DEF Jobs
<1>2. /\ b \in Seq(Bytes) /\ Len(b) = Len(j.bytes) + 1 /\ Len(j.bytes) \in Nat
      /\ b[Len(j.bytes) + 1] = v
      /\ \A i \in 1 .. Len(j.bytes) : b[i] = j.bytes[i]
  BY <1>1
<1> HIDE DEF b
<1>3. l \in Jobs /\ l.first = j.first /\ l.op = j.op /\ l.bytes = b
  BY <1>2 DEF Jobs
<1> QED BY <1>2, <1>3 DEF b

-----------------------------------------------------------------------------
(* The chip and the job *)

\* What the job depends on besides the status register.
Still(f, g) ==
  /\ g.timing = f.timing /\ g.sector = f.sector /\ g.data = f.data
  /\ g.c_track = f.c_track /\ g.side = f.side /\ g.disk = f.disk
  /\ g.modified = f.modified /\ g.op = f.op /\ g.cur = f.cur
  /\ g.offset = f.offset /\ g.delayed_drq = f.delayed_drq
  /\ g.di_status = f.di_status /\ g.stream = f.stream
  /\ g.stream_crc = f.stream_crc

LEMMA RestLemma ==
  ASSUME NEW f \in Chip, NEW st, NEW g, Rest([f EXCEPT !.status = st], g)
  PROVE  Still(f, g) /\ g.status = st
<1>1. /\ g.timing = f.timing /\ g.sector = f.sector /\ g.data = f.data
      /\ g.c_track = f.c_track /\ g.side = f.side /\ g.disk = f.disk
  BY DEF Rest, Lines, Chip
<1>2. /\ g.modified = f.modified /\ g.op = f.op /\ g.cur = f.cur
      /\ g.offset = f.offset /\ g.delayed_drq = f.delayed_drq
      /\ g.status = st
  BY DEF Rest, Lines, Chip
<1>3. /\ g.di_status = f.di_status /\ g.stream = f.stream
      /\ g.stream_crc = f.stream_crc
  BY DEF Rest, Lines, Chip
<1> QED BY <1>1, <1>2, <1>3 DEF Still

LEMMA OnLemma ==
  ASSUME NEW f \in Chip
  PROVE  /\ Still(f, DrqOn(f)) /\ DrqOn(f).status = f.status \cup {DRQ}
         /\ DrqOn(f) \in Chip
BY DrqOnLemma, RestLemma DEF Keeps

LEMMA OffLemma ==
  ASSUME NEW f \in Chip
  PROVE  /\ Still(f, DrqOff(f)) /\ DrqOff(f).status = f.status \ {DRQ}
         /\ DrqOff(f) \in Chip
<1>1. /\ Keeps(f, DrqOff(f))
      /\ Rest([f EXCEPT !.status = f.status \ {DRQ}], DrqOff(f))
  BY DrqOffLemma
<1> QED BY <1>1, RestLemma DEF Keeps

LEMMA StillLemma ==
  ASSUME NEW f, NEW g, NEW j, NEW im, NEW d, Still(f, g),
         g.status = f.status, Progress(f, j, im, d)
  PROVE  Progress(g, j, im, d)
<1>1. Transfers(f, j, im, d) => Transfers(g, j, im, d)
  BY DEF Still, Transfers, Anchored, Paced, Clean, Reading, Writing, Behind,
         Ahead, Passed
<1>2. Over(f, j, im, d) => Over(g, j, im, d)
  BY DEF Still, Over, Count
<1> QED BY <1>1, <1>2 DEF Progress

\* The sector under the head, as the job counts it.
LEMMA AnchorLemma ==
  ASSUME NEW f \in Chip, NEW j \in Jobs, Anchored(f, j)
  PROVE  /\ f.sector - j.first.sector \in 0 .. Spt - j.first.sector
         /\ j.first.sector + (f.sector - j.first.sector) = f.sector
         /\ f.cur # NoSector
         /\ \A im : \A o \in Offsets :
              ByteAt(im, f.cur, o) = Cells(j, im, f.sector - j.first.sector, o)
<1>1. j.first.sector \in 1 .. Spt /\ f.sector \in j.first.sector .. Spt
  BY DEF Anchored, Sector
<1>2. /\ f.sector - j.first.sector \in 0 .. Spt - j.first.sector
      /\ j.first.sector + (f.sector - j.first.sector) = f.sector
  BY <1>1, GeometryAssumption
<1>3. f.cur.sector = f.sector
  BY DEF Anchored, On
<1>4. f.cur # NoSector
  BY <1>1, <1>3, GeometryAssumption DEF NoSector
<1>5. ASSUME NEW im, NEW o \in Offsets
      PROVE  ByteAt(im, f.cur, o) = Cells(j, im, f.sector - j.first.sector, o)
  BY <1>2, ByteAtLemma DEF Anchored
<1> QED BY <1>2, <1>4, <1>5

\* The job got the next byte of the image.
LEMMA ReadOneLemma ==
  ASSUME NEW im, NEW j \in Jobs, j.first \in Sector,
         NEW k \in 0 .. Spt - j.first.sector, NEW o \in Offsets,
         NEW v \in Bytes, v = Cells(j, im, k, o),
         Whole(j, im, SectorLen * k + o)
  PROVE  Whole([j EXCEPT !.bytes = Append(@, v)], im, SectorLen * k + o + 1)
<1> DEFINE l == [j EXCEPT !.bytes = Append(@, v)]
           n == SectorLen * k + o
<1>1. /\ l.first = j.first /\ Len(j.bytes) \in Nat
      /\ Len(l.bytes) = Len(j.bytes) + 1 /\ l.bytes[Len(j.bytes) + 1] = v
      /\ \A i \in 1 .. Len(j.bytes) : l.bytes[i] = j.bytes[i]
  BY AppendedLemma
<1>2. Len(j.bytes) = n
  BY DEF Whole
<1> HIDE DEF l
<1>3. ASSUME NEW q \in 0 .. Spt - j.first.sector, NEW r \in Offsets,
             SectorLen * q + r < n + 1
      PROVE  l.bytes[SectorLen * q + r + 1] = Cells(j, im, q, r)
  <2>1. q \in Nat /\ k \in Nat
    OBVIOUS
  <2>2. CASE <<q, r>> = <<k, o>>
    BY <1>1, <1>2, <2>2
  <2>3. CASE <<q, r>> # <<k, o>>
    <3>1. SectorLen * q + r < n
      BY <1>3, <2>1, <2>3, OrderLemma
    <3>2. j.bytes[SectorLen * q + r + 1] = Cells(j, im, q, r)
      BY <3>1 DEF Whole, InPlace
    <3>3. SectorLen * q \in Nat /\ r \in Nat
      BY <2>1, GeometryAssumption DEF Offsets
    <3>4. SectorLen * q + r + 1 \in 1 .. Len(j.bytes)
      BY <1>1, <1>2, <3>1, <3>3
    <3> QED BY <1>1, <3>2, <3>4
  <2> QED BY <2>2, <2>3
<1>4. \A q, r : Cells(l, im, q, r) = Cells(j, im, q, r)
  BY <1>1 DEF Cells
<1> HIDE DEF n
<1>5. Whole(l, im, n + 1)
  BY <1>1, <1>2, <1>3, <1>4 DEF Whole, InPlace, n
<1> QED BY <1>5 DEF l, n

\* The image got the next byte of the job.
LEMMA StoreOneLemma ==
  ASSUME NEW im \in Images, NEW j \in Jobs, j.first \in Sector,
         NEW k \in 0 .. Spt - j.first.sector, NEW o \in Offsets,
         NEW v \in Bytes, InPlace(j, im, SectorLen * k + o),
         j.bytes[SectorLen * k + o + 1] = v
  PROVE  InPlace(j, Stored(im, On(j, j.first.sector + k), o, v),
                 SectorLen * k + o + 1)
<1> DEFINE new == Stored(im, On(j, j.first.sector + k), o, v)
           n == SectorLen * k + o
<1>1. ASSUME NEW q \in 0 .. Spt - j.first.sector, NEW r \in Offsets,
             SectorLen * q + r < n + 1
      PROVE  j.bytes[SectorLen * q + r + 1] = Cells(j, new, q, r)
  <2>1. q \in Nat /\ k \in Nat
    OBVIOUS
  <2>2. Cells(j, new, q, r) = IF <<q, r>> = <<k, o>> THEN v
                              ELSE Cells(j, im, q, r)
    BY StoreLemma
  <2> HIDE DEF new
  <2>3. CASE <<q, r>> = <<k, o>>
    BY <2>2, <2>3
  <2>4. CASE <<q, r>> # <<k, o>>
    <3>1. SectorLen * q + r < n
      BY <1>1, <2>1, <2>4, OrderLemma
    <3>2. j.bytes[SectorLen * q + r + 1] = Cells(j, im, q, r)
      BY <3>1 DEF InPlace
    <3> QED BY <2>2, <2>4, <3>2
  <2> QED BY <2>3, <2>4
<1> HIDE DEF new, n
<1>2. InPlace(j, new, n + 1)
  BY <1>1 DEF InPlace
<1> QED BY <1>2 DEF new, n

\* Bytes that the job gets do not disturb those it has.
LEMMA MoreLemma ==
  ASSUME NEW im, NEW j \in Jobs, NEW v \in Bytes, NEW n \in Nat,
         j.first \in Sector, n <= Len(j.bytes), InPlace(j, im, n)
  PROVE  InPlace([j EXCEPT !.bytes = Append(@, v)], im, n)
<1> DEFINE l == [j EXCEPT !.bytes = Append(@, v)]
<1>1. /\ l.first = j.first /\ Len(j.bytes) \in Nat
      /\ \A i \in 1 .. Len(j.bytes) : l.bytes[i] = j.bytes[i]
  BY AppendedLemma
<1> HIDE DEF l
<1>2. ASSUME NEW q \in 0 .. Spt - j.first.sector, NEW r \in Offsets,
             SectorLen * q + r < n
      PROVE  l.bytes[SectorLen * q + r + 1] = Cells(l, im, q, r)
  <2>1. SectorLen * q \in Nat /\ r \in Nat
    BY GeometryAssumption DEF Offsets
  <2>2. SectorLen * q + r + 1 \in 1 .. Len(j.bytes)
    BY <1>1, <1>2, <2>1
  <2>3. j.bytes[SectorLen * q + r + 1] = Cells(j, im, q, r)
    BY <1>2 DEF InPlace
  <2> QED BY <1>1, <2>2, <2>3 DEF Cells
<1> QED BY <1>1, <1>2 DEF InPlace, l

-----------------------------------------------------------------------------
(* The steps of the chip *)

LEMMA IndexLemma ==
  ASSUME NEW f \in Chip, f.sector \in 1 .. Spt
  PROVE  (f.sector + 1) % (MaxByte + 1) = f.sector + 1 /\ f.sector + 1 \in Bytes
<1>1. f.sector + 1 \in 0 .. MaxByte
  BY ByteAssumption, GeometryAssumption
<1>2. MaxByte + 1 \in Nat /\ f.sector + 1 < MaxByte + 1 /\ f.sector + 1 \in Nat
  BY <1>1, ByteAssumption
<1> QED BY <1>1, <1>2 DEF Bytes

\* A sector is over: the command ends or goes on with the next one.
LEMMA SectorLemma ==
  ASSUME NEW f \in Chip, NEW j \in Jobs, NEW im, NEW d \in BOOLEAN,
         Anchored(f, j), ~f.stream, DRQ \notin f.status,
         NEW st \in SUBSET (StatusBits \ {BUSY}),
         Clean(f) => LOST_DATA \notin st,
         LOST_DATA \notin st =>
           /\ Whole(j, im, SectorLen * (f.sector - j.first.sector + 1))
           /\ j.op \in WriteOps => d
  PROVE  /\ Progress(SectorDone(f, st), j, im, d)
         /\ SectorDone(f, st).data = f.data
         /\ SectorDone(f, st).modified = f.modified
         /\ SectorDone(f, st) \in Chip
<1> DEFINE g == SectorDone(f, st)
           n == SectorLen * (f.sector - j.first.sector + 1)
<1>1. /\ j.first.sector \in 1 .. Spt /\ f.sector \in j.first.sector .. Spt
      /\ f.sector \in 1 .. Spt
  <2>1. j.first.sector \in 1 .. Spt /\ f.sector \in j.first.sector .. Spt
    BY DEF Anchored, Sector
  <2> QED BY <2>1, GeometryAssumption
<1>2. CASE f.op \notin MultiOps
  <2>1. g = Posted([f EXCEPT !.op = "NONE"], st)
    BY <1>2 DEF SectorDone
  <2> HIDE DEF g, n
  <2>2. /\ g.op = "NONE" /\ g.sector = f.sector /\ g.di_status = st
        /\ g.data = f.data /\ g.modified = f.modified
    BY <2>1 DEF Posted, Chip
  <2>3. g \in Chip
    BY ZenonT(30), <2>1 DEF Posted, Chip, Ops
  <2>4. Count(g, j) = f.sector - j.first.sector + 1
    BY <1>1, <1>2 DEF Count, Anchored, Sector
  <2>5. f.sector \in j.first.sector .. Spt + 1
    BY <1>1, GeometryAssumption
  <2>6. Over(g, j, im, d)
    BY <2>2, <2>4, <2>5 DEF Over, Anchored, n
  <2> QED BY <2>2, <2>3, <2>6 DEF Progress, g
<1>3. CASE f.op \in MultiOps
  <2> DEFINE next == fdc_find_sector(f, f.sector + 1)
             h == [f EXCEPT !.sector = f.sector + 1, !.offset = 0, !.cur = next]
  <2>1. f.sector + 1 \in Bytes /\ next \in Sector \cup {NoSector}
    BY <1>1, IndexLemma, FindLemma
  <2>2. g = IF next = NoSector
            THEN Posted([h EXCEPT !.op = "NONE"], st \cup {NOT_FOUND})
            ELSE [h EXCEPT !.delayed_drq = TRUE]
    BY <1>1, <1>3, IndexLemma DEF SectorDone
  <2>3. next # NoSector =>
          /\ next = On(j, f.sector + 1)
          /\ f.sector + 1 \in 1 .. Spt
    BY DEF fdc_find_sector, On, Anchored
  <2> HIDE DEF g, n, next
  <2>4. h \in Chip
    BY <2>1 DEF Chip
  <2>5. /\ h.timing = f.timing /\ h.sector = f.sector + 1 /\ h.data = f.data
        /\ h.c_track = f.c_track /\ h.side = f.side /\ h.disk = f.disk
        /\ h.modified = f.modified /\ h.op = f.op /\ h.cur = next
    BY DEF Chip
  <2>6. /\ h.offset = 0 /\ h.stream = f.stream
        /\ h.status = f.status /\ h.stream_crc = f.stream_crc
    BY DEF Chip
  <2> HIDE DEF h
  <2>7. n = SectorLen * (f.sector + 1 - j.first.sector)
    <3>1. f.sector - j.first.sector + 1 = f.sector + 1 - j.first.sector
      BY <1>1
    <3> QED BY <3>1 DEF n
  <2>8. CASE next = NoSector
    <3>1. g = Posted([h EXCEPT !.op = "NONE"], st \cup {NOT_FOUND})
      BY <2>2, <2>8
    <3>2. st \cup {NOT_FOUND} \in SUBSET (StatusBits \ {BUSY})
      BY DEF StatusBits, BUSY, NOT_FOUND
    <3>3. g \in Chip
      BY ZenonT(30), <2>4, <3>1, <3>2 DEF Posted, Chip, Ops
    <3>4. /\ g.op = "NONE" /\ g.sector = f.sector + 1
          /\ g.di_status = st \cup {NOT_FOUND}
          /\ g.data = f.data /\ g.modified = f.modified
      BY <2>4, <2>5, <3>1 DEF Posted, Chip
    <3>5. Count(g, j) = f.sector + 1 - j.first.sector
      <4>1. j.op \in MultiOps
        BY <1>3 DEF Anchored
      <4> QED BY <1>1, <3>4, <4>1 DEF Count
    <3>6. f.sector + 1 \in j.first.sector .. Spt + 1
      BY <1>1, GeometryAssumption
    <3>7. LOST_DATA \notin g.di_status => LOST_DATA \notin st
      BY <3>4
    <3>8. Over(g, j, im, d)
      BY <2>7, <3>4, <3>5, <3>6, <3>7 DEF Over, Anchored, n
    <3> QED BY <3>3, <3>4, <3>8 DEF Progress, g
  <2>9. CASE next # NoSector
    <3>1. g = [h EXCEPT !.delayed_drq = TRUE]
      BY <2>2, <2>9
    <3>2. g \in Chip
      BY ZenonT(30), <2>4, <3>1 DEF Chip
    <3>3. /\ g.timing = f.timing /\ g.sector = f.sector + 1 /\ g.data = f.data
          /\ g.c_track = f.c_track /\ g.side = f.side /\ g.disk = f.disk
          /\ g.modified = f.modified /\ g.op = f.op /\ g.cur = next
      BY <2>4, <2>5, <3>1 DEF Chip
    <3>4. /\ g.offset = 0 /\ ~g.stream /\ g.status = f.status
      BY <2>4, <2>6, <3>1 DEF Chip
    <3>5. f.sector + 1 \in j.first.sector .. Spt
      BY <1>1, <2>3, <2>9, GeometryAssumption
    <3>6. Anchored(g, j)
      BY <1>3, <2>3, <2>9, <3>3, <3>5 DEF Anchored
    <3>7. Paced(g)
      BY <3>4, GeometryAssumption DEF Paced
    <3>8. Passed(g, j) = n
      <4> DEFINE p == f.sector + 1 - j.first.sector
      <4>1. p \in Int
        BY <1>1
      <4>2. g.sector - j.first.sector = p
        BY <1>1, <3>3
      <4> HIDE DEF p
      <4>3. SectorLen * p \in Int
        BY <4>1, GeometryAssumption
      <4>4. Passed(g, j) = SectorLen * p + 0
        BY <3>4, <4>2 DEF Passed
      <4> QED BY <2>7, <4>3, <4>4 DEF p
    <3>9. Clean(g) => Clean(f)
      BY <3>3, <3>4 DEF Clean
    <3>10. Clean(g) => Whole(j, im, n) /\ (j.op \in WriteOps => d)
      BY <3>9 DEF n
    <3>11. Clean(g) => Reading(g, j, im)
      BY <3>4, <3>8, <3>10 DEF Reading, Behind
    <3>12. Clean(g) /\ g.op \in WriteOps => Writing(g, j, im, d)
      BY <3>4, <3>6, <3>8, <3>10 DEF Writing, Ahead, Whole, Anchored
    <3>13. Transfers(g, j, im, d)
      BY <3>6, <3>7, <3>11, <3>12 DEF Transfers
    <3> QED BY <3>2, <3>3, <3>13 DEF Progress, g
  <2> QED BY <2>8, <2>9
<1> QED BY <1>2, <1>3

\* A byte that the program paced: g is the chip after the access, l the job.
LEMMA PacedLemma ==
  ASSUME NEW g \in Chip, NEW l \in Jobs, NEW im, NEW d \in BOOLEAN,
         Anchored(g, l), g.timing = "FAST", ~g.stream, DRQ \notin g.status,
         g.offset \in 1 .. SectorLen,
         Whole(l, im, Passed(g, l)), l.op \in WriteOps => d
  PROVE  /\ Progress(NextByte(g), l, im, d)
         /\ NextByte(g).data = g.data /\ NextByte(g).modified = g.modified
         /\ NextByte(g) \in Chip
<1>1. CASE g.offset >= SectorLen
  <2>1. g.offset = SectorLen
    BY <1>1, GeometryAssumption
  <2>2. NextByte(g) = SectorDone(g, {})
    BY <1>1 DEF NextByte
  <2>3. g.sector - l.first.sector \in Int
    BY AnchorLemma
  <2>4. Passed(g, l) = SectorLen * (g.sector - l.first.sector + 1)
    BY <2>1, <2>3, NextLemma DEF Passed
  <2>5. {} \in SUBSET (StatusBits \ {BUSY}) /\ LOST_DATA \notin {}
    OBVIOUS
  <2> QED BY <2>2, <2>4, <2>5, SectorLemma
<1>2. CASE ~(g.offset >= SectorLen)
  <2> DEFINE k == NextByte(g)
  <2>1. k = [g EXCEPT !.delayed_drq = TRUE]
    BY <1>2 DEF NextByte
  <2> HIDE DEF k
  <2>2. k \in Chip
    BY <2>1 DEF Chip
  <2>3. /\ k.timing = g.timing /\ k.sector = g.sector /\ k.data = g.data
        /\ k.c_track = g.c_track /\ k.side = g.side /\ k.disk = g.disk
        /\ k.modified = g.modified /\ k.op = g.op /\ k.cur = g.cur
    BY <2>1 DEF Chip
  <2>4. /\ k.offset = g.offset /\ k.stream = g.stream /\ k.status = g.status
        /\ k.stream_crc = g.stream_crc
    BY <2>1 DEF Chip
  <2>5. g.offset < SectorLen
    BY <1>2, GeometryAssumption
  <2>6. Anchored(k, l) /\ Paced(k)
    BY <2>3, <2>4, <2>5 DEF Anchored, Paced
  <2>7. Passed(k, l) = Passed(g, l)
    BY <2>3, <2>4 DEF Passed
  <2>8. Reading(k, l, im)
    BY <2>4, <2>7 DEF Reading, Behind
  <2>9. k.op \in WriteOps => Writing(k, l, im, d)
    BY <2>4, <2>6, <2>7 DEF Writing, Ahead, Whole, Anchored
  <2> QED BY <2>2, <2>3, <2>6, <2>8, <2>9 DEF Progress, Transfers, k
<1> QED BY <1>1, <1>2

\* The program reads a byte.
LEMMA JobReadLemma ==
  ASSUME NEW f \in Chip, NEW j \in Jobs, NEW im \in Images, NEW d \in BOOLEAN,
         Transfers(f, j, im, d), f.op \in ReadOps, DRQ \in f.status
  PROVE  LET g == fdc_read_data(f, im)
         IN g.data \in Bytes
              /\ Progress(g, [j EXCEPT !.bytes = Append(@, g.data)], im, d)
<1> DEFINE k == f.sector - j.first.sector
           g == fdc_read_data(f, im)
           a == DrqOff(f)
<1>1. /\ k \in 0 .. Spt - j.first.sector /\ f.cur # NoSector
      /\ \A o \in Offsets : ByteAt(im, f.cur, o) = Cells(j, im, k, o)
  BY AnchorLemma DEF Transfers
<1>2. /\ g = IF f.stream THEN a
             ELSE NextByte([a EXCEPT !.data = ByteAt(im, f.cur, f.offset),
                                     !.offset = a.offset + 1])
  BY <1>1 DEF fdc_read_data, read_sector_byte, ReadOps
<1>3. Still(f, a) /\ a.status = f.status \ {DRQ} /\ a \in Chip
  BY OffLemma
<1>4. /\ f.timing \in {"FAST", "REAL"} /\ f.offset \in Nat
      /\ f.stream \in BOOLEAN /\ f.data \in Bytes
      /\ f.cur \in Sector \cup {NoSector}
  BY DEF Chip
<1>5. /\ j.first \in Sector /\ SectorLen * k \in Nat
      /\ j.op \in ReadOps /\ Anchored(f, j) /\ Paced(f)
      /\ Passed(f, j) = SectorLen * k + f.offset
  BY <1>1, GeometryAssumption DEF Transfers, Anchored, Passed
<1> HIDE DEF a, g, k
<1>6. CASE f.stream
  <2> DEFINE l == [j EXCEPT !.bytes = Append(@, f.data)]
  <2>1. l \in Jobs /\ l.first = j.first /\ l.op = j.op
    BY <1>4, AppendedLemma
  <2>2. g = a /\ g.data = f.data
    BY <1>2, <1>3, <1>6 DEF Still
  <2>3. f.timing = "REAL" /\ f.offset - 1 \in Offsets /\ f.offset \in 1 .. SectorLen
    BY <1>4, <1>5, <1>6, GeometryAssumption DEF Paced, Offsets
  <2>4. Clean(f) => Whole(l, im, SectorLen * k + f.offset)
    <3> SUFFICES ASSUME Clean(f) PROVE Whole(l, im, SectorLen * k + f.offset)
      OBVIOUS
    <3>1. /\ Whole(j, im, Passed(f, j) - 1)
          /\ f.data = ByteAt(im, f.cur, f.offset - 1)
      BY <1>6 DEF Transfers, Reading, Behind
    <3>2. Passed(f, j) - 1 = SectorLen * k + (f.offset - 1)
      BY <1>4, <1>5
    <3>3. Whole(l, im, SectorLen * k + (f.offset - 1) + 1)
      BY <1>1, <1>4, <1>5, <2>3, <3>1, <3>2, ReadOneLemma
    <3>4. SectorLen * k + (f.offset - 1) + 1 = SectorLen * k + f.offset
      BY <1>4, <1>5
    <3> QED BY <3>3, <3>4
  <2> HIDE DEF l
  <2>5. Anchored(a, l)
    BY <1>3, <1>5, <2>1 DEF Still, Anchored, On
  <2>6. Paced(a)
    BY <1>3, <1>5, <2>3 DEF Still, Paced
  <2>7. Passed(a, l) = SectorLen * k + f.offset
    BY <1>3, <1>5, <2>1 DEF Still, Passed
  <2>8. Clean(a) => Clean(f)
    BY <1>3 DEF Clean, Still, DRQ, LOST_DATA
  <2>9. Clean(a) => Reading(a, l, im)
    BY <1>3, <2>4, <2>7, <2>8 DEF Reading, Behind
  <2>10. a.op \notin WriteOps
    BY <1>3 DEF Still, ReadOps, WriteOps
  <2>11. Transfers(a, l, im, d)
    BY <2>5, <2>6, <2>9, <2>10 DEF Transfers
  <2> QED BY <1>4, <2>2, <2>11 DEF Progress, g, l
<1>7. CASE ~f.stream
  <2> DEFINE v == ByteAt(im, f.cur, f.offset)
             l == [j EXCEPT !.bytes = Append(@, v)]
             o == a.offset + 1
             h == [a EXCEPT !.data = v, !.offset = o]
  <2>1. f.timing = "FAST" /\ f.offset < SectorLen /\ f.offset \in Offsets
    BY <1>4, <1>5, <1>7, GeometryAssumption DEF Paced, Offsets
  <2>2. v \in Bytes /\ v = Cells(j, im, k, f.offset)
    BY <1>1, <1>4, <2>1, ByteLemma
  <2>3. l \in Jobs /\ l.first = j.first /\ l.op = j.op
    BY <2>2, AppendedLemma
  <2>4. Whole(j, im, SectorLen * k + f.offset)
    BY <1>5, <1>7, <2>1 DEF Transfers, Clean, Reading, Behind
  <2>5. Whole(l, im, SectorLen * k + f.offset + 1)
    BY <1>1, <1>5, <2>1, <2>2, <2>4, ReadOneLemma
  <2>6. o = f.offset + 1 /\ o \in Nat /\ o \in 1 .. SectorLen
    BY <1>3, <1>4, <2>1, GeometryAssumption DEF Still
  <2> HIDE DEF v, l, o
  <2>7. h \in Chip
    BY ZenonT(30), <1>3, <2>2, <2>6 DEF Chip
  <2>8. /\ h.timing = f.timing /\ h.sector = f.sector /\ h.data = v
        /\ h.c_track = f.c_track /\ h.side = f.side /\ h.disk = f.disk
        /\ h.op = f.op /\ h.cur = f.cur
    BY <1>3 DEF Still, Chip
  <2>9. h.offset = o /\ ~h.stream /\ DRQ \notin h.status
    BY <1>3, <1>7 DEF Still, Chip
  <2>10. g = NextByte(h)
    BY <1>2, <1>7 DEF v, o
  <2> HIDE DEF h
  <2>11. Anchored(h, l)
    BY <1>5, <2>3, <2>8 DEF Anchored, On
  <2>12. Passed(h, l) = SectorLen * k + f.offset + 1
    <3>1. Passed(h, l) = SectorLen * k + (f.offset + 1)
      BY <2>3, <2>6, <2>8, <2>9 DEF Passed, k
    <3> QED BY <1>4, <1>5, <3>1
  <2>13. l.op \notin WriteOps
    BY <1>5, <2>3 DEF ReadOps, WriteOps
  <2>14. Progress(g, l, im, d) /\ g.data = v
    BY <2>1, <2>3, <2>5, <2>6, <2>7, <2>8, <2>9, <2>10, <2>11, <2>12, <2>13,
       PacedLemma
  <2> QED BY <2>2, <2>14 DEF g, l
<1> QED BY <1>6, <1>7

\* After every write the board takes the chip's flag.
LEMMA TakenLemma ==
  ASSUME NEW f \in Chip, NEW j, NEW im, NEW d \in BOOLEAN,
         Progress(f, j, im, d \/ f.modified)
  PROVE  Progress([f EXCEPT !.modified = FALSE], j, im, d \/ f.modified)
<1> DEFINE g == [f EXCEPT !.modified = FALSE]
           e == d \/ f.modified
<1>1. /\ g.timing = f.timing /\ g.sector = f.sector /\ g.data = f.data
      /\ g.c_track = f.c_track /\ g.side = f.side /\ g.disk = f.disk
      /\ g.op = f.op /\ g.cur = f.cur /\ g.offset = f.offset
  BY DEF Chip
<1>2. /\ g.delayed_drq = f.delayed_drq /\ g.di_status = f.di_status
      /\ g.stream = f.stream /\ g.stream_crc = f.stream_crc
      /\ g.status = f.status
  BY DEF Chip
<1>3. f.modified => e
  OBVIOUS
<1> HIDE DEF g, e
<1>4. Transfers(f, j, im, e) => Transfers(g, j, im, e)
  <2>1. Anchored(f, j) => Anchored(g, j)
    BY <1>1 DEF Anchored
  <2>2. Paced(f) => Paced(g)
    BY <1>1, <1>2 DEF Paced
  <2>3. Clean(g) => Clean(f)
    BY <1>1, <1>2 DEF Clean
  <2>4. Reading(f, j, im) => Reading(g, j, im)
    BY <1>1, <1>2 DEF Reading, Behind, Passed
  <2>5. Writing(f, j, im, e) => Writing(g, j, im, e)
    BY <1>1, <1>2, <1>3 DEF Writing, Ahead, Passed
  <2> QED BY <1>1, <2>1, <2>2, <2>3, <2>4, <2>5 DEF Transfers
<1>5. Over(f, j, im, e) => Over(g, j, im, e)
  BY <1>1, <1>2 DEF Over, Count
<1> QED BY <1>4, <1>5 DEF Progress, g, e

\* The program writes a byte.
LEMMA JobWriteLemma ==
  ASSUME NEW f \in Chip, NEW j \in Jobs, NEW im \in Images, NEW d \in BOOLEAN,
         Transfers(f, j, im, d), f.op \in WriteOps, DRQ \in f.status,
         NEW v \in Bytes
  PROVE  LET g == fdc_write_data(f, v)
             new == IF DataStores(f) THEN Stored(im, f.cur, f.offset, v) ELSE im
         IN g \in Chip
              /\ Progress(g, [j EXCEPT !.bytes = Append(@, v)], new,
                          d \/ g.modified)
<1> DEFINE k == f.sector - j.first.sector
           b == [f EXCEPT !.data = v]
           a == DrqOff(b)
           g == fdc_write_data(f, v)
           l == [j EXCEPT !.bytes = Append(@, v)]
           new == IF DataStores(f) THEN Stored(im, f.cur, f.offset, v) ELSE im
<1>1. /\ k \in 0 .. Spt - j.first.sector /\ f.cur # NoSector
      /\ j.first.sector + k = f.sector
  BY AnchorLemma DEF Transfers
<1>2. b \in Chip
  BY DEF Chip
<1>3. /\ b.timing = f.timing /\ b.sector = f.sector /\ b.data = v
      /\ b.c_track = f.c_track /\ b.side = f.side /\ b.disk = f.disk
      /\ b.op = f.op /\ b.cur = f.cur /\ b.offset = f.offset
  BY DEF Chip
<1>4. /\ b.stream = f.stream /\ b.stream_crc = f.stream_crc
      /\ b.status = f.status /\ b.delayed_drq = f.delayed_drq
      /\ b.modified = f.modified
  BY DEF Chip
<1>5. g = IF f.stream THEN a
          ELSE NextByte([a EXCEPT !.offset = a.offset + 1, !.modified = TRUE])
  BY <1>1, <1>3, <1>4 DEF fdc_write_data, write_sector_byte, WriteOps
<1> HIDE DEF b, g
<1>6. Still(b, a) /\ a.status = f.status \ {DRQ} /\ a \in Chip
  BY <1>2, <1>4, OffLemma
<1> HIDE DEF a
<1>7. /\ f.timing \in {"FAST", "REAL"} /\ f.offset \in Nat
      /\ f.stream \in BOOLEAN /\ f.modified \in BOOLEAN
  BY DEF Chip
<1>8. /\ j.first \in Sector /\ SectorLen * k \in Nat
      /\ j.op \in WriteOps /\ Anchored(f, j) /\ Paced(f)
      /\ Passed(f, j) = SectorLen * k + f.offset
      /\ f.cur = On(j, j.first.sector + k)
  BY <1>1, GeometryAssumption DEF Transfers, Anchored, Passed
<1>9. /\ l \in Jobs /\ l.first = j.first /\ l.op = j.op
      /\ Len(l.bytes) = Len(j.bytes) + 1 /\ Len(j.bytes) \in Nat
      /\ l.bytes[Len(j.bytes) + 1] = v
  BY AppendedLemma
<1>10. Clean(f) /\ ~Ahead(f) =>
         /\ InPlace(j, im, Passed(f, j)) /\ Len(j.bytes) = Passed(f, j)
         /\ Passed(f, j) > 0 => f.modified \/ d
  BY DEF Transfers, Writing
<1>11. ~Ahead(f)
  BY DEF Ahead
<1>12. Clean(f) => InPlace(l, im, SectorLen * k + f.offset)
  <2>1. SectorLen * k + f.offset \in Nat
    BY <1>7, <1>8
  <2> QED BY <1>8, <1>9, <1>10, <1>11, <2>1, MoreLemma
<1> HIDE DEF k, l
<1>13. CASE f.stream
  <2>1. g = a /\ new = im
    BY <1>5, <1>13 DEF DataStores, WriteOps
  <2>2. f.timing = "REAL" /\ ~f.stream_crc /\ f.offset \in 0 .. SectorLen
    BY <1>7, <1>8, <1>13 DEF Paced
  <2> HIDE DEF new
  <2>3. Anchored(a, l)
    BY <1>3, <1>6, <1>8, <1>9 DEF Still, Anchored, On
  <2>4. Paced(a)
    <3>1. a.stream => ~a.delayed_drq /\ a.offset \in 0 .. SectorLen
      BY <1>3, <1>4, <1>6, <1>8 DEF Still, Paced
    <3>2. a.op \in WriteOps /\ (a.stream_crc <=> a.offset = SectorLen)
      BY <1>3, <1>4, <1>6, <1>8, <1>13 DEF Still, Paced
    <3>3. a.op \notin ReadOps
      BY <3>2 DEF ReadOps, WriteOps
    <3>4. a.timing = "REAL" /\ a.stream /\ DRQ \notin a.status
      BY <1>3, <1>4, <1>6, <1>13, <2>2 DEF Still
    <3> QED BY <3>1, <3>2, <3>3, <3>4 DEF Paced
  <2>5. Passed(a, l) = SectorLen * k + f.offset
    BY <1>3, <1>6, <1>8, <1>9 DEF Still, Passed
  <2>6. Clean(a) => Clean(f)
    BY <1>3, <1>6 DEF Clean, Still, DRQ, LOST_DATA
  <2>7. Ahead(a) /\ a.data = v /\ a.modified = f.modified
    BY <1>3, <1>4, <1>6, <1>13, <2>2 DEF Ahead, Still
  <2>8. Clean(a) => Writing(a, l, im, d \/ f.modified)
    <3> SUFFICES ASSUME Clean(a) PROVE Writing(a, l, im, d \/ f.modified)
      OBVIOUS
    <3>1. Len(j.bytes) = SectorLen * k + f.offset
      BY <1>8, <1>10, <1>11, <2>6
    <3>2. Len(l.bytes) >= 2 => d \/ f.modified
      BY <1>8, <1>9, <1>10, <1>11, <2>6, <3>1
    <3>3. Passed(a, l) > 0 => d \/ f.modified
      BY <1>8, <1>10, <1>11, <2>5, <2>6
    <3>4. InPlace(l, im, Passed(a, l))
      BY <1>12, <2>5, <2>6
    <3>5. Len(l.bytes) = Passed(a, l) + 1 /\ a.data = l.bytes[Len(l.bytes)]
      BY <1>9, <2>5, <2>7, <3>1
    <3> QED BY <2>7, <3>2, <3>3, <3>4, <3>5 DEF Writing
  <2>9. a.op \notin ReadOps
    BY <1>3, <1>6 DEF Still, ReadOps, WriteOps
  <2>10. Transfers(a, l, im, d \/ a.modified)
    BY <2>3, <2>4, <2>7, <2>8, <2>9 DEF Transfers
  <2> QED BY <1>6, <2>1, <2>10 DEF Progress, g, l, new
<1>14. CASE ~f.stream
  <2> DEFINE o == a.offset + 1
             h == [a EXCEPT !.offset = o, !.modified = TRUE]
  <2>1. f.timing = "FAST" /\ f.offset < SectorLen /\ f.offset \in Offsets
    BY <1>7, <1>8, <1>14, GeometryAssumption DEF Paced, Offsets
  <2>2. new = Stored(im, f.cur, f.offset, v)
    BY <1>1, <1>14 DEF DataStores
  <2>3. Clean(f) /\ Len(j.bytes) = SectorLen * k + f.offset
    BY <1>8, <1>10, <1>11, <2>1 DEF Clean
  <2> HIDE DEF new
  <2>4. InPlace(l, new, SectorLen * k + f.offset + 1)
    <3>1. l.bytes[SectorLen * k + f.offset + 1] = v
      BY <1>9, <2>3
    <3>2. InPlace(l, im, SectorLen * k + f.offset)
      BY <1>12, <2>3
    <3>3. /\ f.cur = On(l, l.first.sector + k) /\ l.first \in Sector
          /\ k \in 0 .. Spt - l.first.sector
      BY <1>1, <1>8, <1>9 DEF On
    <3> QED BY <1>9, <2>1, <2>2, <3>1, <3>2, <3>3, StoreOneLemma
  <2>5. o = f.offset + 1 /\ o \in Nat /\ o \in 1 .. SectorLen
    BY <1>3, <1>6, <1>7, <2>1, GeometryAssumption DEF Still
  <2> HIDE DEF o
  <2>6. h \in Chip
    BY ZenonT(30), <1>6, <2>5 DEF Chip
  <2>7. /\ h.timing = f.timing /\ h.sector = f.sector
        /\ h.c_track = f.c_track /\ h.side = f.side /\ h.disk = f.disk
        /\ h.op = f.op /\ h.cur = f.cur
    BY <1>3, <1>6 DEF Still, Chip
  <2>8. /\ h.offset = o /\ ~h.stream /\ DRQ \notin h.status /\ h.modified = TRUE
    BY <1>4, <1>6, <1>14 DEF Still, Chip
  <2>9. g = NextByte(h)
    BY <1>5, <1>14 DEF o
  <2> HIDE DEF h
  <2>10. Anchored(h, l)
    BY <1>8, <1>9, <2>7 DEF Anchored, On
  <2>11. Passed(h, l) = SectorLen * k + f.offset + 1
    <3>1. Passed(h, l) = SectorLen * k + (f.offset + 1)
      BY <1>9, <2>5, <2>7, <2>8 DEF Passed, k
    <3> QED BY <1>7, <1>8, <3>1
  <2>12. Whole(l, new, Passed(h, l))
    BY <1>9, <2>3, <2>4, <2>11 DEF Whole
  <2>13. Progress(g, l, new, TRUE) /\ g.modified = h.modified /\ g \in Chip
    BY <1>9, <2>1, <2>5, <2>6, <2>7, <2>8, <2>9, <2>10, <2>12, PacedLemma
  <2> QED BY <2>8, <2>13 DEF g, l, new
<1> QED BY <1>7, <1>13, <1>14

\* A sector comes under the head, or the next byte of a paced transfer.
LEMMA JobDrqLemma ==
  ASSUME NEW f \in Chip, NEW j \in Jobs, NEW im \in Images, NEW d \in BOOLEAN,
         Progress(f, j, im, d), f.delayed_drq
  PROVE  Progress(fdc_drq_expires(f, im), j, im, d)
<1> DEFINE h == [f EXCEPT !.delayed_drq = FALSE]
           g == fdc_drq_expires(f, im)
<1>1. h \in Chip
  BY DEF Chip
<1>2. /\ h.timing = f.timing /\ h.sector = f.sector /\ h.data = f.data
      /\ h.c_track = f.c_track /\ h.side = f.side /\ h.disk = f.disk
      /\ h.op = f.op /\ h.cur = f.cur /\ h.offset = f.offset
  BY DEF Chip
<1>3. /\ h.di_status = f.di_status /\ h.stream = f.stream
      /\ h.stream_crc = f.stream_crc /\ h.modified = f.modified
      /\ h.status = f.status /\ ~h.delayed_drq
  BY DEF Chip
<1>4. g = IF fdc_streamed(f) /\ f.cur # NoSector
          THEN fdc_stream_start(h, im) ELSE DrqOn(h)
  BY DEF fdc_drq_expires
<1> HIDE DEF h, g
<1>5. Still(h, DrqOn(h)) /\ DrqOn(h).status = f.status \cup {DRQ}
  BY <1>1, <1>3, OnLemma
<1>6. CASE Over(f, j, im, d)
  <2>1. g = DrqOn(h)
    BY <1>4, <1>6
    DEF Over, fdc_streamed, SectorOps, ReadOps, WriteOps
  <2>2. g.op = f.op /\ g.sector = f.sector /\ g.di_status = f.di_status
    BY <1>2, <1>3, <1>5, <2>1 DEF Still
  <2> QED BY <1>6, <2>2 DEF Over, Count, Progress, g
<1>7. CASE Transfers(f, j, im, d) /\ f.timing = "FAST"
  <2>1. g = DrqOn(h)
    BY <1>4, <1>7 DEF fdc_streamed
  <2>2. Anchored(g, j)
    BY <1>2, <1>5, <1>7, <2>1 DEF Still, Transfers, Anchored
  <2>3. Paced(g) /\ ~g.stream /\ ~f.stream
    BY <1>2, <1>3, <1>5, <1>7, <2>1 DEF Still, Transfers, Paced
  <2>4. Passed(g, j) = Passed(f, j) /\ g.op = f.op /\ g.modified = f.modified
    BY <1>2, <1>3, <1>5, <2>1 DEF Still, Passed
  <2>5. f.op \in ReadOps => Reading(g, j, im)
    BY <1>7, <2>3, <2>4 DEF Transfers, Clean, Reading, Behind
  <2>6. f.op \in WriteOps => Writing(g, j, im, d)
    BY <1>7, <2>3, <2>4 DEF Transfers, Clean, Writing, Ahead
  <2> QED BY <2>2, <2>3, <2>4, <2>5, <2>6 DEF Progress, Transfers, g
<1>8. CASE Transfers(f, j, im, d) /\ f.timing = "REAL"
  <2>1. /\ f.op \in SectorOps /\ f.cur # NoSector /\ Anchored(f, j)
        /\ ~f.stream /\ f.offset = 0 /\ DRQ \notin f.status
    BY <1>8, AnchorLemma DEF Transfers, Anchored, Paced
  <2>2. g = fdc_stream_start(h, im)
    BY <1>4, <1>8, <2>1 DEF fdc_streamed
  <2>3. f.sector - j.first.sector \in Int
    BY <2>1, AnchorLemma
  <2>4. Passed(f, j) = SectorLen * (f.sector - j.first.sector)
        /\ Passed(f, j) \in Int
    <3> DEFINE p == f.sector - j.first.sector
    <3>1. Passed(f, j) = SectorLen * p + 0
      BY <2>1 DEF Passed
    <3> HIDE DEF p
    <3> QED BY <2>3, <3>1, GeometryAssumption DEF p
  <2>5. CASE f.op \in WriteOps
    <3> DEFINE a == [h EXCEPT !.stream = TRUE, !.stream_crc = FALSE,
                              !.offset = 0]
    <3>1. g = DrqOn(a)
      BY <1>2, <2>2, <2>5 DEF fdc_stream_start
    <3>2. a \in Chip
      BY ZenonT(30), <1>1 DEF Chip
    <3>3. /\ a.timing = f.timing /\ a.sector = f.sector
          /\ a.c_track = f.c_track /\ a.side = f.side /\ a.disk = f.disk
          /\ a.op = f.op /\ a.cur = f.cur /\ a.modified = f.modified
      BY <1>1, <1>2, <1>3 DEF Chip
    <3>4. /\ a.offset = 0 /\ a.stream /\ ~a.stream_crc
          /\ a.status = f.status /\ ~a.delayed_drq
      BY <1>1, <1>3 DEF Chip
    <3> HIDE DEF a
    <3>5. Still(a, g) /\ g.status = f.status \cup {DRQ}
      BY <3>1, <3>2, <3>4, OnLemma
    <3>6. Anchored(g, j)
      BY <2>1, <3>3, <3>5 DEF Still, Anchored
    <3>7. g.op \notin ReadOps
      BY <2>5, <3>3, <3>5 DEF Still, ReadOps, WriteOps
    <3>8. Paced(g)
      <4>1. /\ g.stream /\ g.offset = 0 /\ ~g.stream_crc /\ ~g.delayed_drq
            /\ g.timing = "REAL"
        BY <1>8, <3>3, <3>4, <3>5 DEF Still
      <4> QED BY <3>7, <4>1, GeometryAssumption DEF Paced
    <3>9. Passed(g, j) = Passed(f, j) /\ g.modified = f.modified
      BY <2>1, <3>3, <3>4, <3>5 DEF Still, Passed
    <3>10. Clean(g) => Clean(f)
      BY <3>3, <3>5 DEF Still, Clean
    <3>11. Clean(g) => Writing(g, j, im, d)
      BY <1>8, <2>1, <2>5, <3>5, <3>9, <3>10 DEF Transfers, Writing, Ahead
    <3> QED BY <3>6, <3>7, <3>8, <3>11 DEF Transfers, Progress, g
  <2>6. CASE f.op \in ReadOps
    <3> DEFINE v == ByteAt(im, h.cur, 0)
               b == [h EXCEPT !.stream = TRUE, !.stream_crc = FALSE,
                              !.offset = 0]
               a == [b EXCEPT !.data = v, !.offset = 1]
    <3>1. g = DrqOn(a)
      BY <1>2, <2>2, <2>6 DEF fdc_stream_start, ReadOps, WriteOps
    <3>2. v \in Bytes /\ v = ByteAt(im, f.cur, 0)
      <4>1. f.cur \in Sector
        BY <2>1 DEF Chip
      <4> QED BY <1>2, <4>1, ByteLemma, GeometryAssumption
    <3> HIDE DEF v
    <3>3. b \in Chip
      BY ZenonT(30), <1>1 DEF Chip
    <3>4. /\ b.timing = f.timing /\ b.sector = f.sector
          /\ b.c_track = f.c_track /\ b.side = f.side /\ b.disk = f.disk
          /\ b.op = f.op /\ b.cur = f.cur
      BY <1>1, <1>2, <1>3 DEF Chip
    <3>5. /\ b.stream /\ ~b.stream_crc
          /\ b.status = f.status /\ ~b.delayed_drq
      BY <1>1, <1>3 DEF Chip
    <3> HIDE DEF b
    <3>6. a \in Chip
      BY ZenonT(30), <3>2, <3>3 DEF Chip
    <3>7. /\ a.timing = f.timing /\ a.sector = f.sector
          /\ a.c_track = f.c_track /\ a.side = f.side /\ a.disk = f.disk
          /\ a.op = f.op /\ a.cur = f.cur /\ a.data = v
      BY <3>3, <3>4 DEF Chip
    <3>8. /\ a.offset = 1 /\ a.stream /\ ~a.stream_crc
          /\ a.status = f.status /\ ~a.delayed_drq
      BY <3>3, <3>5 DEF Chip
    <3> HIDE DEF a
    <3>9. Still(a, g) /\ g.status = f.status \cup {DRQ}
      BY <3>1, <3>6, <3>8, OnLemma
    <3>10. Anchored(g, j)
      BY <2>1, <3>7, <3>9 DEF Still, Anchored
    <3>11. g.op \notin WriteOps
      BY <2>6, <3>7, <3>9 DEF Still, ReadOps, WriteOps
    <3>12. /\ g.stream /\ g.offset = 1 /\ ~g.stream_crc /\ ~g.delayed_drq
           /\ g.timing = "REAL" /\ g.data = v /\ g.cur = f.cur
      BY <1>8, <3>7, <3>8, <3>9 DEF Still
    <3>13. Paced(g)
      BY <3>11, <3>12, GeometryAssumption DEF Paced
    <3>14. Passed(g, j) - 1 = Passed(f, j)
      <4>1. Passed(g, j) = SectorLen * (f.sector - j.first.sector) + 1
        BY <3>7, <3>9, <3>12 DEF Still, Passed
      <4> QED BY <2>4, <4>1
    <3>15. Clean(g) => Clean(f)
      BY <3>7, <3>9 DEF Still, Clean
    <3>16. Clean(g) => Whole(j, im, Passed(f, j))
      BY <1>8, <2>1, <2>6, <3>15 DEF Transfers, Reading, Behind
    <3>17. Clean(g) => Reading(g, j, im)
      BY <3>2, <3>9, <3>12, <3>14, <3>16 DEF Reading, Behind
    <3> QED BY <3>10, <3>11, <3>13, <3>17 DEF Transfers, Progress, g
  <2> QED BY <2>1, <2>5, <2>6 DEF SectorOps
<1> QED BY <1>6, <1>7, <1>8 DEF Progress, Chip, g

\* A byte that is still in the register when the next one comes is lost.
LEMMA JobLostLemma ==
  ASSUME NEW f \in Chip
  PROVE  LET g == fdc_stream_lost(f)
         IN /\ g \in Chip /\ Still(f, g)
            /\ g.status = IF DRQ \in f.status
                          THEN f.status \cup {LOST_DATA} ELSE f.status
<1> DEFINE g == fdc_stream_lost(f)
<1>1. CASE DRQ \in f.status
  <2>1. g = [f EXCEPT !.status = f.status \cup {LOST_DATA}]
    BY <1>1 DEF fdc_stream_lost
  <2> HIDE DEF g
  <2>2. g \in Chip
    BY <2>1 DEF Chip, StatusBits
  <2>3. Rest([f EXCEPT !.status = f.status \cup {LOST_DATA}], g)
    BY <2>1 DEF Rest
  <2>4. Still(f, g) /\ g.status = f.status \cup {LOST_DATA}
    BY <2>3, RestLemma
  <2> QED BY <1>1, <2>2, <2>4 DEF g
<1>2. CASE DRQ \notin f.status
  BY <1>2 DEF fdc_stream_lost, Still
<1> QED BY <1>1, <1>2

\* The CRC of the sector has passed.
LEMMA JobDoneLemma ==
  ASSUME NEW f \in Chip, NEW j \in Jobs, NEW im, NEW d \in BOOLEAN,
         Transfers(f, j, im, d), f.stream, f.stream_crc
  PROVE  Progress(fdc_stream_sector_done(fdc_stream_lost(f)), j, im, d)
<1> DEFINE b == fdc_stream_lost(f)
           c == [b EXCEPT !.stream = FALSE, !.stream_crc = FALSE]
           h == DrqOff(c)
           st == b.status \cap {LOST_DATA}
           g == fdc_stream_sector_done(b)
<1>1. /\ b \in Chip /\ Still(f, b)
      /\ b.status = IF DRQ \in f.status
                    THEN f.status \cup {LOST_DATA} ELSE f.status
  BY JobLostLemma
<1> HIDE DEF b
<1>2. c \in Chip
  BY ZenonT(30), <1>1 DEF Chip
<1>3. /\ c.timing = f.timing /\ c.sector = f.sector
      /\ c.c_track = f.c_track /\ c.side = f.side /\ c.disk = f.disk
      /\ c.op = f.op /\ c.cur = f.cur /\ ~c.stream /\ c.status = b.status
  BY <1>1 DEF Still, Chip
<1>4. g = SectorDone(h, st)
  BY DEF fdc_stream_sector_done
<1> HIDE DEF c, g
<1>5. h \in Chip /\ Still(c, h) /\ h.status = b.status \ {DRQ}
  BY <1>2, <1>3, OffLemma
<1> HIDE DEF h
<1>6. Anchored(f, j) /\ f.timing = "REAL" /\ f.offset = SectorLen
  <2>1. Anchored(f, j) /\ f.timing = "REAL"
    BY DEF Transfers, Paced, Chip
  <2>2. f.op \in ReadOps \/ f.op \in WriteOps
    BY <2>1 DEF Anchored, SectorOps
  <2>3. f.offset = SectorLen
    BY <2>2 DEF Transfers, Paced
  <2> QED BY <2>1, <2>3
<1>7. Anchored(h, j) /\ ~h.stream /\ DRQ \notin h.status
  BY <1>3, <1>5, <1>6 DEF Still, Anchored
<1>8. st \in SUBSET (StatusBits \ {BUSY})
  BY DEF StatusBits, LOST_DATA, BUSY
<1>9. Clean(h) => LOST_DATA \notin st
  BY <1>3, <1>5, <1>6 DEF Clean, Still, DRQ, LOST_DATA
<1>10. LOST_DATA \notin st => Clean(f) /\ DRQ \notin f.status
  BY <1>1 DEF Clean
<1>11. h.sector = f.sector
  BY <1>3, <1>5 DEF Still
<1>12. f.sector - j.first.sector \in Int
  BY <1>6, AnchorLemma
<1>13. Passed(f, j) = SectorLen * (f.sector - j.first.sector + 1)
  BY <1>6, <1>12, NextLemma DEF Passed
<1>14. ASSUME LOST_DATA \notin st
       PROVE  Whole(j, im, Passed(f, j)) /\ (j.op \in WriteOps => d)
  <2>1. CASE f.op \in ReadOps
    <3>1. Whole(j, im, Passed(f, j))
      BY <1>10, <1>14, <2>1 DEF Transfers, Reading, Behind
    <3> QED BY <1>6, <2>1, <3>1 DEF Anchored, ReadOps, WriteOps
  <2>2. CASE f.op \in WriteOps
    <3>1. Whole(j, im, Passed(f, j)) /\ (Len(j.bytes) >= 2 => d)
      BY <1>10, <1>14, <2>2 DEF Transfers, Writing, Ahead, Whole
    <3>2. f.sector - j.first.sector \in Nat
      BY <1>6, AnchorLemma
    <3>3. SectorLen * (f.sector - j.first.sector) \in Nat
      BY <3>2, GeometryAssumption
    <3>4. Passed(f, j) >= 2
      BY <1>6, <3>3, GeometryAssumption DEF Passed
    <3> QED BY <3>1, <3>4 DEF Whole
  <2> QED BY <1>6, <2>1, <2>2 DEF Anchored, SectorOps
<1> HIDE DEF st
<1>15. Progress(g, j, im, d)
  BY <1>4, <1>5, <1>7, <1>8, <1>9, <1>11, <1>13, <1>14, SectorLemma
<1> QED BY <1>15 DEF g, b

\* The platter gives a byte.
LEMMA JobStreamReadLemma ==
  ASSUME NEW f \in Chip, NEW j \in Jobs, NEW im \in Images, NEW d \in BOOLEAN,
         Transfers(f, j, im, d), f.stream, ~f.stream_crc, f.op \in ReadOps
  PROVE  Progress(stream_read_step(f, im), j, im, d)
<1> DEFINE g == stream_read_step(f, im)
<1>1. /\ Anchored(f, j) /\ f.timing = "REAL" /\ f.offset \in 1 .. SectorLen
      /\ ~f.delayed_drq
  <2>1. Anchored(f, j) /\ Paced(f)
    BY DEF Transfers
  <2> QED BY <2>1, GeometryAssumption DEF Paced, Chip
<1>2. f.op \notin WriteOps
  BY DEF ReadOps, WriteOps
<1>3. CASE f.offset < SectorLen
  <2> DEFINE b == fdc_stream_lost(f)
             v == ByteAt(im, f.cur, f.offset)
             o == b.offset + 1
             a == [b EXCEPT !.data = v, !.offset = o]
  <2>1. g = DrqOn(a)
    BY <1>3 DEF stream_read_step
  <2>2. /\ b \in Chip /\ Still(f, b)
        /\ b.status = IF DRQ \in f.status
                      THEN f.status \cup {LOST_DATA} ELSE f.status
    BY JobLostLemma
  <2> HIDE DEF b, g
  <2>3. v \in Bytes
    <3>1. f.cur \in Sector /\ f.offset \in Nat
      BY <1>1, AnchorLemma DEF Chip
    <3> QED BY <1>3, <3>1, ByteLemma
  <2>4. o = f.offset + 1 /\ o \in Nat /\ o \in 1 .. SectorLen
    BY <1>1, <1>3, <2>2, GeometryAssumption DEF Still
  <2> HIDE DEF v, o
  <2>5. a \in Chip
    BY ZenonT(30), <2>2, <2>3, <2>4 DEF Chip
  <2>6. /\ a.timing = f.timing /\ a.sector = f.sector /\ a.data = v
        /\ a.c_track = f.c_track /\ a.side = f.side /\ a.disk = f.disk
        /\ a.op = f.op /\ a.cur = f.cur /\ a.offset = o
    BY <2>2 DEF Still, Chip
  <2>7. /\ a.stream /\ ~a.stream_crc /\ ~a.delayed_drq
        /\ a.status = b.status
    BY <1>1, <2>2 DEF Still, Chip
  <2> HIDE DEF a
  <2>8. Still(a, g) /\ g.status = b.status \cup {DRQ}
    BY <2>1, <2>5, <2>7, OnLemma
  <2>9. Anchored(g, j) /\ g.op \notin WriteOps
    BY <1>1, <1>2, <2>6, <2>8 DEF Still, Anchored
  <2>10. /\ g.stream /\ g.offset = o /\ ~g.stream_crc /\ ~g.delayed_drq
         /\ g.timing = "REAL" /\ g.data = v /\ g.cur = f.cur
         /\ g.sector = f.sector
    BY <1>1, <2>6, <2>7, <2>8 DEF Still
  <2>11. Paced(g)
    BY <2>4, <2>9, <2>10, GeometryAssumption DEF Paced
  <2>12. Clean(g) => Clean(f) /\ DRQ \notin f.status
    BY <1>1, <2>2, <2>8, <2>10 DEF Clean
  <2>13. Clean(g) => Whole(j, im, Passed(f, j))
    BY <2>12 DEF Transfers, Reading, Behind
  <2>14. Passed(g, j) - 1 = Passed(f, j) /\ g.offset - 1 = f.offset
    <3> DEFINE p == SectorLen * (f.sector - j.first.sector)
    <3>1. p \in Int
      BY <1>1, AnchorLemma, GeometryAssumption
    <3>2. Passed(g, j) = p + o /\ Passed(f, j) = p + f.offset
      BY <2>10 DEF Passed
    <3> HIDE DEF p
    <3> QED BY <1>1, <2>4, <2>10, <3>1, <3>2
  <2>15. Clean(g) => Reading(g, j, im)
    BY <2>8, <2>10, <2>13, <2>14 DEF Reading, Behind, v
  <2> QED BY <2>9, <2>11, <2>15 DEF Transfers, Progress, g
<1>4. CASE ~(f.offset < SectorLen)
  <2>1. g = [f EXCEPT !.stream_crc = TRUE] /\ f.offset = SectorLen
    BY <1>1, <1>4, GeometryAssumption DEF stream_read_step
  <2> HIDE DEF g
  <2>2. /\ g.timing = f.timing /\ g.sector = f.sector /\ g.data = f.data
        /\ g.c_track = f.c_track /\ g.side = f.side /\ g.disk = f.disk
        /\ g.op = f.op /\ g.cur = f.cur /\ g.offset = f.offset
    BY <2>1 DEF Chip
  <2>3. /\ g.stream /\ g.stream_crc /\ ~g.delayed_drq /\ g.status = f.status
    BY <1>1, <2>1 DEF Chip
  <2>4. Anchored(g, j) /\ g.op \notin WriteOps
    BY <1>1, <1>2, <2>2 DEF Anchored
  <2>5. Paced(g)
    BY <1>1, <2>1, <2>2, <2>3, <2>4, GeometryAssumption DEF Paced
  <2>6. Clean(g) => Reading(g, j, im)
    BY <2>2, <2>3 DEF Transfers, Clean, Reading, Behind, Passed
  <2> QED BY <2>4, <2>5, <2>6 DEF Transfers, Progress, g
<1> QED BY <1>3, <1>4

\* The platter takes a byte.
LEMMA JobStreamWriteLemma ==
  ASSUME NEW f \in Chip, NEW j \in Jobs, NEW im \in Images, NEW d \in BOOLEAN,
         Transfers(f, j, im, d), f.stream, ~f.stream_crc, f.op \in WriteOps
  PROVE  LET new == IF StreamStores(f)
                    THEN Stored(im, f.cur, f.offset, StreamByte(f)) ELSE im
         IN Progress(stream_write_step(f), j, new, d)
<1> DEFINE g == stream_write_step(f)
           b == fdc_stream_lost(f)
           v == StreamByte(f)
           new == IF StreamStores(f) THEN Stored(im, f.cur, f.offset, v) ELSE im
           k == f.sector - j.first.sector
<1>1. /\ Anchored(f, j) /\ f.timing = "REAL" /\ f.offset \in Offsets
      /\ ~f.delayed_drq
  <2>1. Anchored(f, j) /\ Paced(f)
    BY DEF Transfers
  <2> QED BY <2>1, GeometryAssumption DEF Paced, Chip, Offsets
<1>2. /\ b \in Chip /\ Still(f, b)
      /\ b.status = IF DRQ \in f.status
                    THEN f.status \cup {LOST_DATA} ELSE f.status
  BY JobLostLemma
<1>3. f.op \notin ReadOps
  BY DEF ReadOps, WriteOps
<1>4. /\ k \in 0 .. Spt - j.first.sector /\ j.first.sector + k = f.sector
      /\ SectorLen * k \in Nat
  BY <1>1, AnchorLemma, GeometryAssumption
<1> HIDE DEF b
<1>5. CASE GapMissed(f)
  <2> DEFINE a == [b EXCEPT !.op = "WRITE_SECTOR", !.offset = SectorLen]
             c == [a EXCEPT !.stream = FALSE, !.stream_crc = FALSE]
             h == DrqOff(c)
             st == a.status \cap {LOST_DATA}
  <2>1. g = fdc_stream_sector_done(a)
    BY <1>5 DEF stream_write_step, b
  <2>2. g = SectorDone(h, st)
    BY <2>1 DEF fdc_stream_sector_done
  <2> HIDE DEF g
  <2>3. c \in Chip
    <3>1. "WRITE_SECTOR" \in Ops /\ SectorLen \in Nat
      BY GeometryAssumption DEF Ops, SectorOps, WriteOps
    <3>2. a \in Chip
      BY <1>2, <3>1 DEF Chip
    <3> HIDE DEF a
    <3>3. [a EXCEPT !.stream = FALSE] \in Chip
      BY ZenonT(30), <3>2 DEF Chip
    <3> DEFINE e == [a EXCEPT !.stream = FALSE]
    <3>4. c = [e EXCEPT !.stream_crc = FALSE]
      BY <3>2 DEF Chip
    <3> HIDE DEF e, c
    <3>5. [e EXCEPT !.stream_crc = FALSE] \in Chip
      <4>1. e \in Chip
        BY <3>3 DEF e
      <4> QED BY <4>1 DEF Chip
    <3> QED BY <3>4, <3>5
  <2>4. c.op = "WRITE_SECTOR" /\ c.sector = f.sector /\ a.status = b.status
    BY <1>2 DEF Still, Chip
  <2>5. LOST_DATA \in st
    BY <1>2, <1>5, <2>4 DEF GapMissed
  <2>6. st \in SUBSET (StatusBits \ {BUSY})
    BY DEF StatusBits, LOST_DATA, BUSY
  <2> HIDE DEF a, c, st
  <2>7. h \in Chip /\ Still(c, h)
    BY <2>3, OffLemma
  <2> HIDE DEF h
  <2>8. g = Posted([h EXCEPT !.op = "NONE"], st)
    BY <2>2, <2>4, <2>7 DEF SectorDone, Still, MultiOps
  <2>9. g.op = "NONE" /\ g.sector = f.sector /\ g.di_status = st
    BY <2>4, <2>7, <2>8 DEF Posted, Still, Chip
  <2>10. f.sector \in j.first.sector .. Spt + 1
    BY <1>1, GeometryAssumption DEF Anchored, Sector
  <2>11. Over(g, j, new, d)
    BY <1>1, <2>5, <2>9, <2>10 DEF Over, Anchored
  <2> QED BY <2>11 DEF Progress, g
<1>6. CASE ~GapMissed(f)
  <2> DEFINE o == b.offset + 1
             h == [b EXCEPT !.offset = o, !.modified = TRUE]
  <2>1. g = IF h.offset < SectorLen THEN DrqOn(h)
            ELSE [DrqOff(h) EXCEPT !.stream_crc = TRUE]
    BY <1>6 DEF stream_write_step, b
  <2>2. new = Stored(im, f.cur, f.offset, v)
    BY <1>6 DEF StreamStores
  <2> HIDE DEF g
  <2>3. o = f.offset + 1 /\ o \in Nat /\ o \in 1 .. SectorLen
    BY <1>1, <1>2, GeometryAssumption DEF Still, Offsets
  <2> HIDE DEF o
  <2>4. h \in Chip
    BY ZenonT(30), <1>2, <2>3 DEF Chip
  <2>5. /\ h.timing = f.timing /\ h.sector = f.sector
        /\ h.c_track = f.c_track /\ h.side = f.side /\ h.disk = f.disk
        /\ h.op = f.op /\ h.cur = f.cur /\ h.modified = TRUE
    BY <1>2 DEF Still, Chip
  <2>6. /\ h.offset = o /\ h.stream /\ ~h.stream_crc /\ ~h.delayed_drq
        /\ h.status = b.status
    BY <1>1, <1>2 DEF Still, Chip
  <2> HIDE DEF h
  <2>7. /\ Still(h, DrqOn(h)) /\ DrqOn(h).status = b.status \cup {DRQ}
        /\ Still(h, DrqOff(h)) /\ DrqOff(h).status = b.status \ {DRQ}
        /\ DrqOff(h) \in Chip
    BY <2>4, <2>6, OnLemma, OffLemma
  <2>8. /\ g.timing = f.timing /\ g.sector = f.sector
        /\ g.c_track = f.c_track /\ g.side = f.side /\ g.disk = f.disk
        /\ g.op = f.op /\ g.cur = f.cur /\ g.modified = TRUE
        /\ g.offset = o /\ g.stream /\ ~g.delayed_drq
        /\ g.stream_crc <=> o = SectorLen
        /\ IF o = SectorLen THEN g.status = b.status \ {DRQ}
           ELSE g.status = b.status \cup {DRQ}
    <3>1. CASE o < SectorLen
      <4>1. g = DrqOn(h) /\ o # SectorLen
        BY <2>1, <2>3, <2>6, <3>1, GeometryAssumption
      <4> QED BY <2>5, <2>6, <2>7, <4>1 DEF Still
    <3>2. CASE ~(o < SectorLen)
      <4> DEFINE a == DrqOff(h)
      <4>1. g = [a EXCEPT !.stream_crc = TRUE] /\ o = SectorLen
        BY <2>1, <2>3, <2>6, <3>2, GeometryAssumption
      <4>2. a \in Chip /\ Still(h, a) /\ a.status = b.status \ {DRQ}
        BY <2>7
      <4> HIDE DEF a
      <4>3. /\ g.timing = a.timing /\ g.sector = a.sector
            /\ g.c_track = a.c_track /\ g.side = a.side /\ g.disk = a.disk
            /\ g.op = a.op /\ g.cur = a.cur /\ g.modified = a.modified
        BY <4>1, <4>2 DEF Chip
      <4>4. /\ g.offset = a.offset /\ g.stream = a.stream
            /\ g.delayed_drq = a.delayed_drq /\ g.stream_crc = TRUE
            /\ g.status = a.status
        BY <4>1, <4>2 DEF Chip
      <4> QED BY <2>5, <2>6, <4>1, <4>2, <4>3, <4>4 DEF Still
    <3> QED BY <3>1, <3>2
  <2>9. Anchored(g, j) /\ g.op \notin ReadOps
    BY <1>1, <1>3, <2>8 DEF Anchored
  <2>10. Paced(g)
    <3>1. DRQ \notin b.status \ {DRQ}
      OBVIOUS
    <3>2. g.stream_crc => DRQ \notin g.status
      BY <2>8, <3>1
    <3>3. o \in 0 .. SectorLen
      BY <2>3, GeometryAssumption
    <3> QED BY <1>1, <2>8, <2>9, <3>2, <3>3 DEF Paced
  <2>11. Clean(g) => Clean(f) /\ DRQ \notin f.status
    BY <1>1, <1>2, <2>8 DEF Clean, DRQ, LOST_DATA
  <2>12. Clean(g) => Writing(g, j, new, d)
    <3> SUFFICES ASSUME Clean(g) PROVE Writing(g, j, new, d)
      OBVIOUS
    <3>1. Ahead(f)
      BY <2>11 DEF Ahead
    <3>2. /\ InPlace(j, im, Passed(f, j)) /\ Len(j.bytes) = Passed(f, j) + 1
          /\ f.data = j.bytes[Len(j.bytes)] /\ (Len(j.bytes) >= 2 => d)
      BY <2>11, <3>1 DEF Transfers, Writing
    <3>3. Passed(f, j) = SectorLen * k + f.offset
      BY DEF Passed
    <3>4. v = f.data /\ v \in Bytes
      BY <2>11 DEF StreamByte, Chip
    <3>5. InPlace(j, new, SectorLen * k + f.offset + 1)
      <4>1. j.bytes[SectorLen * k + f.offset + 1] = v
        BY <3>2, <3>3, <3>4
      <4>2. f.cur = On(j, j.first.sector + k) /\ j.first \in Sector
        BY <1>1, <1>4 DEF Anchored
      <4> QED BY <1>1, <1>4, <2>2, <3>2, <3>3, <3>4, <4>1, <4>2, StoreOneLemma
    <3>6. Passed(g, j) = SectorLen * k + f.offset + 1
      <4>1. Passed(g, j) = SectorLen * k + (f.offset + 1)
        BY <2>3, <2>8 DEF Passed
      <4>2. f.offset \in Nat
        BY DEF Chip
      <4> QED BY <1>4, <4>1, <4>2
    <3>7. ~Ahead(g)
      BY <2>8 DEF Ahead
    <3> QED BY <2>8, <3>2, <3>3, <3>5, <3>6, <3>7 DEF Writing
  <2> QED BY <2>9, <2>10, <2>12 DEF Transfers, Progress, g
<1> QED BY <1>5, <1>6

\* The program gives a sector command.
LEMMA JobStartLemma ==
  ASSUME NEW f \in Chip, NEW c \in SectorOps, NEW im, NEW d \in BOOLEAN,
         fdc_command(f, c).op = c
  PROVE  LET g == fdc_command(f, c)
         IN Progress(g, [op |-> c, first |-> g.cur, bytes |-> <<>>], im, d)
<1> DEFINE g == fdc_command(f, c)
           a == Accepted(f, FALSE)
           cur == fdc_find_sector(a, f.sector)
           h == [a EXCEPT !.offset = 0, !.cur = cur]
           j == [op |-> c, first |-> g.cur, bytes |-> <<>>]
<1>1. g = read_sector(f, c) \/ g = write_sector(f, c)
  <2>1. /\ c \in ReadOps \/ c \in WriteOps
        /\ c \notin {"RESTORE", "SEEK", "STEP", "STEP_IN", "STEP_OUT",
                     "READ_ADDRESS", "READ_TRACK", "WRITE_TRACK"}
        /\ c \notin Forces
        /\ c \in ReadOps => c \notin WriteOps
    BY DEF SectorOps, ReadOps, WriteOps, Forces
  <2>2. CASE c \in ReadOps
    BY <2>1, <2>2 DEF fdc_command
  <2>3. CASE c \in WriteOps
    BY <2>1, <2>3 DEF fdc_command
  <2> QED BY <2>1, <2>2, <2>3
<1>2. c # "NONE" /\ g.op = c
  BY DEF SectorOps, ReadOps, WriteOps
<1>3. /\ a \in Chip
      /\ Rest([f EXCEPT !.stream = FALSE, !.stream_crc = FALSE, !.type1 = FALSE],
              a)
  BY AcceptedLemma DEF Keeps
<1>4. \A st \in SUBSET StatusBits : Refused(a, st).op = "NONE"
  <2> SUFFICES ASSUME NEW st \in SUBSET StatusBits
               PROVE  Refused(a, st).op = "NONE"
    OBVIOUS
  <2>1. Rest([a EXCEPT !.op = "NONE", !.status = st], Refused(a, st))
    BY <1>3, RefusedLemma
  <2> QED BY <1>3, <2>1 DEF Rest, Lines, Chip
<1> HIDE DEF g, a
<1>5. g = WaitSector(a, f.sector, c)
  <2>1. \/ g = fdc_not_ready(a)
        \/ g = fdc_write_protected(a)
        \/ g = WaitSector(a, f.sector, c)
    BY <1>1 DEF read_sector, write_sector, a
  <2>2. {NOT_READY} \in SUBSET StatusBits /\ {WRITE_PROT} \in SUBSET StatusBits
    BY DEF StatusBits
  <2>3. fdc_not_ready(a).op = "NONE" /\ fdc_write_protected(a).op = "NONE"
    BY <1>4, <2>2 DEF fdc_not_ready, fdc_write_protected
  <2> QED BY <1>2, <2>1, <2>3
<1>6. ~a.stream /\ a.sector = f.sector /\ f.sector \in Bytes
  BY ZenonT(30), <1>3 DEF Rest, Lines, Chip
<1>7. cur \in Sector \cup {NoSector}
  BY <1>3, <1>6, FindLemma
<1>8. cur # NoSector =>
        /\ cur = [medium |-> a.disk, side |-> a.side, track |-> a.c_track,
                  sector |-> a.sector]
        /\ a.sector \in 1 .. Spt
  BY <1>6 DEF fdc_find_sector
<1> HIDE DEF cur
<1>9. h \in Chip
  BY <1>3, <1>7 DEF Chip
<1>10. /\ h.timing = a.timing /\ h.sector = a.sector
       /\ h.c_track = a.c_track /\ h.side = a.side /\ h.disk = a.disk
       /\ h.cur = cur /\ h.offset = 0 /\ h.stream = a.stream
  BY <1>3 DEF Chip
<1> HIDE DEF h
<1>11. cur # NoSector
  <2> SUFFICES ASSUME cur = NoSector PROVE FALSE
    OBVIOUS
  <2>1. g = fdc_record_not_found(h)
    BY <1>5 DEF WaitSector, cur, h
  <2>2. g.op = "NONE"
    BY <1>9, <2>1, NotFoundOp
  <2> QED BY <1>2, <2>2
<1>12. g = [h EXCEPT !.status = {BUSY, NOT_READY}, !.delayed_drq = TRUE,
                     !.op = c]
  BY <1>5, <1>11 DEF WaitSector, cur, h
<1>13. /\ g.timing = h.timing /\ g.sector = h.sector
       /\ g.c_track = h.c_track /\ g.side = h.side /\ g.disk = h.disk
       /\ g.cur = h.cur /\ g.offset = h.offset /\ g.stream = h.stream
       /\ g.status = {BUSY, NOT_READY}
  BY <1>9, <1>12 DEF Chip
<1>14. /\ g.sector \in 1 .. Spt /\ g.cur \in Sector
       /\ g.cur = [medium |-> g.disk, side |-> g.side, track |-> g.c_track,
                   sector |-> g.sector]
       /\ g.offset = 0 /\ ~g.stream
  BY <1>6, <1>7, <1>8, <1>10, <1>11, <1>13
<1>15. /\ j.first = g.cur /\ j.op = c /\ Len(j.bytes) = 0
       /\ j.first.sector = g.sector /\ j.first.medium = g.disk
       /\ j.first.side = g.side /\ j.first.track = g.c_track
  BY <1>14
<1> HIDE DEF j
<1>16. Anchored(g, j)
  BY <1>2, <1>14, <1>15, GeometryAssumption DEF Anchored, On
<1>17. Paced(g)
  BY <1>13, <1>14, GeometryAssumption DEF Paced, BUSY, NOT_READY, DRQ
<1>18. Passed(g, j) = 0
  <2> DEFINE p == g.sector - j.first.sector
  <2>1. p = 0
    BY <1>14, <1>15
  <2>2. Passed(g, j) = SectorLen * p + 0
    BY <1>14 DEF Passed
  <2> HIDE DEF p
  <2> QED BY <2>1, <2>2, NextLemma
<1>19. InPlace(j, im, 0)
  <2>1. \A q \in 0 .. Spt - j.first.sector, r \in Offsets :
          ~(SectorLen * q + r < 0)
    <3> SUFFICES ASSUME NEW q \in 0 .. Spt - j.first.sector, NEW r \in Offsets
                 PROVE  ~(SectorLen * q + r < 0)
      OBVIOUS
    <3>1. SectorLen * q \in Nat /\ r \in Nat
      BY GeometryAssumption DEF Offsets
    <3> QED BY <3>1
  <2> QED BY <2>1 DEF InPlace
<1>20. Reading(g, j, im) /\ Writing(g, j, im, d)
  BY <1>14, <1>15, <1>18, <1>19 DEF Reading, Writing, Whole, Behind, Ahead
<1> QED BY <1>16, <1>17, <1>20 DEF Transfers, Progress, g, j

-----------------------------------------------------------------------------
(* The invariant *)

\* A step that leaves no job.
LEMMA NoJobStep ==
  ASSUME job' = NoJob
  PROVE  JobInv'
BY DEF JobInv, NoJob

\* A step that the job does not see.
LEMMA AsideStep ==
  ASSUME JobInv, Still(fdc, fdc'), fdc'.status = fdc.status,
         UNCHANGED <<job, image, dirty, drive>>
  PROVE  JobInv'
BY StillLemma DEF JobInv

\* What the invariant of the board gives to each step.
LEMMA KnownLemma ==
  ASSUME IInv
  PROVE  /\ fdc \in Chip /\ job \in Jobs /\ image \in Images
         /\ drive \in Drives /\ dirty \in [Drives -> BOOLEAN]
         /\ dirty[drive] \in BOOLEAN
         /\ fdc.disk = disk[drive]
BY DEF IInv, Ledger, Slots, ChipHoldsDrive

\* The floppy that the job works on is in the drive.
LEMMA OneHeapLemma ==
  ASSUME IInv, Transfers(fdc, job, image, dirty[drive])
  PROVE  Heaps = {image}
<1>1. fdc.cur.medium = fdc.disk
  BY DEF Transfers, Anchored, On
<1> QED BY <1>1, KnownLemma DEF Heaps

\* The flag of the chip f goes to the drive.
LEMMA FlagLemma ==
  ASSUME drive \in Drives, dirty \in [Drives -> BOOLEAN], NEW f \in Chip,
         Written(f)
  PROVE  /\ fdc' = [f EXCEPT !.modified = FALSE]
         /\ dirty'[drive] = (dirty[drive] \/ f.modified)
BY DEF Written, Chip

LEMMA JobCommandStep ==
  ASSUME IInv, NEW c \in Commands, WriteCommand(c)
  PROVE  JobInv'
<1> DEFINE g == fdc_command(fdc, c)
           new == [op |-> c, first |-> g.cur, bytes |-> <<>>]
<1>1. /\ Written(g) /\ UNCHANGED <<slots, image>>
      /\ job' = NoJob \/ (job' = new /\ c \in SectorOps /\ g.op = c)
  BY DEF WriteCommand
<1>2. g \in Chip
  BY CommandLemma DEF IInv, Started, Keeps
<1>3. CASE job' = NoJob
  BY <1>3, NoJobStep
<1>4. CASE job' = new /\ c \in SectorOps /\ g.op = c
  <2> DEFINE d == dirty[drive] \/ g.modified
  <2>1. d \in BOOLEAN
    BY <1>2, KnownLemma DEF Chip
  <2>2. Progress(g, new, image, d)
    BY <1>4, <2>1, KnownLemma, JobStartLemma
  <2>3. fdc' = [g EXCEPT !.modified = FALSE] /\ dirty'[drive] = d
    BY <1>1, <1>2, KnownLemma, FlagLemma
  <2> HIDE DEF g, new
  <2>4. Progress([g EXCEPT !.modified = FALSE], new, image, d)
    BY <1>2, <2>2, KnownLemma, TakenLemma
  <2> QED BY <1>1, <1>4, <2>3, <2>4 DEF JobInv, slots
<1> QED BY <1>1, <1>3, <1>4

LEMMA JobReadStep ==
  ASSUME IInv, JobInv, ReadData
  PROVE  JobInv'
<1>1. PICK heap \in Heaps : fdc' = fdc_read_data(fdc, heap)
  BY DEF ReadData
<1>2. /\ fdc.op \in AddressReads /\ DRQ \in fdc.status
      /\ job' = IF job.op = fdc.op
                THEN [job EXCEPT !.bytes = Append(@, fdc'.data)] ELSE job
      /\ UNCHANGED <<slots, dirty, image>>
  BY DEF ReadData, Asked, AddressReads
<1>3. CASE job.op = "NONE"
  <2>1. fdc.op # "NONE"
    BY <1>2 DEF AddressReads, ReadOps
  <2> QED BY <1>2, <1>3, <2>1 DEF JobInv
<1>4. CASE job.op # "NONE"
  <2>1. Transfers(fdc, job, image, dirty[drive])
    BY <1>2, <1>4 DEF JobInv, Progress, Over, AddressReads, ReadOps
  <2>2. job.op = fdc.op /\ fdc.op \in ReadOps
    BY <1>2, <2>1
    DEF Transfers, Anchored, AddressReads, SectorOps, ReadOps, WriteOps
  <2>3. heap = image
    BY <2>1, OneHeapLemma
  <2>4. Progress(fdc', [job EXCEPT !.bytes = Append(@, fdc'.data)], image,
                 dirty[drive])
    BY <1>1, <1>2, <2>1, <2>2, <2>3, KnownLemma, JobReadLemma
  <2> QED BY <1>2, <2>2, <2>4 DEF JobInv, slots
<1> QED BY <1>3, <1>4

LEMMA JobWriteStep ==
  ASSUME IInv, JobInv, NEW v \in GuestBytes, WriteData(v)
  PROVE  JobInv'
<1> DEFINE g == fdc_write_data(fdc, v)
           new == IF DataStores(fdc) THEN Stored(image, fdc.cur, fdc.offset, v)
                  ELSE image
           longer == [job EXCEPT !.bytes = Append(@, v)]
<1>1. /\ fdc.op \in TrackWrites /\ DRQ \in fdc.status
      /\ job' = IF job.op = fdc.op THEN longer ELSE job
      /\ Written(g) /\ image' = new /\ UNCHANGED slots
  BY DEF WriteData, Asked, TrackWrites, DataWritten
<1>2. CASE job.op = "NONE"
  <2>1. fdc.op # "NONE"
    BY <1>1 DEF TrackWrites, WriteOps
  <2> QED BY <1>1, <1>2, <2>1 DEF JobInv
<1>3. CASE job.op # "NONE"
  <2> DEFINE d == dirty[drive] \/ g.modified
  <2>1. Transfers(fdc, job, image, dirty[drive])
    BY <1>1, <1>3 DEF JobInv, Progress, Over, TrackWrites, WriteOps
  <2>2. job.op = fdc.op /\ fdc.op \in WriteOps
    BY <1>1, <2>1
    DEF Transfers, Anchored, TrackWrites, SectorOps, ReadOps, WriteOps
  <2>3. v \in Bytes
    BY GuestBytesLemma
  <2>4. g \in Chip /\ Progress(g, longer, new, d)
    BY <1>1, <2>1, <2>2, <2>3, KnownLemma, JobWriteLemma
  <2> HIDE DEF g, longer, new
  <2>5. fdc' = [g EXCEPT !.modified = FALSE] /\ dirty'[drive] = d
    BY <1>1, <2>4, KnownLemma, FlagLemma
  <2>6. Progress([g EXCEPT !.modified = FALSE], longer, new, d)
    BY <2>4, KnownLemma, TakenLemma
  <2> QED BY <1>1, <2>2, <2>5, <2>6 DEF JobInv, slots
<1> QED BY <1>2, <1>3

LEMMA JobTickStep ==
  ASSUME IInv, JobInv, Tick
  PROVE  JobInv'
<1> DEFINE d == dirty[drive]
<1>1. CASE IntExpires
  BY <1>1, NoJobStep DEF IntExpires
<1>2. CASE DrqExpires
  <2>1. PICK heap \in Heaps : fdc' = fdc_drq_expires(fdc, heap)
    BY <1>2 DEF DrqExpires
  <2>2. /\ fdc.delayed_drq /\ UNCHANGED <<slots, dirty, image, job>>
    BY <1>2 DEF DrqExpires
  <2>3. ASSUME job.op # "NONE"
        PROVE  Progress(fdc', job, image, d)
    <3>1. CASE Transfers(fdc, job, image, d)
      <4>1. heap = image
        BY <3>1, OneHeapLemma
      <4> QED BY <2>1, <2>2, <3>1, <4>1, KnownLemma, JobDrqLemma DEF Progress
    <3>2. CASE Over(fdc, job, image, d)
      <4>1. fdc_drq_expires(fdc, heap) = fdc_drq_expires(fdc, image)
        BY <3>2
        DEF Over, fdc_drq_expires, fdc_streamed, SectorOps, ReadOps, WriteOps
      <4> QED BY <2>1, <2>2, <3>2, <4>1, KnownLemma, JobDrqLemma DEF Progress
    <3> QED BY <2>3, <3>1, <3>2 DEF JobInv, Progress
  <2> QED BY <2>2, <2>3 DEF JobInv, slots
<1>3. CASE StreamStep
  <2>1. PICK heap \in Heaps : fdc' = fdc_stream_step(fdc, heap)
    BY <1>3 DEF StreamStep
  <2>2. /\ fdc.stream /\ fdc.op \in SectorOps
        /\ UNCHANGED <<slots, dirty, job>>
        /\ image' = IF StreamStores(fdc)
                    THEN Stored(image, fdc.cur, fdc.offset, StreamByte(fdc))
                    ELSE image
    BY <1>3 DEF StreamStep, fdc_streamed
  <2>3. ASSUME job.op # "NONE"
        PROVE  Progress(fdc', job, image', d)
    <3>1. Transfers(fdc, job, image, d)
      BY <2>2, <2>3 DEF JobInv, Progress, Over, SectorOps, ReadOps, WriteOps
    <3>2. heap = image
      BY <3>1, OneHeapLemma
    <3>3. CASE fdc.stream_crc
      BY <2>1, <2>2, <3>1, <3>3, KnownLemma, JobDoneLemma
      DEF fdc_stream_step, StreamStores
    <3>4. CASE ~fdc.stream_crc /\ fdc.op \in WriteOps
      BY <2>1, <2>2, <3>1, <3>4, KnownLemma, JobStreamWriteLemma
      DEF fdc_stream_step
    <3>5. CASE ~fdc.stream_crc /\ fdc.op \notin WriteOps
      BY <2>1, <2>2, <3>1, <3>2, <3>5, KnownLemma, JobStreamReadLemma
      DEF fdc_stream_step, StreamStores, SectorOps
    <3> QED BY <3>3, <3>4, <3>5
  <2> QED BY <2>2, <2>3 DEF JobInv, slots
<1>4. CASE StreamStops
  <2>1. /\ fdc.stream /\ ~fdc_streamed(fdc) /\ fdc' = [fdc EXCEPT !.stream = FALSE]
        /\ UNCHANGED <<slots, dirty, image, job>>
    BY <1>4 DEF StreamStops
  <2>2. ASSUME job.op # "NONE"
        PROVE  Over(fdc', job, image, d)
    <3>1. ~Transfers(fdc, job, image, d)
      BY <2>1, KnownLemma DEF Transfers, Anchored, Paced, fdc_streamed, Chip
    <3>2. Over(fdc, job, image, d)
      BY <2>2, <3>1 DEF JobInv, Progress
    <3>3. /\ fdc'.op = fdc.op /\ fdc'.sector = fdc.sector
          /\ fdc'.di_status = fdc.di_status
      BY <2>1, KnownLemma DEF Chip
    <3> QED BY <3>2, <3>3 DEF Over, Count
  <2> QED BY <2>1, <2>2 DEF JobInv, Progress, slots
<1>5. CASE DrqAges
  <2>1. /\ LateDrq(fdc) /\ fdc' = fdc_lost_data(fdc)
        /\ UNCHANGED <<slots, dirty, image, job>>
    BY <1>5 DEF DrqAges
  <2>2. ASSUME job.op # "NONE"
        PROVE  Transfers(fdc', job, image, d)
    <3>1. Transfers(fdc, job, image, d)
      BY <2>1, <2>2
      DEF JobInv, Progress, Over, LateDrq, fdc_op_transfers_data, SectorOps,
          ReadOps, WriteOps
    <3>2. /\ ~fdc.stream /\ DRQ \in fdc.status /\ fdc.timing = "FAST"
      BY <2>1, <3>1, KnownLemma DEF LateDrq, Transfers, Paced, Chip
    <3>3. Rest([fdc EXCEPT !.status = fdc.status \cup {LOST_DATA}], fdc')
      BY <2>1 DEF fdc_lost_data, Rest
    <3>4. Still(fdc, fdc')
      BY <3>3, KnownLemma, RestLemma
    <3>5. Anchored(fdc', job) /\ Paced(fdc') /\ fdc'.op = fdc.op /\ ~fdc'.stream
      BY <3>1, <3>2, <3>4 DEF Transfers, Still, Anchored, Paced
    <3>6. Passed(fdc', job) = Passed(fdc, job) /\ fdc'.modified = fdc.modified
      BY <3>4 DEF Still, Passed
    <3>7. fdc.op \in ReadOps => Reading(fdc', job, image)
      BY <3>1, <3>2, <3>5, <3>6 DEF Transfers, Clean, Reading, Behind
    <3>8. fdc.op \in WriteOps => Writing(fdc', job, image, d)
      BY <3>1, <3>2, <3>5, <3>6 DEF Transfers, Clean, Writing, Ahead
    <3> QED BY <3>5, <3>7, <3>8 DEF Transfers
  <2> QED BY <2>1, <2>2 DEF JobInv, Progress, slots
<1> QED BY <1>1, <1>2, <1>3, <1>4, <1>5 DEF Tick

LEMMA JobHostStep ==
  ASSUME IInv, JobInv, Host
  PROVE  JobInv'
<1>1. CASE \E d \in Drives, m \in Media : LoadDisk(d, m)
  BY <1>1, NoJobStep DEF LoadDisk
<1>2. CASE \E d \in Drives : EjectDisk(d)
  BY <1>2, NoJobStep DEF EjectDisk
<1>3. ASSUME NEW d \in Drives, NEW on \in BOOLEAN, SetProtected(d, on)
      PROVE  JobInv'
  <2>1. /\ UNCHANGED <<drive, dirty, image, job>>
        /\ fdc' = [fdc EXCEPT !.protected = on] \/ fdc' = fdc
    BY <1>3 DEF SetProtected
  <2>2. Still(fdc, fdc') /\ fdc'.status = fdc.status
    BY <2>1, KnownLemma DEF Still, Chip
  <2> QED BY <2>1, <2>2, AsideStep
<1>4. CASE CpuReset
  <2>1. /\ UNCHANGED <<drive, dirty, image, job>>
        /\ fdc' = [fdc EXCEPT !.irq = FALSE]
    BY <1>4 DEF CpuReset, slots
  <2>2. Still(fdc, fdc') /\ fdc'.status = fdc.status
    BY <2>1, KnownLemma DEF Still, Chip
  <2> QED BY <2>1, <2>2, AsideStep
<1> QED BY <1>1, <1>2, <1>3, <1>4 DEF Host

LEMMA NextJobInv == IInv /\ JobInv /\ [Next]_vars => JobInv'
<1> SUFFICES ASSUME IInv, JobInv, [Next]_vars PROVE JobInv'
  OBVIOUS
<1>1. CASE UNCHANGED vars
  BY <1>1 DEF JobInv, vars, slots
<1>2. CASE Access
  <2>1. CASE \E c \in Commands : WriteCommand(c)
    BY <2>1, JobCommandStep
  <2>2. CASE ReadStatus
    <3>1. Rest(fdc, fdc') /\ UNCHANGED <<drive, dirty, image, job>>
      BY <2>2, KnownLemma, ClrIntrqLemma DEF ReadStatus, slots
    <3>2. Still(fdc, fdc') /\ fdc'.status = fdc.status
      <4>1. [fdc EXCEPT !.status = fdc.status] = fdc
        BY KnownLemma DEF Chip
      <4> QED BY <3>1, <4>1, KnownLemma, RestLemma
    <3> QED BY <3>1, <3>2, AsideStep
  <2>3. CASE \E s \in 0 .. Spt + 1 : WriteSectorRegister(s)
    BY <2>3, NoJobStep DEF WriteSectorRegister
  <2>4. CASE ReadData
    BY <2>4, JobReadStep
  <2>5. CASE ReadDataUnasked
    BY <2>5, NoJobStep DEF ReadDataUnasked
  <2>6. CASE \E v \in GuestBytes : WriteData(v)
    BY <2>6, JobWriteStep
  <2>7. CASE \E v \in GuestBytes : WriteDataUnasked(v)
    BY <2>7, NoJobStep DEF WriteDataUnasked
  <2> QED BY <1>2, <2>1, <2>2, <2>3, <2>4, <2>5, <2>6, <2>7 DEF Access
<1>3. CASE Control
  BY <1>3, NoJobStep
  DEF Control, WriteControl, SelectSide, SelectDrive, ResetController
<1>4. CASE Tick
  BY <1>4, JobTickStep
<1>5. CASE Host
  BY <1>5, JobHostStep
<1> QED BY <1>1, <1>2, <1>3, <1>4, <1>5 DEF Next

LEMMA JobInvariance == Spec => []JobInv
<1>1. Init => JobInv
  BY DEF Init, NoJob, JobInv
<1> QED BY <1>1, NextJobInv, Invariance, PTL DEF Spec

-----------------------------------------------------------------------------
(* The theorems *)

\* Positions are counted from 1 in JobContent.
LEMMA ContentLemma ==
  ASSUME NEW n \in Nat, job \in Jobs, job.first \in Sector,
         NEW k \in Nat, n = SectorLen * k,
         k > 0 => job.first.sector + (k - 1) \in 1 .. Spt,
         Whole(job, image, n)
  PROVE  job.bytes =
           [i \in 1 .. n |->
              ByteAt(image, [job.first EXCEPT !.sector = @ + ((i - 1) \div SectorLen)],
                     (i - 1) % SectorLen)]
<1> DEFINE e(i) ==
      ByteAt(image, [job.first EXCEPT !.sector = @ + ((i - 1) \div SectorLen)],
             (i - 1) % SectorLen)
<1>1. ASSUME NEW i \in 1 .. n
      PROVE  job.bytes[i] = e(i)
  <2> DEFINE q == (i - 1) \div SectorLen
             r == (i - 1) % SectorLen
  <2>1. i - 1 \in Nat
    OBVIOUS
  <2>2. q \in Nat /\ r \in Offsets /\ i - 1 = SectorLen * q + r
    BY <2>1, DivLemma
  <2> HIDE DEF q, r
  <2>3. SectorLen * q + r < SectorLen * k + 0
    BY <2>2
  <2>4. 0 \in Offsets
    BY GeometryAssumption DEF Offsets
  <2>5. q < k
    <3>1. q <= k
      BY <2>2, <2>3, <2>4, OrderLemma
    <3>2. q # k
      <4>1. SectorLen * k \in Nat /\ r \in Nat
        BY <2>2, GeometryAssumption DEF Offsets
      <4> QED BY <2>3, <4>1
    <3> QED BY <2>2, <3>1, <3>2
  <2>6. q \in 0 .. Spt - job.first.sector
    BY <2>2, <2>5, GeometryAssumption DEF Sector
  <2>7. job.bytes[SectorLen * q + r + 1] = Cells(job, image, q, r)
    BY <2>2, <2>3, <2>6 DEF Whole, InPlace
  <2>8. SectorLen * q + r + 1 = i
    BY <2>2
  <2>9. [job.first EXCEPT !.sector = @ + q] = On(job, job.first.sector + q)
    BY DEF On, Sector
  <2>10. Cells(job, image, q, r)
           = ByteAt(image, [job.first EXCEPT !.sector = @ + q], r)
    BY <2>2, <2>6, <2>9, ByteAtLemma
  <2> QED BY <2>7, <2>8, <2>10 DEF q, r
<1>2. job.bytes = [i \in 1 .. n |-> job.bytes[i]]
  <2>1. job.bytes \in Seq(Bytes) /\ Len(job.bytes) = n
    BY DEF Jobs, Whole
  <2> QED BY <2>1
<1> HIDE DEF e
<1>3. job.bytes = [i \in 1 .. n |-> e(i)]
  BY <1>1, <1>2
<1> QED BY <1>3 DEF e

\* A transfer that ends without LOST DATA moved every byte of its sectors, once
\* and in order, between the data register and the image (fdc_read, fdc_write
\* and fdc_ticktock of storage/disk.c).
THEOREM DiskTransferExact == Spec => []TransferIsExact
<1>1. IInv /\ JobInv => TransferIsExact
  <2> SUFFICES ASSUME IInv, JobInv, JobIsOver
               PROVE  job.bytes = JobContent
    BY DEF TransferIsExact
  <2> DEFINE k == Count(fdc, job)
             w == IF job.op \in MultiOps THEN fdc.sector - 1 - job.first.sector
                  ELSE 0
  <2>1. job.op # "NONE" /\ fdc.op = "NONE" /\ LOST_DATA \notin fdc.di_status
    BY DEF JobIsOver
  <2>2. Over(fdc, job, image, dirty[drive])
    BY <2>1 DEF JobInv, Progress, Transfers, Anchored, SectorOps, ReadOps,
                WriteOps
  <2>3. /\ job.first \in Sector /\ Whole(job, image, SectorLen * k)
        /\ fdc.sector \in job.first.sector .. Spt + 1
    BY <2>1, <2>2 DEF Over
  <2>4. job.first.sector \in 1 .. Spt
    BY <2>3 DEF Sector
  <2>5. k \in Nat /\ k = 1 + w
    BY <2>3, <2>4, GeometryAssumption DEF Count
  <2>6. k > 0 => job.first.sector + (k - 1) \in 1 .. Spt
    BY <2>3, <2>4, GeometryAssumption DEF Count
  <2> HIDE DEF k, w
  <2>7. SectorLen * k \in Nat
    BY <2>5, GeometryAssumption
  <2>8. job.bytes =
          [i \in 1 .. SectorLen * k |->
             ByteAt(image, [job.first EXCEPT !.sector = @ + ((i - 1) \div SectorLen)],
                    (i - 1) % SectorLen)]
    BY <2>3, <2>5, <2>6, <2>7, KnownLemma, ContentLemma
  <2> QED BY <2>5, <2>8 DEF JobContent, w
<1> QED BY <1>1, Invariance, JobInvariance, PTL

\* When a write ends without LOST DATA the drive is marked for the write-back,
\* although in the REAL profile the platter sets the flag after the program's
\* access and the board takes it at the next one (microdisc_write,
\* jasmin_write).
THEOREM DiskWriteMarked == Spec => []WriteIsMarked
<1>1. JobInv => WriteIsMarked
  BY DEF JobInv, WriteIsMarked, JobIsOver, Progress, Over, Transfers, Anchored,
         SectorOps, ReadOps, WriteOps
<1> QED BY <1>1, JobInvariance, PTL

=============================================================================
