---------------------------- MODULE MachineProofs ----------------------------
(***************************************************************************)
(* Proofs about LociRom, Media and Keyboard, for any ROM images, drives,   *)
(* files and tapes and any number of presses, swaps and frames: the trap   *)
(* goes with the press that set it, and a session comes back under its own *)
(* ROM; what the guest wrote is in its file or in a dirty drive; and a key *)
(* that nobody holds is not pressed.                                       *)
(***************************************************************************)
EXTENDS LociRom, Media, Keyboard, SequenceTheorems, WellFoundedInduction, TLAPS

-----------------------------------------------------------------------------
(* The inductive invariant *)

Vector == Image \cup {"trap", "none"}
Rom == [img : Image, vec : Vector, tune : {"own", "busy", "set"}]
Mapping == [img : Image, over : BOOLEAN, off : BOOLEAN]
Session == InMenu .. MaxBoots

RomTypeOK ==
  /\ map \in [rom : Rom, over : BOOLEAN, off : BOOLEAN, menu : BOOLEAN]
  /\ warm \in [valid : BOOLEAN, rom : Rom, over : BOOLEAN, off : BOOLEAN]
  /\ btn \in [active : BOOLEAN, saved : Vector]
  /\ cpu \in [at : {"code", "trap", "exit", "menu", "wait", "lost"},
              irq : BOOLEAN, mask : BOOLEAN, frame : BOOLEAN]
  /\ mia \in [pending : BOOLEAN, adj : 0 .. 2, tior : Nat]
  /\ sess \in [ram : Session, xram : Session, count : 0 .. MaxBoots,
               home : [0 .. MaxBoots -> Mapping]]

\* The vector that a release writes back is that of the ROM it writes it to,
\* also when the ROM changed between the press and the release; and the menu
\* is entered only with a ROM kept for the resume.
VectorInv ==
  /\ ~btn.active \/ map.menu => map.rom.vec = map.rom.img
  /\ btn.active /\ ~map.menu => btn.saved = map.rom.img
  /\ map.menu => warm.valid /\ btn.saved = warm.rom.img
  /\ warm.valid => warm.rom.vec = warm.rom.img

\* The 6502 runs the menu's code when, and only when, the menu is mapped.
PlaceInv ==
  /\ cpu.at # "lost"
  /\ map.menu <=> cpu.at \in {"exit", "menu", "wait"}
  /\ cpu.at = "trap" /\ {"menu", "diag"} \subseteq found => btn.active

Kept == [img |-> warm.rom.img, over |-> warm.over, off |-> warm.off]

\* Where the session is: in the RAM under its ROM; in the RAM while the menu
\* saves it; in XRAM, its ROM kept; and back in the RAM, waiting for its ROM.
SessionInv ==
  /\ sess.ram <= sess.count /\ sess.xram <= sess.count
  /\ ~map.menu => sess.ram # InMenu /\ sess.home[sess.ram] = Mapped
  /\ cpu.at = "code" => ~cpu.frame
  /\ cpu.at = "exit" => sess.ram # InMenu /\ sess.home[sess.ram] = Kept /\ cpu.frame
  /\ cpu.at \in {"menu", "wait"} => sess.xram # InMenu /\ sess.home[sess.xram] = Kept
  /\ cpu.at = "wait" => sess.ram = sess.xram

RomInv == RomTypeOK /\ VectorInv /\ PlaceInv /\ SessionInv

-----------------------------------------------------------------------------
(* The operations *)

\* A ROM from its file holds its own vector.
LEMMA FreshRom ==
  ASSUME NEW i \in Image
  PROVE  Fresh(i) \in Rom /\ Fresh(i).img = i /\ Fresh(i).vec = i
BY DEF Fresh, Rom, Vector

\* The name of the trap is not that of an image.
LEMMA TrapIsNoImage == "trap" \notin Image
BY LociRomAssumption DEF Image

\* A boot starts a new session under its ROM, wherever the 6502 was.
LEMMA BootStep ==
  ASSUME RomInv, NEW i \in Image, NEW over \in BOOLEAN, Boot(i, over),
         btn' = [btn EXCEPT !.active = FALSE], UNCHANGED <<warm, mia, found>>
  PROVE  RomInv'
<1> DEFINE n == sess.count + 1
           m == [img |-> i, over |-> over \/ map.over, off |-> over \/ map.off]
<1>1. /\ sess.count \in 0 .. MaxBoots /\ n \in 0 .. MaxBoots /\ n \in Session
      /\ MaxBoots \in Nat
  BY LociRomAssumption DEF RomInv, RomTypeOK, Boot, Session, InMenu
<1>2. /\ map' = [rom |-> Fresh(i), menu |-> FALSE,
                 over |-> over \/ map.over, off |-> over \/ map.off]
      /\ m \in Mapping
  BY DEF Boot, RomInv, RomTypeOK, Mapping
<1>3. /\ map'.rom = Fresh(i) /\ ~map'.menu /\ map'.over = (over \/ map.over)
      /\ map'.off = (over \/ map.off)
      /\ map' \in [rom : Rom, over : BOOLEAN, off : BOOLEAN, menu : BOOLEAN]
  BY <1>2, FreshRom DEF RomInv, RomTypeOK
<1>4. Mapped' = m
  BY <1>3, FreshRom DEF Mapped
<1>5. sess' = [sess EXCEPT !.ram = n, !.count = n, !.home[n] = m]
  BY <1>3, FreshRom DEF Boot, NewSession, RomInv, RomTypeOK
<1> HIDE DEF n, m
<1>6. /\ sess'.ram = n /\ sess'.xram = sess.xram /\ sess'.count = n
      /\ sess'.home = [sess.home EXCEPT ![n] = m]
      /\ sess' \in [ram : Session, xram : Session, count : 0 .. MaxBoots,
                    home : [0 .. MaxBoots -> Mapping]]
  BY <1>1, <1>2, <1>5 DEF RomInv, RomTypeOK
<1>7. sess'.home[n] = m
  BY <1>1, <1>6 DEF RomInv, RomTypeOK
<1>8. cpu' = [at |-> "code", irq |-> FALSE, mask |-> TRUE, frame |-> FALSE]
  BY <1>3 DEF Boot, cpu_reset
<1>9. RomTypeOK'
  BY <1>3, <1>6, <1>8 DEF RomInv, RomTypeOK
<1>10. VectorInv'
  BY <1>3, FreshRom DEF RomInv, RomTypeOK, VectorInv
<1>11. PlaceInv'
  BY <1>3, <1>8 DEF PlaceInv
<1>12. SessionInv'
  <2>1. n # InMenu /\ sess.xram <= n
    BY <1>1, LociRomAssumption DEF RomInv, RomTypeOK, SessionInv, InMenu, n, Session
  <2>2. sess'.home[sess'.ram] = Mapped'
    BY <1>4, <1>6, <1>7
  <2>3. n <= n
    BY <1>1
  <2> QED BY <1>6, <1>8, <2>1, <2>2, <2>3 DEF SessionInv
<1> QED BY <1>9, <1>10, <1>11, <1>12 DEF RomInv

\* What the 6502 does to its flags alone changes no ROM and no session.
LEMMA FlagStep ==
  ASSUME RomInv, SetMask \/ ViaIrq
  PROVE  RomInv'
<1>1. /\ cpu'.at = cpu.at /\ cpu'.frame = cpu.frame
      /\ cpu' \in [at : {"code", "trap", "exit", "menu", "wait", "lost"},
                   irq : BOOLEAN, mask : BOOLEAN, frame : BOOLEAN]
      /\ UNCHANGED <<map, warm, btn, mia, sess, found>>
  BY DEF SetMask, ViaIrq, RomInv, RomTypeOK
<1> QED
  BY <1>1 DEF RomInv, RomTypeOK, VectorInv, PlaceInv, SessionInv, Mapped, Kept

\* An interrupt goes to the trap only while the button holds it.
LEMMA InterruptStep ==
  ASSUME RomInv, Interrupt
  PROVE  RomInv'
<1>1. /\ cpu.at = "code" /\ UNCHANGED <<map, warm, btn, mia, sess, found>>
      /\ cpu' \in [at : {"code", "trap", "exit", "menu", "wait", "lost"},
                   irq : BOOLEAN, mask : BOOLEAN, frame : BOOLEAN]
      /\ \/ cpu'.at = "trap" /\ map.rom.vec = "trap"
         \/ cpu'.at = "code" /\ cpu'.frame = cpu.frame
  BY DEF Interrupt, RomInv, RomTypeOK
<1>2. map.rom.img \in Image /\ map.rom.img # "trap"
  BY TrapIsNoImage DEF RomInv, RomTypeOK, Rom
<1>3. map.rom.vec = "trap" => btn.active
  BY <1>2 DEF RomInv, VectorInv
<1> QED
  BY <1>1, <1>3
  DEF RomInv, RomTypeOK, VectorInv, PlaceInv, SessionInv, Mapped, Kept

\* The menu saves the session that the button interrupted.
LEMMA SaveStep ==
  ASSUME RomInv, SaveState
  PROVE  RomInv'
<1>1. /\ cpu.at = "exit" /\ cpu'.at = "menu" /\ ~cpu'.frame
      /\ cpu' \in [at : {"code", "trap", "exit", "menu", "wait", "lost"},
                   irq : BOOLEAN, mask : BOOLEAN, frame : BOOLEAN]
      /\ UNCHANGED <<map, warm, btn, mia, found>>
  BY DEF SaveState, RomInv, RomTypeOK
<1>2. InMenu \in Session /\ InMenu <= sess.count
  BY LociRomAssumption DEF RomInv, RomTypeOK, Session, InMenu
<1>3. /\ sess'.ram = InMenu /\ sess'.xram = sess.ram /\ sess'.count = sess.count
      /\ sess'.home = sess.home
      /\ sess' \in [ram : Session, xram : Session, count : 0 .. MaxBoots,
                    home : [0 .. MaxBoots -> Mapping]]
  BY <1>2 DEF SaveState, RomInv, RomTypeOK
<1> QED
  BY <1>1, <1>2, <1>3
  DEF RomInv, RomTypeOK, VectorInv, PlaceInv, SessionInv, Mapped, Kept

\* A press sets the trap, and keeps the vector it takes away.
LEMMA PressStep ==
  ASSUME RomInv, loci_action_button_short
  PROVE  RomInv'
<1>1. UNCHANGED <<warm, mia, sess, found>> /\ ~btn.active
  BY DEF loci_action_button_short
<1>2. CASE map.menu
  <2>1. btn'.active /\ btn'.saved = btn.saved
        /\ btn' \in [active : BOOLEAN, saved : Vector] /\ UNCHANGED <<map, cpu>>
    BY <1>2 DEF loci_action_button_short, loci_action_install_irq_trap, RomInv,
       RomTypeOK
  <2> QED
    BY <1>1, <1>2, <2>1
    DEF RomInv, RomTypeOK, VectorInv, PlaceInv, SessionInv, Mapped, Kept
<1>3. CASE ~map.menu
  <2>1. /\ btn' = [active |-> TRUE, saved |-> map.rom.vec]
        /\ map' = [map EXCEPT !.rom.vec = "trap"]
        /\ cpu' = [cpu EXCEPT !.irq = TRUE]
    BY <1>3 DEF loci_action_button_short, loci_action_install_irq_trap
  <2>2. map.rom \in Rom /\ "trap" \in Vector /\ map.rom.vec = map.rom.img
        /\ map.rom.vec \in Vector
    BY <1>1 DEF RomInv, RomTypeOK, VectorInv, Rom, Vector
  <2>3. /\ map'.rom.img = map.rom.img /\ map'.rom \in Rom
        /\ map'.over = map.over /\ map'.off = map.off /\ map'.menu = map.menu
        /\ map' \in [rom : Rom, over : BOOLEAN, off : BOOLEAN, menu : BOOLEAN]
    BY <2>1, <2>2 DEF RomInv, RomTypeOK, Rom
  <2>4. /\ cpu'.at = cpu.at /\ cpu'.frame = cpu.frame
        /\ cpu' \in [at : {"code", "trap", "exit", "menu", "wait", "lost"},
                     irq : BOOLEAN, mask : BOOLEAN, frame : BOOLEAN]
    BY <2>1 DEF RomInv, RomTypeOK
  <2>5. RomTypeOK'
    BY <1>1, <2>1, <2>2, <2>3, <2>4 DEF RomInv, RomTypeOK
  <2>6. VectorInv'
    BY <1>1, <1>3, <2>1, <2>2, <2>3 DEF RomInv, VectorInv
  <2>7. PlaceInv'
    BY <1>1, <2>1, <2>3, <2>4 DEF RomInv, PlaceInv
  <2>8. SessionInv'
    BY <1>1, <2>3, <2>4 DEF RomInv, SessionInv, Mapped, Kept
  <2> QED BY <2>5, <2>6, <2>7, <2>8 DEF RomInv
<1> QED BY <1>2, <1>3

\* The vector is written back to the ROM it was taken from.
LEMMA RestoreLemma ==
  ASSUME RomInv, btn.active
  PROVE  /\ RestoreVector(map) \in
              [rom : Rom, over : BOOLEAN, off : BOOLEAN, menu : BOOLEAN]
         /\ RestoreVector(map).rom.vec = map.rom.img
         /\ RestoreVector(map).rom.img = map.rom.img
         /\ RestoreVector(map).over = map.over /\ RestoreVector(map).off = map.off
         /\ RestoreVector(map).menu = map.menu
<1>1. map.rom \in Rom /\ map.rom.img \in Vector
  BY DEF RomInv, RomTypeOK, Rom, Vector
<1>2. CASE map.menu
  BY <1>2 DEF RestoreVector, RomInv, RomTypeOK, VectorInv
<1>3. CASE ~map.menu
  <2>1. RestoreVector(map) = [map EXCEPT !.rom.vec = map.rom.img]
    BY <1>3 DEF RestoreVector, RomInv, VectorInv
  <2>2. [map.rom EXCEPT !.vec = map.rom.img] \in Rom
    BY <1>1 DEF Rom
  <2> QED BY <1>1, <2>1, <2>2 DEF RomInv, RomTypeOK, Rom
<1> QED BY <1>2, <1>3

\* The source bit that the press raised is cleared, and nothing else.
LEMMA ClearLemma ==
  ASSUME RomInv
  PROVE  /\ ClearIrq \in [at : {"code", "trap", "exit", "menu", "wait", "lost"},
                          irq : BOOLEAN, mask : BOOLEAN, frame : BOOLEAN]
         /\ ClearIrq.at = cpu.at /\ ClearIrq.frame = cpu.frame
BY DEF ClearIrq, RomInv, RomTypeOK

\* A release that finds no ROM to go to puts the vector back and no more.
LEMMA LiftStep ==
  ASSUME RomInv, btn.active, btn' = [btn EXCEPT !.active = FALSE],
         map' = RestoreVector(map), cpu' = ClearIrq,
         map.menu \/ ~({"menu", "diag"} \subseteq found),
         UNCHANGED <<warm, mia, sess, found>>
  PROVE  RomInv'
<1>1. ~btn'.active /\ btn'.saved = btn.saved
      /\ btn' \in [active : BOOLEAN, saved : Vector]
  BY DEF RomInv, RomTypeOK
<1>2. RomTypeOK'
  BY <1>1, RestoreLemma, ClearLemma DEF RomInv, RomTypeOK
<1>3. VectorInv'
  BY <1>1, RestoreLemma DEF RomInv, VectorInv
<1>4. PlaceInv'
  BY <1>1, RestoreLemma, ClearLemma DEF RomInv, PlaceInv
<1>5. SessionInv'
  BY RestoreLemma, ClearLemma DEF RomInv, SessionInv, Mapped, Kept
<1> QED BY <1>2, <1>3, <1>4, <1>5 DEF RomInv

\* A release that enters the menu keeps the ROM of the session, with its own
\* vector, and its overlay flags.
LEMMA EnterStep ==
  ASSUME RomInv, btn.active, btn' = [btn EXCEPT !.active = FALSE], EnterMenu,
         UNCHANGED <<mia, sess, found>>
  PROVE  RomInv'
<1> DEFINE m == RestoreVector(map)
<1>1. CASE map.menu \/ "menu" \notin found
  BY <1>1, LiftStep DEF EnterMenu
<1>2. CASE ~map.menu /\ "menu" \in found
  <2>1. /\ warm' = [valid |-> TRUE, rom |-> m.rom, over |-> m.over, off |-> m.off]
        /\ map' = [rom |-> Fresh("menu"), over |-> FALSE, off |-> FALSE, menu |-> TRUE]
        /\ cpu' = [ClearIrq EXCEPT !.at = "exit", !.mask = TRUE, !.frame = TRUE]
    BY <1>2 DEF EnterMenu, KeepWarm, loci_action_enter_nmi
  <2>2. /\ warm' \in [valid : BOOLEAN, rom : Rom, over : BOOLEAN, off : BOOLEAN]
        /\ warm'.valid /\ warm'.rom.vec = warm'.rom.img
        /\ warm'.rom.img = map.rom.img /\ warm'.over = map.over /\ warm'.off = map.off
    BY <2>1, RestoreLemma
  <2>3. "menu" \in Image
    BY DEF Image
  <2>4. /\ map' \in [rom : Rom, over : BOOLEAN, off : BOOLEAN, menu : BOOLEAN]
        /\ map'.menu /\ map'.rom.vec = map'.rom.img
    BY <2>1, <2>3, FreshRom
  <2>5. /\ cpu' \in [at : {"code", "trap", "exit", "menu", "wait", "lost"},
                     irq : BOOLEAN, mask : BOOLEAN, frame : BOOLEAN]
        /\ cpu'.at = "exit" /\ cpu'.frame
    BY <2>1, ClearLemma
  <2>6. ~btn'.active /\ btn'.saved = map.rom.img
        /\ btn' \in [active : BOOLEAN, saved : Vector]
    BY <1>2 DEF RomInv, RomTypeOK, VectorInv
  <2>7. sess.ram # InMenu /\ sess.home[sess.ram] = Kept'
    BY <1>2, <2>2 DEF RomInv, SessionInv, Mapped, Kept
  <2>8. RomTypeOK'
    BY <2>2, <2>4, <2>5, <2>6 DEF RomInv, RomTypeOK
  <2>9. VectorInv' /\ PlaceInv'
    BY <2>2, <2>4, <2>5, <2>6 DEF VectorInv, PlaceInv
  <2>10. SessionInv'
    BY <2>4, <2>5, <2>7 DEF RomInv, SessionInv
  <2> QED BY <2>8, <2>9, <2>10 DEF RomInv
<1> QED BY <1>1, <1>2

\* The release of the button.
LEMMA ReleaseStep ==
  ASSUME RomInv, loci_action_button_release
  PROVE  RomInv'
<1>1. /\ btn.active /\ btn' = [btn EXCEPT !.active = FALSE]
      /\ UNCHANGED <<mia, found>>
  BY DEF loci_action_button_release
<1>2. CASE EnterMenu /\ UNCHANGED sess
  BY <1>1, <1>2, EnterStep
<1>3. CASE Diag /\ UNCHANGED warm
  <2>1. CASE "diag" \in found
    <3>1. Boot("diag", FALSE) /\ "diag" \in Image /\ FALSE \in BOOLEAN
      BY <1>3, <2>1 DEF Diag, Image
    <3> QED BY <1>1, <1>3, <3>1, BootStep
  <2>2. CASE "diag" \notin found
    BY <1>1, <1>3, <2>2, LiftStep DEF Diag
  <2> QED BY <2>1, <2>2
<1> QED BY <1>2, <1>3 DEF loci_action_button_release

\* F5 restarts what is mapped, and cuts no save short.
LEMMA ResetStep ==
  ASSUME RomInv, ~Hasty, Reset
  PROVE  RomInv'
<1>1. /\ cpu.at # "exit" /\ UNCHANGED <<map, warm, btn, found>>
      /\ cpu' = [at |-> IF map.menu THEN "menu" ELSE "code", irq |-> FALSE,
                 mask |-> TRUE, frame |-> FALSE]
      /\ mia' = [mia EXCEPT !.pending = FALSE]
      /\ sess' = [sess EXCEPT !.ram = IF map.menu THEN InMenu ELSE @]
  BY DEF Reset, cpu_reset
<1>2. InMenu \in Session /\ InMenu <= sess.count
  BY LociRomAssumption DEF RomInv, RomTypeOK, Session, InMenu
<1>3. /\ sess'.ram = IF map.menu THEN InMenu ELSE sess.ram
      /\ sess'.xram = sess.xram /\ sess'.count = sess.count
      /\ sess'.home = sess.home
      /\ sess' \in [ram : Session, xram : Session, count : 0 .. MaxBoots,
                    home : [0 .. MaxBoots -> Mapping]]
  BY <1>1, <1>2 DEF RomInv, RomTypeOK
<1>4. RomTypeOK'
  BY <1>1, <1>3 DEF RomInv, RomTypeOK
<1>5. VectorInv' /\ PlaceInv'
  BY <1>1 DEF RomInv, VectorInv, PlaceInv
<1>6. SessionInv'
  BY <1>1, <1>2, <1>3 DEF RomInv, PlaceInv, SessionInv, Mapped, Kept
<1> QED BY <1>4, <1>5, <1>6 DEF RomInv

\* A program boots another ROM, with the button up.
LEMMA MiaBootStep ==
  ASSUME RomInv, ~Hasty, op_mia_boot
  PROVE  RomInv'
<1>1. ~btn.active /\ UNCHANGED <<warm, btn, mia, found>>
  BY DEF op_mia_boot
<1>2. btn' = [btn EXCEPT !.active = FALSE]
  BY <1>1 DEF RomInv, RomTypeOK
<1>3. PICK i \in Basic, fdc \in BOOLEAN : Boot(i, fdc /\ "microdis" \in found)
  BY DEF op_mia_boot
<1>4. i \in Image /\ (fdc /\ "microdis" \in found) \in BOOLEAN
  BY DEF Image
<1> QED BY <1>1, <1>2, <1>3, <1>4, BootStep

\* The menu asks for the session back.
LEMMA AskStep ==
  ASSUME RomInv, AskResume
  PROVE  RomInv'
<1>1. /\ cpu.at = "menu" /\ sess.xram # InMenu
      /\ cpu'.at = "wait"
      /\ cpu' \in [at : {"code", "trap", "exit", "menu", "wait", "lost"},
                   irq : BOOLEAN, mask : BOOLEAN, frame : BOOLEAN]
      /\ mia' = [mia EXCEPT !.pending = TRUE]
      /\ UNCHANGED <<map, warm, btn, found>>
  BY DEF AskResume, RomInv, RomTypeOK
<1>2. /\ sess'.ram = sess.xram /\ sess'.xram = sess.xram
      /\ sess'.count = sess.count /\ sess'.home = sess.home
      /\ sess' \in [ram : Session, xram : Session, count : 0 .. MaxBoots,
                    home : [0 .. MaxBoots -> Mapping]]
  BY DEF AskResume, RomInv, RomTypeOK
<1>3. RomTypeOK'
  BY <1>1, <1>2 DEF RomInv, RomTypeOK
<1>4. VectorInv' /\ PlaceInv'
  BY <1>1 DEF RomInv, VectorInv, PlaceInv
<1>5. SessionInv'
  BY <1>1, <1>2 DEF RomInv, PlaceInv, SessionInv, Mapped, Kept
<1> QED BY <1>3, <1>4, <1>5 DEF RomInv

\* The session gets the ROM that the button took away.
LEMMA ResumeStep ==
  ASSUME RomInv, loci_resume_at_spin
  PROVE  RomInv'
<1>1. cpu.at = "wait" /\ map.menu /\ warm.valid
      /\ UNCHANGED <<btn, sess, found>>
      /\ mia' = [mia EXCEPT !.pending = FALSE]
  BY DEF loci_resume_at_spin, RomInv, PlaceInv, VectorInv
<1>2. /\ map' = [rom |-> warm.rom, over |-> warm.over, off |-> warm.off, menu |-> FALSE]
      /\ warm' = [warm EXCEPT !.valid = FALSE]
      /\ cpu' = [cpu EXCEPT !.at = "code", !.frame = FALSE]
  BY <1>1 DEF loci_resume_at_spin, loci_resume_session_cb
<1>3. /\ warm' \in [valid : BOOLEAN, rom : Rom, over : BOOLEAN, off : BOOLEAN]
      /\ ~warm'.valid
  BY <1>2 DEF RomInv, RomTypeOK
<1>4. /\ map' \in [rom : Rom, over : BOOLEAN, off : BOOLEAN, menu : BOOLEAN]
      /\ map'.rom = warm.rom /\ map'.over = warm.over /\ map'.off = warm.off
      /\ ~map'.menu
  BY <1>2 DEF RomInv, RomTypeOK
<1>5. /\ cpu' \in [at : {"code", "trap", "exit", "menu", "wait", "lost"},
                   irq : BOOLEAN, mask : BOOLEAN, frame : BOOLEAN]
      /\ cpu'.at = "code" /\ ~cpu'.frame
  BY <1>2 DEF RomInv, RomTypeOK
<1>6. RomTypeOK'
  BY <1>1, <1>3, <1>4, <1>5 DEF RomInv, RomTypeOK
<1>7. VectorInv' /\ PlaceInv'
  BY <1>1, <1>3, <1>4, <1>5 DEF RomInv, VectorInv, PlaceInv
<1>8. SessionInv'
  BY <1>1, <1>4, <1>5 DEF RomInv, SessionInv, Mapped, Kept
<1> QED BY <1>6, <1>7, <1>8 DEF RomInv

\* The timing sweep writes only the byte it reports in.
LEMMA SweepStep ==
  ASSUME RomInv, op_adj_scan \/ loci_adj_tick
  PROVE  RomInv'
<1>0. mia \in [pending : BOOLEAN, adj : 0 .. 2, tior : Nat]
  BY DEF RomInv, RomTypeOK
<1>1. mia' \in [pending : BOOLEAN, adj : 0 .. 2, tior : Nat]
      /\ UNCHANGED <<warm, btn, cpu, sess, found>>
  <2>1. CASE op_adj_scan
    <3>1. /\ mia' = [mia EXCEPT !.adj = 1, !.tior = 0]
          /\ UNCHANGED <<warm, btn, cpu, sess, found>>
      BY <2>1 DEF op_adj_scan
    <3>2. 1 \in 0 .. 2 /\ 0 \in Nat
      OBVIOUS
    <3> QED BY <1>0, <3>1, <3>2
  <2>2. CASE loci_adj_tick /\ mia.adj = 1
    BY <1>0, <2>2 DEF loci_adj_tick
  <2>3. CASE loci_adj_tick /\ mia.adj # 1
    <3>1. AdjStep /\ UNCHANGED <<warm, btn, cpu, sess, found>>
      BY <2>3 DEF loci_adj_tick
    <3>2. CASE mia.tior = Sweep
      <4>1. mia' = [mia EXCEPT !.adj = 0, !.tior = 0]
        BY <3>1, <3>2 DEF AdjStep
      <4>2. 0 \in 0 .. 2 /\ 0 \in Nat
        OBVIOUS
      <4> QED BY <1>0, <3>1, <4>1, <4>2
    <3>3. CASE mia.tior # Sweep
      <4>1. mia' = [mia EXCEPT !.tior = @ + 1] /\ mia.tior + 1 \in Nat
        BY <1>0, <3>1, <3>3 DEF AdjStep
      <4> QED BY <1>0, <3>1, <4>1
    <3> QED BY <3>2, <3>3
  <2> QED BY <2>1, <2>2, <2>3
<1>2. map' = map \/ \E v \in {"busy", "set"} : map' = [map EXCEPT !.rom.tune = v]
  BY DEF op_adj_scan, loci_adj_tick, AdjStep, Poke
<1>3. map.rom \in Rom
  BY DEF RomInv, RomTypeOK
<1>4. /\ map' \in [rom : Rom, over : BOOLEAN, off : BOOLEAN, menu : BOOLEAN]
      /\ map'.rom.img = map.rom.img /\ map'.rom.vec = map.rom.vec
      /\ map'.over = map.over /\ map'.off = map.off /\ map'.menu = map.menu
  BY <1>2, <1>3 DEF RomInv, RomTypeOK, Rom
<1>5. RomTypeOK'
  BY <1>1, <1>4 DEF RomInv, RomTypeOK
<1>6. VectorInv' /\ PlaceInv' /\ SessionInv'
  BY <1>1, <1>4 DEF RomInv, VectorInv, PlaceInv, SessionInv, Mapped, Kept
<1> QED BY <1>5, <1>6 DEF RomInv

\* The machine starts with a ROM it owns.
LEMMA RomStart == RomInit => RomInv
<1> SUFFICES ASSUME RomInit PROVE RomInv
  OBVIOUS
<1>1. PICK i \in Basic \cup {"menu"} :
        /\ map = [rom |-> Fresh(i), over |-> FALSE, off |-> FALSE, menu |-> FALSE]
        /\ sess = [ram |-> 0, xram |-> InMenu, count |-> 0,
                   home |-> [s \in 0 .. MaxBoots |->
                               [img |-> i, over |-> FALSE, off |-> FALSE]]]
  BY DEF RomInit
<1>2. i \in Image /\ Fresh(i) \in Rom /\ Fresh(i).img = i /\ Fresh(i).vec = i
  BY FreshRom DEF Image
<1>3. 0 \in 0 .. MaxBoots /\ 0 \in Session /\ InMenu \in Session /\ 0 # InMenu
      /\ InMenu <= 0
  BY LociRomAssumption DEF Session, InMenu
<1>4. sess \in [ram : Session, xram : Session, count : 0 .. MaxBoots,
                home : [0 .. MaxBoots -> Mapping]]
  BY <1>1, <1>2, <1>3 DEF Mapping
<1>5. /\ warm \in [valid : BOOLEAN, rom : Rom, over : BOOLEAN, off : BOOLEAN]
      /\ ~warm.valid
  BY <1>1, <1>2 DEF RomInit
<1>6. RomTypeOK
  <2>1. map \in [rom : Rom, over : BOOLEAN, off : BOOLEAN, menu : BOOLEAN]
    BY <1>1, <1>2
  <2>2. btn \in [active : BOOLEAN, saved : Vector]
    BY DEF RomInit, Vector
  <2>3. mia \in [pending : BOOLEAN, adj : 0 .. 2, tior : Nat]
    BY DEF RomInit
  <2>4. cpu \in [at : {"code", "trap", "exit", "menu", "wait", "lost"},
                 irq : BOOLEAN, mask : BOOLEAN, frame : BOOLEAN]
    BY DEF RomInit
  <2> QED BY <1>4, <1>5, <2>1, <2>2, <2>3, <2>4 DEF RomTypeOK
<1>7. VectorInv /\ PlaceInv
  BY <1>1, <1>2, <1>5 DEF RomInit, VectorInv, PlaceInv
<1>8. SessionInv
  <2>1. sess.ram = 0 /\ sess.xram = InMenu /\ sess.count = 0
    BY <1>1
  <2>2. sess.home[0] = [img |-> i, over |-> FALSE, off |-> FALSE]
    BY <1>1, <1>3
  <2>3. Mapped = [img |-> i, over |-> FALSE, off |-> FALSE]
    BY <1>1, <1>2 DEF Mapped
  <2>4. cpu.at = "code" /\ ~cpu.frame
    BY DEF RomInit
  <2> QED BY <1>3, <2>1, <2>2, <2>3, <2>4 DEF SessionInv
<1> QED BY <1>6, <1>7, <1>8 DEF RomInv

\* Every step keeps the invariant.
LEMMA RomStep == RomInv /\ ~Hasty /\ [RomNext]_romVars => RomInv'
<1> SUFFICES ASSUME RomInv, ~Hasty, [RomNext]_romVars PROVE RomInv'
  OBVIOUS
<1>1. CASE UNCHANGED romVars
  BY <1>1
  DEF romVars, RomInv, RomTypeOK, VectorInv, PlaceInv, SessionInv, Mapped, Kept
<1> QED
  BY <1>1, FlagStep, InterruptStep, SaveStep, PressStep, ReleaseStep, ResetStep,
     MiaBootStep, AskStep, ResumeStep, SweepStep
  DEF RomNext

-----------------------------------------------------------------------------
(* Results *)

\* The invariant holds of every reachable state.
THEOREM RomInvariance == ASSUME ~Hasty PROVE RomSpec => []RomInv
<1>1. RomInv /\ [RomNext]_romVars => RomInv'
  BY RomStep
<1> QED BY <1>1, RomStart, PTL DEF RomSpec

\* For any images, any number of sessions and any order of presses, releases,
\* interrupts, resets, boots and sweeps: the trap lasts as long as the press,
\* also when the ROM under it is another one at the release, and a session is
\* put back as the button found it (loci_glue.c).  F5 is taken not to cut the
\* save short, and a program not to boot a ROM under a pressed button.
THEOREM RomSafe == ASSUME ~Hasty PROVE RomSpec => []RomIsSafe
<1>1. RomInv => RomIsSafe
  <2> SUFFICES ASSUME RomInv PROVE RomIsSafe
    OBVIOUS
  <2>1. TrapIsLifted
    BY DEF RomInv, VectorInv, PlaceInv, TrapIsLifted
  <2>2. SessionIsWhole
    BY DEF RomInv, PlaceInv, SessionInv, SessionIsWhole
  <2> QED BY <2>1, <2>2 DEF RomIsSafe
<1> QED BY <1>1, RomInvariance, PTL

-----------------------------------------------------------------------------
(* Media, for any drives, files and tapes and any number of swaps.           *)
(*                                                                           *)
(* What was written is kept because a drive knows the file of its image and  *)
(* holds all that the guest wrote to it, but for what is at risk; two drives *)
(* with one file differ in that only: HeldInv.  The file holds it where no   *)
(* dirty drive does: FiledInv.  A snapshot names the media it was taken with *)
(* and its disks differ in what was at risk: SnapInv.                        *)

Paths == DiskFiles \cup {NoFile}
Sectors == 1 .. MaxSectors
Disk == [img : Paths, data : SUBSET Sectors, dirty : BOOLEAN, path : Paths,
         ro : BOOLEAN, bad : BOOLEAN]
Deck == [loaded : BOOLEAN, buf : Tapes \cup {NoFile}, len : Nat, offs : Nat,
         path : Tapes \cup {NoFile}]
Content == [img : DiskFiles, data : SUBSET Sectors]
Whole ==
  [file : {"whole"}, sel : Drives, disk : UNION {[D -> Content] : D \in SUBSET Drives},
   bad : [Drives -> BOOLEAN], tape : [loaded : BOOLEAN, len : Nat, offs : Nat],
   with : [disk : [Drives -> Paths], tape : Tapes \cup {NoFile}]]
Snapshot == Whole \cup [file : {"torn", "header"}]

BayTypeOK ==
  /\ drv \in [Drives -> Disk]
  /\ chip \in [sel : Drives, bad : BOOLEAN]
  /\ store \in [DiskFiles -> Content]
  /\ tape \in Deck
  /\ snaps \in Seq(Snapshot)
  /\ mcfg \in [disk : [Drives -> Paths], ro : SUBSET Drives, tape : Tapes \cup {NoFile}]
  /\ up \in BOOLEAN
  /\ counts \in [w : 0 .. MaxSectors, s : Nat]
  /\ written \in [DiskFiles -> SUBSET Sectors]
  /\ risked \in [DiskFiles -> SUBSET Sectors]

\* A drive knows the file of its image and holds what the guest wrote to it; the
\* copies of one file in two drives differ in what is at risk.
Sure(f) == written[f] \ risked[f]
HeldInv ==
  /\ \A d \in Drives : /\ drv[d].path = drv[d].img
                       /\ drv[d].img # NoFile => Sure(drv[d].img) \subseteq drv[d].data
  /\ \A d, e \in Drives : drv[d].img = drv[e].img /\ drv[d].img # NoFile
                             => drv[d].data \ drv[e].data \subseteq risked[drv[d].img]
  /\ ~up => \A d \in Drives : drv[d].img = NoFile

\* What no dirty drive holds is in its file.
FiledInv ==
  \A f \in DiskFiles :
    /\ store[f].img = f
    /\ (\E d \in Drives : drv[d].img = f /\ drv[d].dirty) \/ Sure(f) \subseteq store[f].data

DeckInv ==
  /\ tape.buf = tape.path
  /\ tape.loaded <=> tape.path # NoFile
  /\ tape.loaded => tape.len = TapeSize[tape.path] /\ tape.offs <= tape.len

\* A snapshot names the media it was taken with.
Named(s) ==
  s.file = "whole" =>
  /\ \A d \in Drives : s.with.disk[d] = IF d \in DOMAIN s.disk THEN s.disk[d].img ELSE NoFile
  /\ s.tape.loaded <=> s.with.tape # NoFile
  /\ s.tape.loaded => s.tape.len = TapeSize[s.with.tape] /\ s.tape.offs <= s.tape.len
  /\ \A d, e \in DOMAIN s.disk : s.disk[d].img = s.disk[e].img
       => s.disk[d].data \ s.disk[e].data \subseteq risked[s.disk[d].img]
SnapInv == \A i \in 1 .. Len(snaps) : Named(snaps[i])

ChipInv == up => chip.bad = drv[chip.sel].bad

BayInv == BayTypeOK /\ HeldInv /\ FiledInv /\ DeckInv /\ SnapInv /\ ChipInv

LEMMA NoFileIs == NoFile \notin DiskFiles /\ NoFile \notin Tapes
BY MediaAssumption DEF NoFile, Tapes

LEMMA BayStart == BayInit => BayInv
<1> SUFFICES ASSUME BayInit PROVE BayInv OBVIOUS
<1> USE NoFileIs, MediaAssumption DEF BayInit, EmptyDrive, EmptyDeck
<1>1. BayTypeOK BY DEF BayTypeOK, Disk, Deck, Content, Paths, Sectors
<1>2. HeldInv BY DEF HeldInv
<1>3. FiledInv BY DEF FiledInv, Sure
<1>4. DeckInv BY DEF DeckInv
<1>5. SnapInv BY DEF SnapInv
<1>6. ChipInv BY DEF ChipInv
<1> QED BY <1>1, <1>2, <1>3, <1>4, <1>5, <1>6 DEF BayInv

\* What a snapshot says stays true when more is at risk.
LEMMA SnapsStay ==
  ASSUME snaps \in Seq(Snapshot), SnapInv, snaps' = snaps,
         \A f \in DiskFiles : risked[f] \subseteq risked'[f]
  PROVE  SnapInv'
<1> SUFFICES ASSUME NEW i \in 1 .. Len(snaps) PROVE Named(snaps[i])' BY DEF SnapInv
<1>1. snaps[i] \in Snapshot /\ Named(snaps[i]) BY DEF SnapInv
<1> DEFINE s == snaps[i]
<1> HIDE DEF s
<1>2. s = snaps[i] BY DEF s
<1>3. s \in Snapshot /\ Named(s) BY <1>1, <1>2
<1>4. s.file = "whole" => s \in Whole BY <1>3 DEF Snapshot
<1>5. ASSUME s.file = "whole", NEW d \in DOMAIN s.disk PROVE s.disk[d].img \in DiskFiles
  <2>1. PICK D \in SUBSET Drives : s.disk \in [D -> Content] BY <1>4, <1>5 DEF Whole
  <2> QED BY <1>5, <2>1 DEF Content
<1>6. ASSUME s.file = "whole", NEW d \in DOMAIN s.disk, NEW e \in DOMAIN s.disk,
             s.disk[d].img = s.disk[e].img
      PROVE  s.disk[d].data \ s.disk[e].data \subseteq risked'[s.disk[d].img]
  BY <1>3, <1>5, <1>6 DEF Named
<1> QED BY <1>2, <1>3, <1>6 DEF Named

\* What is kept when only the machine's use of the media moves on.
LEMMA StillStep ==
  ASSUME BayInv, UNCHANGED <<drv, store, snaps, mcfg, written, risked>>,
         UNCHANGED up, counts' \in [w : 0 .. MaxSectors, s : Nat],
         chip' \in [sel : Drives, bad : BOOLEAN], chip'.bad = drv[chip'.sel].bad \/ UNCHANGED chip,
         tape' \in Deck, DeckInv'
  PROVE BayInv'
<1>1. BayTypeOK' BY DEF BayInv, BayTypeOK
<1>2. HeldInv' BY DEF BayInv, HeldInv, Sure
<1>3. FiledInv' BY DEF BayInv, FiledInv, Sure
<1>5. SnapInv' BY SnapsStay DEF BayInv, BayTypeOK
<1>6. ChipInv' BY DEF BayInv, ChipInv
<1> QED BY <1>1, <1>2, <1>3, <1>5, <1>6 DEF BayInv

\* A drive that takes another disk.
LEMMA Replaced ==
  ASSUME drv \in [Drives -> Disk], NEW d \in Drives, NEW x \in Disk,
         drv' = [drv EXCEPT ![d] = x]
  PROVE  /\ drv' \in [Drives -> Disk]
         /\ drv'[d] = x
         /\ \A e \in Drives \ {d} : drv'[e] = drv[e]
OBVIOUS

LEMMA GuestWriteStep ==
  ASSUME BayInv, NEW d \in Drives, NEW f \in DiskFiles, NEW w \in Sectors,
         NEW x \in Disk, f = drv[d].img,
         x.img = f, x.path = drv[d].path, x.bad = drv[d].bad,
         x.data = drv[d].data \cup {w}, x.dirty,
         drv' = [drv EXCEPT ![d] = x],
         written' = [written EXCEPT ![f] = @ \cup {w}],
         risked' = risked \/ risked' = [risked EXCEPT ![f] = @ \cup {w}],
         (\E e \in Drives \ {d} : drv[e].img = f) => w \in risked'[f],
         counts' \in [w : 0 .. MaxSectors, s : Nat],
         UNCHANGED <<chip, store, tape, snaps, mcfg, up>>, up
  PROVE  BayInv'
<1>0. BayTypeOK /\ HeldInv /\ FiledInv /\ DeckInv /\ SnapInv /\ ChipInv BY DEF BayInv
<1>1. /\ drv' \in [Drives -> Disk]
      /\ drv'[d] = x
      /\ \A e \in Drives \ {d} : drv'[e] = drv[e]
  BY <1>0, Replaced DEF BayTypeOK
<1>2. /\ written \in [DiskFiles -> SUBSET Sectors]
      /\ risked \in [DiskFiles -> SUBSET Sectors]
  BY <1>0 DEF BayTypeOK
<1>3. /\ written' \in [DiskFiles -> SUBSET Sectors]
      /\ risked' \in [DiskFiles -> SUBSET Sectors]
  BY <1>2
<1>4. \A e \in Drives : /\ drv'[e].img = drv[e].img /\ drv'[e].path = drv[e].path
                        /\ drv'[e].bad = drv[e].bad /\ drv[e].data \subseteq drv'[e].data
                        /\ drv[e].dirty => drv'[e].dirty
  BY <1>1
<1>5. \A g \in DiskFiles \ {f} : written'[g] = written[g] /\ risked'[g] = risked[g]
  BY <1>2
<1>6. written'[f] = written[f] \cup {w} /\ risked[f] \subseteq risked'[f] BY <1>2
<1>6a. \A g \in DiskFiles : risked[g] \subseteq risked'[g] BY <1>5, <1>6
<1>7. BayTypeOK' BY <1>0, <1>1, <1>3 DEF BayTypeOK
<1>8. HeldInv'
  <2>2. \A e \in Drives : drv[e].img \in Paths BY <1>0 DEF BayTypeOK, Disk
  <2>3. ASSUME NEW e \in Drives, drv[e].img # NoFile
        PROVE  written'[drv[e].img] \ risked'[drv[e].img] \subseteq drv'[e].data
    <3>1. drv[e].img \in DiskFiles BY <2>2, <2>3 DEF Paths
    <3>2. written[drv[e].img] \ risked[drv[e].img] \subseteq drv[e].data
      BY <1>0, <2>3 DEF HeldInv, Sure
    <3>3. CASE e = d BY <1>1, <1>6, <3>2, <3>3
    <3>4. CASE e # d /\ drv[e].img = f
      <4>1. w \in risked'[f] BY <3>4
      <4> QED BY <1>1, <1>6, <3>2, <3>4, <4>1
    <3>5. CASE e # d /\ drv[e].img # f
      BY <1>1, <1>5, <3>1, <3>2, <3>5
    <3> QED BY <3>3, <3>4, <3>5
  <2>4. ASSUME NEW a \in Drives, NEW e \in Drives, drv[a].img = drv[e].img,
               drv[a].img # NoFile
        PROVE  drv'[a].data \ drv'[e].data \subseteq risked'[drv[a].img]
    <3>1. drv[a].img \in DiskFiles BY <2>2, <2>4 DEF Paths
    <3>2. drv[a].data \ drv[e].data \subseteq risked[drv[a].img] BY <1>0, <2>4 DEF HeldInv
    <3>3. risked[drv[a].img] \subseteq risked'[drv[a].img] BY <1>6a, <3>1
    <3>4. CASE a # d BY <1>1, <1>4, <3>2, <3>3, <3>4
    <3>5. CASE a = d /\ e = d BY <1>1, <3>5
    <3>6. CASE a = d /\ e # d
      <4>1. w \in risked'[f] BY <2>4, <3>6
      <4>2. drv'[a].data = drv[a].data \cup {w} /\ drv'[e].data = drv[e].data BY <1>1, <3>6
      <4> QED BY <3>2, <3>3, <3>6, <4>1, <4>2
    <3> QED BY <3>4, <3>5, <3>6
  <2>5. \A a \in Drives : drv[a].path = drv[a].img BY <1>0 DEF HeldInv
  <2> QED BY <1>4, <2>3, <2>4, <2>5 DEF HeldInv, Sure
<1>9. FiledInv'
  <2> SUFFICES ASSUME NEW g \in DiskFiles
        PROVE /\ store[g].img = g
              /\ (\E e \in Drives : drv'[e].img = g /\ drv'[e].dirty)
                   \/ written'[g] \ risked'[g] \subseteq store[g].data
    BY DEF FiledInv, Sure
  <2>1. store[g].img = g BY <1>0 DEF FiledInv
  <2>2. CASE g = f BY <1>1, <2>1, <2>2
  <2>3. CASE g # f
    <3>1. written'[g] = written[g] /\ risked'[g] = risked[g] BY <1>5, <2>3
    <3>2. (\E e \in Drives : drv[e].img = g /\ drv[e].dirty)
            \/ written[g] \ risked[g] \subseteq store[g].data
      BY <1>0 DEF FiledInv, Sure
    <3> QED BY <1>4, <2>1, <3>1, <3>2
  <2> QED BY <2>2, <2>3
<1>10. DeckInv' /\ SnapInv'
  <2>1. SnapInv' BY <1>0, <1>6a, SnapsStay DEF BayTypeOK
  <2> QED BY <1>0, <2>1 DEF DeckInv
<1>11. ChipInv' BY <1>0, <1>4 DEF ChipInv, BayTypeOK
<1> QED BY <1>7, <1>8, <1>9, <1>10, <1>11 DEF BayInv

LEMMA GuestWrites == BayInv /\ GuestWrite => BayInv'
<1> SUFFICES ASSUME BayInv, GuestWrite PROVE BayInv' OBVIOUS
<1>0. BayTypeOK BY DEF BayInv
<1>1. /\ chip.sel \in Drives /\ drv[chip.sel] \in Disk /\ counts.w \in 0 .. MaxSectors
      /\ counts \in [w : 0 .. MaxSectors, s : Nat] /\ MaxSectors \in Nat
      /\ drv \in [Drives -> Disk]
  BY <1>0, MediaAssumption DEF BayTypeOK
<1>2. counts.w < MaxSectors /\ drv[chip.sel].img # NoFile /\ up BY DEF GuestWrite
<1>3. counts.w + 1 \in Sectors BY <1>1, <1>2 DEF Sectors
<1>4. drv[chip.sel].img \in DiskFiles BY <1>1, <1>2 DEF Disk, Paths
<1>5. counts' = [counts EXCEPT !.w = counts.w + 1] BY DEF GuestWrite
<1>6. counts' \in [w : 0 .. MaxSectors, s : Nat] BY <1>1, <1>3, <1>5 DEF Sectors
<1>3a. PICK x : x = [[drv[chip.sel] EXCEPT !.data = @ \cup {counts.w + 1}] EXCEPT !.dirty = TRUE]
  OBVIOUS
<1>7. drv' = [drv EXCEPT ![chip.sel] = x] BY <1>1, <1>3a DEF GuestWrite
<1>8. /\ x \in Disk /\ x.img = drv[chip.sel].img /\ x.path = drv[chip.sel].path
      /\ x.bad = drv[chip.sel].bad
      /\ x.data = drv[chip.sel].data \cup {counts.w + 1} /\ x.dirty
  BY <1>1, <1>3, <1>3a DEF Disk
<1>9. /\ written' = [written EXCEPT ![drv[chip.sel].img] = @ \cup {counts.w + 1}]
      /\ UNCHANGED <<chip, store, tape, snaps, mcfg, up>>
  BY DEF GuestWrite
<1>10. /\ risked' = IF Twins(chip.sel, drv[chip.sel].path) = {} THEN risked
                    ELSE [risked EXCEPT ![drv[chip.sel].img] = @ \cup {counts.w + 1}]
       /\ risked \in [DiskFiles -> SUBSET Sectors]
  BY <1>0 DEF GuestWrite, BayTypeOK
<1>11. \A e \in Drives : drv[e].path = drv[e].img BY DEF BayInv, HeldInv
<1>12. (\E e \in Drives \ {chip.sel} : drv[e].img = drv[chip.sel].img)
         => counts.w + 1 \in risked'[drv[chip.sel].img]
  BY <1>1, <1>4, <1>10, <1>11 DEF Twins
<1>13. risked' = risked
         \/ risked' = [risked EXCEPT ![drv[chip.sel].img] = @ \cup {counts.w + 1}]
  BY <1>10
<1> QED BY <1>1, <1>2, <1>3, <1>4, <1>6, <1>7, <1>8, <1>9, <1>12, <1>13, GuestWriteStep

LEMMA GuestStep == BayInv /\ (GuestSelect \/ GuestTape \/ TapeRewind) => BayInv'
<1> SUFFICES ASSUME BayInv, GuestSelect \/ GuestTape \/ TapeRewind PROVE BayInv' OBVIOUS
<1>0. BayTypeOK /\ DeckInv BY DEF BayInv
<1>1. CASE GuestSelect
  <2>1. chip' \in [sel : Drives, bad : BOOLEAN] /\ chip'.bad = drv[chip'.sel].bad
    BY <1>0, <1>1 DEF GuestSelect, BayTypeOK, Disk
  <2>2. DeckInv' BY <1>0, <1>1 DEF GuestSelect, DeckInv
  <2> QED BY <1>0, <1>1, <2>1, <2>2, StillStep DEF GuestSelect, BayTypeOK
<1>2. CASE GuestTape
  <2>1. tape \in Deck /\ tape' = [tape EXCEPT !.offs = @ + 1] /\ tape.offs < tape.len
    BY <1>0, <1>2 DEF GuestTape, BayTypeOK
  <2>2. /\ tape' \in Deck /\ tape'.loaded = tape.loaded /\ tape'.buf = tape.buf
        /\ tape'.len = tape.len /\ tape'.path = tape.path /\ tape'.offs = tape.offs + 1
        /\ tape.len \in Nat /\ tape.offs \in Nat
    BY <2>1 DEF Deck
  <2>3. DeckInv' BY <1>0, <2>1, <2>2 DEF DeckInv
  <2> QED BY <1>0, <1>2, <2>2, <2>3, StillStep DEF GuestTape, BayTypeOK
<1>3. CASE TapeRewind
  <2>1. tape \in Deck /\ tape.loaded /\ tape' = [tape EXCEPT !.offs = 0]
    BY <1>0, <1>3 DEF TapeRewind, BayTypeOK
  <2>2. /\ tape' \in Deck /\ tape'.loaded /\ tape'.buf = tape.buf /\ tape'.len = tape.len
        /\ tape'.path = tape.path /\ tape'.offs = 0 /\ 0 <= tape.len
    BY <2>1 DEF Deck
  <2>3. DeckInv' BY <1>0, <2>1, <2>2 DEF DeckInv
  <2> QED BY <1>0, <1>3, <2>2, <2>3, StillStep DEF TapeRewind, BayTypeOK
<1> QED BY <1>1, <1>2, <1>3

\* What is at risk after a swap: what a failed save left out of the file, and
\* what differs from the copy of another drive.
Riskier(d, x) ==
  /\ risked' \in [DiskFiles -> SUBSET Sectors]
  /\ \A g \in DiskFiles : risked[g] \subseteq risked'[g]
  /\ \A e \in Drives \ {d} : drv[e].path = x.path /\ x.path # NoFile =>
       /\ drv[e].data \ x.data \subseteq risked'[x.path]
       /\ x.data \ drv[e].data \subseteq risked'[x.path]

\* The file of the old disk after the swap.
Filed(d) ==
  /\ store' \in [DiskFiles -> Content]
  /\ \A g \in DiskFiles :
       /\ store'[g].img = g
       /\ ~(drv[d].dirty /\ g = drv[d].img) => store'[g] = store[g]
       /\ drv[d].dirty /\ g = drv[d].img
            => drv[d].data \subseteq store'[g].data
               \/ written[g] \ store'[g].data \subseteq risked'[g]

LEMMA SwapRisk ==
  ASSUME BayTypeOK, HeldInv, FiledInv, NEW d \in Drives, NEW x \in Disk, Swap(d, x)
  PROVE  Riskier(d, x) /\ Filed(d)
<1>1. PICK how \in Ends :
        /\ store' = media_disk_writeback(store, drv[d], how)
        /\ risked' = [f \in DiskFiles |->
                risked[f] \cup GivenUp(f, drv[d], how)
                          \cup IF f = x.path THEN Differ(d, x) ELSE {}]
  BY DEF Swap
<1>2. /\ drv \in [Drives -> Disk] /\ store \in [DiskFiles -> Content]
      /\ written \in [DiskFiles -> SUBSET Sectors]
      /\ risked \in [DiskFiles -> SUBSET Sectors]
  BY DEF BayTypeOK
<1>3. drv[d] \in Disk /\ drv[d].path = drv[d].img BY <1>2 DEF HeldInv
<1>4. \A g \in DiskFiles : GivenUp(g, drv[d], how) \subseteq written[g] BY DEF GivenUp
<1>5. Differ(d, x) \in SUBSET Sectors
  <2>1. \A e \in Drives : drv[e].data \in SUBSET Sectors BY <1>2 DEF Disk
  <2>2. x.data \in SUBSET Sectors BY DEF Disk
  <2> QED BY <2>1, <2>2 DEF Differ, Twins
<1>6. \A g \in DiskFiles :
        /\ risked'[g] = risked[g] \cup GivenUp(g, drv[d], how)
                          \cup IF g = x.path THEN Differ(d, x) ELSE {}
        /\ risked'[g] \in SUBSET Sectors
  BY <1>1, <1>2, <1>4, <1>5
<1>7. risked' \in [DiskFiles -> SUBSET Sectors] BY <1>1, <1>6
<1>8. ASSUME NEW e \in Drives \ {d}, drv[e].path = x.path, x.path # NoFile
      PROVE  /\ drv[e].data \ x.data \subseteq risked'[x.path]
             /\ x.data \ drv[e].data \subseteq risked'[x.path]
  <2>1. x.path \in DiskFiles BY <1>8 DEF Disk, Paths
  <2>2. e \in Twins(d, x.path) BY <1>8 DEF Twins
  <2>3. (drv[e].data \ x.data) \cup (x.data \ drv[e].data) \subseteq Differ(d, x)
    BY <1>8, <2>2 DEF Differ
  <2> QED BY <1>6, <2>1, <2>3
<1>9. Riskier(d, x) BY <1>6, <1>7, <1>8 DEF Riskier
<1>10. Unsaved(drv[d]) => drv[d].img \in DiskFiles /\ Saved(drv[d], how) \in Content
  BY <1>3 DEF Unsaved, Saved, Content, Disk, Paths
<1>11. /\ store' \in [DiskFiles -> Content]
       /\ \A g \in DiskFiles :
            store'[g] = IF Unsaved(drv[d]) /\ how # "refused" /\ g = drv[d].img
                        THEN Saved(drv[d], how) ELSE store[g]
  BY <1>1, <1>2, <1>3, <1>10 DEF media_disk_writeback
<1>12. ASSUME NEW g \in DiskFiles
       PROVE  /\ store'[g].img = g
              /\ ~(drv[d].dirty /\ g = drv[d].img) => store'[g] = store[g]
              /\ drv[d].dirty /\ g = drv[d].img
                   => drv[d].data \subseteq store'[g].data
                      \/ written[g] \ store'[g].data \subseteq risked'[g]
  <2>1. store[g].img = g BY DEF FiledInv
  <2>2. store'[g].img = g BY <1>11, <2>1 DEF Saved
  <2>3. ~(drv[d].dirty /\ g = drv[d].img) => store'[g] = store[g] BY <1>11 DEF Unsaved
  <2>4. ASSUME drv[d].dirty, g = drv[d].img
        PROVE  drv[d].data \subseteq store'[g].data
               \/ written[g] \ store'[g].data \subseteq risked'[g]
    <3>1. Unsaved(drv[d]) /\ drv[d].path = g BY <1>3, <2>4, NoFileIs DEF Unsaved
    <3>2. CASE how = "saved" BY <1>11, <2>4, <3>1, <3>2 DEF Saved
    <3>3. CASE how # "saved"
      <4>1. GivenUp(g, drv[d], how) = written[g] \ store'[g].data BY <3>1, <3>3 DEF GivenUp
      <4> QED BY <1>6, <4>1
    <3> QED BY <3>2, <3>3
  <2> QED BY <2>2, <2>3, <2>4
<1> QED BY <1>9, <1>11, <1>12 DEF Filed

\* The disk of a drive is replaced: the old one is written back to its file.
LEMMA SwapStep ==
  ASSUME BayInv, up, NEW d \in Drives, NEW x \in Disk,
         Swap(d, x), ~x.bad, x.path = x.img,
         x.img # NoFile => \/ \E e \in Drives \ {d} : drv[e].path = x.path
                           \/ Sure(x.img) \subseteq x.data
  PROVE  BayInv'
<1>0. BayTypeOK /\ HeldInv /\ FiledInv /\ DeckInv /\ SnapInv /\ ChipInv BY DEF BayInv
<1>1. /\ drv' = [drv EXCEPT ![d] = x]
      /\ chip' = IF d = chip.sel THEN [chip EXCEPT !.bad = FALSE] ELSE chip
      /\ counts' = [counts EXCEPT !.s = @ + 1]
      /\ UNCHANGED <<tape, snaps, mcfg, up, written>>
  BY DEF Swap, Spend, Wire
<1>2. /\ drv' \in [Drives -> Disk]
      /\ drv'[d] = x
      /\ \A e \in Drives \ {d} : drv'[e] = drv[e]
  BY <1>0, <1>1, Replaced DEF BayTypeOK
<1>3. drv[d] \in Disk /\ drv[d].path = drv[d].img BY <1>0 DEF BayTypeOK, HeldInv
<1>4. Riskier(d, x) /\ Filed(d) BY <1>0, SwapRisk
<1>5. chip' \in [sel : Drives, bad : BOOLEAN] BY <1>0, <1>1 DEF BayTypeOK
<1>6. counts' \in [w : 0 .. MaxSectors, s : Nat] BY <1>0, <1>1 DEF BayTypeOK
<1>7. BayTypeOK' BY <1>0, <1>1, <1>2, <1>4, <1>5, <1>6 DEF BayTypeOK, Riskier, Filed
<1>8. \A e \in Drives : drv[e].img \in Paths /\ drv'[e].img \in Paths
  BY <1>0, <1>2 DEF BayTypeOK, Disk
<1>9. HeldInv'
  <2>1. \A e \in Drives : drv'[e].path = drv'[e].img BY <1>0, <1>2 DEF HeldInv
  <2>2. ASSUME NEW e \in Drives, drv'[e].img # NoFile
        PROVE  written[drv'[e].img] \ risked'[drv'[e].img] \subseteq drv'[e].data
    <3>0. drv'[e].img \in DiskFiles BY <1>8, <2>2 DEF Paths
    <3>1. risked[drv'[e].img] \subseteq risked'[drv'[e].img] BY <1>4, <3>0 DEF Riskier
    <3>2. CASE e # d
      <4>1. drv'[e] = drv[e] BY <1>2, <3>2
      <4>2. written[drv[e].img] \ risked[drv[e].img] \subseteq drv[e].data
        BY <1>0, <2>2, <4>1 DEF HeldInv, Sure
      <4> QED BY <3>1, <4>1, <4>2
    <3>3. CASE e = d /\ Sure(x.img) \subseteq x.data
      BY <1>2, <3>1, <3>3 DEF Sure
    <3>4. CASE e = d /\ \E a \in Drives \ {d} : drv[a].path = x.path
      <4>1. PICK a \in Drives \ {d} : drv[a].path = x.path BY <3>4
      <4>2. drv[a].img = x.img /\ x.img # NoFile BY <1>0, <1>2, <2>2, <3>4, <4>1 DEF HeldInv
      <4>3. written[x.img] \ risked[x.img] \subseteq drv[a].data BY <1>0, <4>2 DEF HeldInv, Sure
      <4>4. drv[a].data \ x.data \subseteq risked'[x.img] BY <1>4, <4>1, <4>2 DEF Riskier
      <4> QED BY <1>2, <3>1, <3>4, <4>3, <4>4
    <3> QED BY <1>2, <2>2, <3>2, <3>3, <3>4
  <2>3. ASSUME NEW a \in Drives, NEW e \in Drives, drv'[a].img = drv'[e].img,
               drv'[a].img # NoFile
        PROVE  drv'[a].data \ drv'[e].data \subseteq risked'[drv'[a].img]
    <3>0. drv'[a].img \in DiskFiles BY <1>8, <2>3 DEF Paths
    <3>1. risked[drv'[a].img] \subseteq risked'[drv'[a].img] BY <1>4, <3>0 DEF Riskier
    <3>2. CASE a # d /\ e # d
      <4>1. drv'[a] = drv[a] /\ drv'[e] = drv[e] BY <1>2, <3>2
      <4>2. drv[a].data \ drv[e].data \subseteq risked[drv[a].img]
        BY <1>0, <2>3, <4>1 DEF HeldInv
      <4> QED BY <3>1, <4>1, <4>2
    <3>3. CASE a = d /\ e = d BY <3>3
    <3>4. CASE a = d /\ e # d
      <4>1. drv'[a] = x /\ drv'[e] = drv[e] BY <1>2, <3>4
      <4>2. drv[e].path = x.path /\ x.path # NoFile BY <1>0, <2>3, <4>1 DEF HeldInv
      <4> QED BY <1>4, <3>4, <4>1, <4>2 DEF Riskier
    <3>5. CASE a # d /\ e = d
      <4>1. drv'[e] = x /\ drv'[a] = drv[a] BY <1>2, <3>5
      <4>2. drv[a].path = x.path /\ x.path # NoFile BY <1>0, <2>3, <4>1 DEF HeldInv
      <4> QED BY <1>4, <2>3, <3>5, <4>1, <4>2 DEF Riskier
    <3> QED BY <3>2, <3>3, <3>4, <3>5
  <2> QED BY <1>1, <2>1, <2>2, <2>3 DEF HeldInv, Sure
<1>10. FiledInv'
  <2> SUFFICES ASSUME NEW g \in DiskFiles
        PROVE /\ store'[g].img = g
              /\ (\E e \in Drives : drv'[e].img = g /\ drv'[e].dirty)
                   \/ written[g] \ risked'[g] \subseteq store'[g].data
    BY <1>1 DEF FiledInv, Sure
  <2>0. g # NoFile /\ store'[g].img = g /\ risked[g] \subseteq risked'[g]
    BY <1>4, NoFileIs DEF Filed, Riskier
  <2>1. (\E e \in Drives : drv[e].img = g /\ drv[e].dirty)
          \/ written[g] \ risked[g] \subseteq store[g].data
    BY <1>0 DEF FiledInv, Sure
  <2>2. CASE drv[d].dirty /\ g = drv[d].img
    <3>1. written[g] \ risked[g] \subseteq drv[d].data
      BY <1>0, <2>0, <2>2 DEF HeldInv, Sure
    <3>2. drv[d].data \subseteq store'[g].data
          \/ written[g] \ store'[g].data \subseteq risked'[g]
      BY <1>4, <2>2 DEF Filed
    <3> QED BY <2>0, <3>1, <3>2
  <2>3. CASE ~(drv[d].dirty /\ g = drv[d].img)
    <3>1. store'[g] = store[g] BY <1>4, <2>3 DEF Filed
    <3> QED BY <1>2, <2>0, <2>1, <2>3, <3>1
  <2> QED BY <2>2, <2>3
<1>11. DeckInv' /\ SnapInv'
  <2>1. SnapInv' BY <1>0, <1>1, <1>4, SnapsStay DEF BayTypeOK, Riskier
  <2> QED BY <1>0, <1>1, <2>1 DEF DeckInv
<1>12. ChipInv'
  <2>1. chip \in [sel : Drives, bad : BOOLEAN] /\ chip.bad = drv[chip.sel].bad
    BY <1>0 DEF ChipInv, BayTypeOK
  <2>2. CASE d = chip.sel
    <3>1. chip'.sel = d /\ chip'.bad = FALSE BY <1>1, <2>1, <2>2
    <3>2. x.bad = FALSE BY DEF Disk
    <3> QED BY <1>2, <3>1, <3>2 DEF ChipInv
  <2>3. CASE d # chip.sel
    <3>1. chip' = chip BY <1>1, <2>3
    <3> QED BY <1>2, <2>1, <2>3, <3>1 DEF ChipInv
  <2> QED BY <2>2, <2>3
<1> QED BY <1>7, <1>9, <1>10, <1>11, <1>12 DEF BayInv

LEMMA Emptied ==
  ASSUME NEW r \in BOOLEAN, NEW x, x = [EmptyDrive EXCEPT !.ro = r]
  PROVE  x \in Disk /\ x.img = NoFile /\ x.path = NoFile /\ ~x.bad /\ ~x.dirty
BY DEF EmptyDrive, Disk, Paths

LEMMA EjectStep ==
  ASSUME BayInv, up, NEW d \in Drives, media_disk_eject(d)
  PROVE  BayInv'
<1>1. drv[d].ro \in BOOLEAN BY DEF BayInv, BayTypeOK, Disk
<1>2. PICK x : x = [EmptyDrive EXCEPT !.ro = drv[d].ro] OBVIOUS
<1>3. x \in Disk /\ x.img = NoFile /\ x.path = NoFile /\ ~x.bad BY <1>1, <1>2, Emptied
<1>4. Swap(d, x) BY <1>2 DEF media_disk_eject
<1> QED BY <1>3, <1>4, SwapStep

LEMMA InsertStep ==
  ASSUME BayInv, up, ~Reinsert, NEW d \in Drives, NEW f \in DiskFiles,
         media_disk_insert(d, f)
  PROVE  BayInv'
<1>1. drv[d].ro \in BOOLEAN /\ store[f] \in Content BY DEF BayInv, BayTypeOK, Disk
<1>2. f \in Paths /\ store[f].data \in SUBSET Sectors /\ store[f].img \in Paths
  BY <1>1 DEF Content, Paths
<1>3. PICK x : x = [EmptyDrive EXCEPT !.img = store[f].img, !.data = store[f].data,
                                  !.path = f, !.ro = drv[d].ro]
  OBVIOUS
<1>4. x \in Disk /\ x.img = store[f].img /\ x.path = f /\ x.data = store[f].data /\ ~x.bad
  BY <1>1, <1>2, <1>3 DEF EmptyDrive, Disk
<1>5. Swap(d, x) BY <1>3 DEF media_disk_insert
<1>6. drv[d].path # f BY DEF media_disk_insert
<1>7. store[f].img = f BY DEF BayInv, FiledInv
<1>8. CASE \E e \in Drives \ {d} : drv[e].path = x.path
  BY <1>4, <1>5, <1>7, <1>8, SwapStep
<1>9. CASE ~ \E e \in Drives \ {d} : drv[e].path = x.path
  <2>1. \A e \in Drives : drv[e].img # f BY <1>4, <1>6, <1>9 DEF BayInv, HeldInv
  <2>2. Sure(f) \subseteq store[f].data BY <2>1 DEF BayInv, FiledInv
  <2> QED BY <1>4, <1>5, <1>7, <2>2, SwapStep
<1> QED BY <1>8, <1>9

\* A mark on a drive's disk: a bad sector, or the write protection.
LEMMA MarkStep ==
  ASSUME BayInv, up, NEW d \in Drives, NEW x \in Disk,
         x.img = drv[d].img, x.path = drv[d].path, x.data = drv[d].data, x.dirty = drv[d].dirty,
         drv' = [drv EXCEPT ![d] = x],
         chip' \in [sel : Drives, bad : BOOLEAN], chip'.sel = chip.sel,
         chip'.bad = IF d = chip.sel THEN x.bad ELSE chip.bad,
         counts' = [counts EXCEPT !.s = @ + 1],
         UNCHANGED <<store, tape, snaps, mcfg, up, written, risked>>
  PROVE  BayInv'
<1>0. BayTypeOK /\ HeldInv /\ FiledInv /\ DeckInv /\ SnapInv /\ ChipInv BY DEF BayInv
<1>1. /\ drv' \in [Drives -> Disk]
      /\ drv'[d] = x
      /\ \A e \in Drives \ {d} : drv'[e] = drv[e]
  BY <1>0, Replaced DEF BayTypeOK
<1>2. \A e \in Drives : /\ drv'[e].img = drv[e].img /\ drv'[e].path = drv[e].path
                        /\ drv'[e].data = drv[e].data /\ drv'[e].dirty = drv[e].dirty
  BY <1>1
<1>3. counts' \in [w : 0 .. MaxSectors, s : Nat] BY <1>0 DEF BayTypeOK
<1>4. BayTypeOK' BY <1>0, <1>1, <1>3 DEF BayTypeOK
<1>5. HeldInv' BY <1>0, <1>2 DEF HeldInv, Sure
<1>6. FiledInv' BY <1>0, <1>2 DEF FiledInv, Sure
<1>7. DeckInv' /\ SnapInv' BY <1>0, SnapsStay DEF DeckInv, BayTypeOK
<1>8. ChipInv'
  <2>1. chip.sel \in Drives /\ chip.bad = drv[chip.sel].bad BY <1>0 DEF ChipInv, BayTypeOK
  <2> QED BY <1>1, <2>1 DEF ChipInv
<1> QED BY <1>4, <1>5, <1>6, <1>7, <1>8 DEF BayInv

LEMMA BadSectorStep == BayInv /\ microdisc_add_bad_sector => BayInv'
<1> SUFFICES ASSUME BayInv, microdisc_add_bad_sector PROVE BayInv' OBVIOUS
<1>0. /\ drv \in [Drives -> Disk] /\ chip \in [sel : Drives, bad : BOOLEAN]
  BY DEF BayInv, BayTypeOK
<1>1. PICK d \in Drives :
        /\ drv' = [drv EXCEPT ![d].bad = TRUE]
        /\ chip' = IF d = chip.sel THEN [chip EXCEPT !.bad = TRUE] ELSE chip
  BY DEF microdisc_add_bad_sector
<1>2. /\ up /\ counts' = [counts EXCEPT !.s = @ + 1]
      /\ UNCHANGED <<store, tape, snaps, mcfg, up, written, risked>>
  BY DEF microdisc_add_bad_sector, Spend
<1>3. PICK x : x = [drv[d] EXCEPT !.bad = TRUE] OBVIOUS
<1>4. /\ x \in Disk /\ x.img = drv[d].img /\ x.path = drv[d].path /\ x.data = drv[d].data
      /\ x.dirty = drv[d].dirty /\ x.bad = TRUE
  BY <1>0, <1>3 DEF Disk
<1>5. drv' = [drv EXCEPT ![d] = x] BY <1>1, <1>3
<1>6. /\ chip' \in [sel : Drives, bad : BOOLEAN] /\ chip'.sel = chip.sel
      /\ chip'.bad = IF d = chip.sel THEN x.bad ELSE chip.bad
  BY <1>0, <1>1, <1>4
<1> QED BY <1>2, <1>4, <1>5, <1>6, MarkStep

LEMMA ProtectStep == BayInv /\ DiskProtect => BayInv'
<1> SUFFICES ASSUME BayInv, DiskProtect PROVE BayInv' OBVIOUS
<1>0. /\ drv \in [Drives -> Disk] /\ chip \in [sel : Drives, bad : BOOLEAN] /\ ChipInv
  BY DEF BayInv, BayTypeOK
<1>1. PICK d \in Drives : drv' = [drv EXCEPT ![d].ro = ~@]
  BY DEF DiskProtect
<1>2. /\ up /\ counts' = [counts EXCEPT !.s = @ + 1]
      /\ UNCHANGED <<chip, store, tape, snaps, mcfg, up, written, risked>>
  BY DEF DiskProtect, Spend
<1>3. PICK x : x = [drv[d] EXCEPT !.ro = ~@] OBVIOUS
<1>4. /\ x \in Disk /\ x.img = drv[d].img /\ x.path = drv[d].path /\ x.data = drv[d].data
      /\ x.dirty = drv[d].dirty /\ x.bad = drv[d].bad
  BY <1>0, <1>3 DEF Disk
<1>5. drv' = [drv EXCEPT ![d] = x] BY <1>1, <1>3
<1>6. /\ chip' \in [sel : Drives, bad : BOOLEAN] /\ chip'.sel = chip.sel
      /\ chip'.bad = IF d = chip.sel THEN x.bad ELSE chip.bad
  BY <1>0, <1>2, <1>4 DEF ChipInv
<1> QED BY <1>2, <1>4, <1>5, <1>6, MarkStep

LEMMA TapeStep == BayInv /\ browse_tape => BayInv'
<1> SUFFICES ASSUME BayInv, browse_tape PROVE BayInv' OBVIOUS
<1>0. BayTypeOK BY DEF BayInv
<1>1. counts' \in [w : 0 .. MaxSectors, s : Nat]
  BY <1>0 DEF browse_tape, Spend, BayTypeOK
<1>2. UNCHANGED <<drv, chip, store, snaps, mcfg, up, written, risked>> BY DEF browse_tape
<1>3. tape' \in Deck /\ DeckInv'
  <2>1. CASE media_tape_eject
    <3>1. tape' = EmptyDeck BY <2>1 DEF media_tape_eject
    <3>2. EmptyDeck \in Deck BY DEF EmptyDeck, Deck
    <3> QED BY <3>1, <3>2 DEF EmptyDeck, DeckInv
  <2>2. CASE \E t \in Tapes : media_tape_insert(t)
    <3>1. PICK t \in Tapes : tape' = [loaded |-> TRUE, buf |-> t, len |-> TapeSize[t],
                                     offs |-> 0, path |-> t]
      BY <2>2 DEF media_tape_insert
    <3>2. TapeSize[t] \in Nat BY MediaAssumption DEF Tapes
    <3>3. tape' \in Deck BY <3>1, <3>2 DEF Deck
    <3>4. t # NoFile BY NoFileIs
    <3> QED BY <3>1, <3>2, <3>3, <3>4 DEF DeckInv
  <2> QED BY <2>1, <2>2 DEF browse_tape
<1> QED BY <1>0, <1>1, <1>2, <1>3, StillStep DEF BayTypeOK

LEMMA MenuStep == BayInv /\ Still => BayInv'
<1> SUFFICES ASSUME BayInv, Still PROVE BayInv' OBVIOUS
<1> QED BY StillStep DEF Still, BayInv, BayTypeOK, DeckInv

LEMMA ConfigStep == BayInv /\ SaveMediaConfig => BayInv'
<1> SUFFICES ASSUME BayInv, SaveMediaConfig PROVE BayInv' OBVIOUS
<1>0. BayTypeOK /\ HeldInv /\ FiledInv /\ DeckInv /\ SnapInv /\ ChipInv BY DEF BayInv
<1>1. /\ mcfg' = [disk |-> [d \in Drives |->
                    IF drv[d].img # NoFile THEN drv[d].path ELSE NoFile],
                 ro |-> {d \in Drives : drv[d].ro},
                 tape |-> IF tape.loaded THEN tape.path ELSE NoFile]
      /\ counts' = [counts EXCEPT !.s = @ + 1]
      /\ UNCHANGED <<drv, chip, store, tape, snaps, up, written, risked>>
  BY DEF SaveMediaConfig, Spend
<1>2. drv \in [Drives -> Disk] /\ tape \in Deck BY <1>0 DEF BayTypeOK
<1>3. \A d \in Drives : drv[d].path \in Paths BY <1>2 DEF Disk
<1>4. tape.path \in Tapes \cup {NoFile} BY <1>2 DEF Deck
<1>5. mcfg' \in [disk : [Drives -> Paths], ro : SUBSET Drives, tape : Tapes \cup {NoFile}]
  BY <1>1, <1>3, <1>4 DEF Paths
<1>6. counts' \in [w : 0 .. MaxSectors, s : Nat] BY <1>0, <1>1 DEF BayTypeOK
<1>7. BayTypeOK' BY <1>0, <1>1, <1>5, <1>6 DEF BayTypeOK
<1>8. HeldInv' /\ FiledInv' BY <1>0, <1>1 DEF HeldInv, FiledInv, Sure
<1>9. DeckInv' /\ SnapInv' /\ ChipInv'
  BY <1>0, <1>1, SnapsStay DEF DeckInv, ChipInv, BayTypeOK
<1> QED BY <1>7, <1>8, <1>9 DEF BayInv

LEMMA SnapStep == BayInv /\ SnapshotSave => BayInv'
<1> SUFFICES ASSUME BayInv, SnapshotSave PROVE BayInv' OBVIOUS
<1>0. BayTypeOK /\ HeldInv /\ FiledInv /\ DeckInv /\ SnapInv /\ ChipInv BY DEF BayInv
<1>1. PICK t \in {savestate_save} \cup [file : {"torn", "header"}] : snaps' = Append(snaps, t)
  BY DEF SnapshotSave
<1>2. UNCHANGED <<drv, chip, store, tape, mcfg, up, counts, written, risked>>
  BY DEF SnapshotSave
<1>3. PICK s : s = savestate_save OBVIOUS
<1>4. drv \in [Drives -> Disk] /\ tape \in Deck /\ snaps \in Seq(Snapshot)
      /\ chip \in [sel : Drives, bad : BOOLEAN]
  BY <1>0 DEF BayTypeOK
<1>5. DEFINE D == {e \in Drives : drv[e].img # NoFile}
<1>6. /\ s.disk = [d \in D |-> [img |-> drv[d].img, data |-> drv[d].data]]
      /\ s.tape = [loaded |-> tape.loaded, len |-> tape.len, offs |-> tape.offs]
      /\ s.with = [disk |-> [d \in Drives |-> drv[d].path], tape |-> tape.path]
      /\ s.bad = [d \in Drives |-> drv[d].bad] /\ s.file = "whole" /\ s.sel = chip.sel
  BY <1>3 DEF savestate_save
<1>7. s = [file |-> s.file, sel |-> s.sel, disk |-> s.disk, bad |-> s.bad, tape |-> s.tape,
           with |-> s.with]
  BY <1>3 DEF savestate_save
<1>8. s \in Snapshot
  <2>1. \A d \in Drives : /\ drv[d].img \in Paths /\ drv[d].path \in Paths
                          /\ drv[d].data \in SUBSET Sectors /\ drv[d].bad \in BOOLEAN
    BY <1>4 DEF Disk
  <2>2. \A d \in D : [img |-> drv[d].img, data |-> drv[d].data] \in Content
    BY <2>1 DEF Content, Paths
  <2>3. s.disk \in [D -> Content] BY <1>6, <2>2
  <2>4. s.disk \in UNION {[E -> Content] : E \in SUBSET Drives} BY <2>3
  <2>5. s.bad \in [Drives -> BOOLEAN] BY <1>6, <2>1
  <2>6. s.tape \in [loaded : BOOLEAN, len : Nat, offs : Nat] BY <1>4, <1>6 DEF Deck
  <2>7. tape.path \in Tapes \cup {NoFile} BY <1>4 DEF Deck
  <2>8. s.with \in [disk : [Drives -> Paths], tape : Tapes \cup {NoFile}] BY <1>6, <2>1, <2>7
  <2>9. s.file \in {"whole"} /\ s.sel \in Drives BY <1>4, <1>6
  <2>10. s \in Whole BY <1>7, <2>4, <2>5, <2>6, <2>8, <2>9 DEF Whole
  <2> QED BY <2>10 DEF Snapshot
<1>9. Named(s)
  <2>1. DOMAIN s.disk = D BY <1>6
  <2>2. \A d \in Drives : s.with.disk[d] = drv[d].img BY <1>0, <1>6 DEF HeldInv
  <2>3. \A d \in D : s.disk[d].img = drv[d].img BY <1>6
  <2>4. \A d \in Drives : s.with.disk[d] = IF d \in DOMAIN s.disk THEN s.disk[d].img ELSE NoFile
    BY <2>1, <2>2, <2>3
  <2>5. /\ s.tape.loaded <=> s.with.tape # NoFile
        /\ s.tape.loaded => s.tape.len = TapeSize[s.with.tape] /\ s.tape.offs <= s.tape.len
    BY <1>0, <1>6 DEF DeckInv
  <2>6. ASSUME NEW a \in D, NEW e \in D, s.disk[a].img = s.disk[e].img
        PROVE  s.disk[a].data \ s.disk[e].data \subseteq risked[s.disk[a].img]
    <3>1. s.disk[a].data = drv[a].data /\ s.disk[e].data = drv[e].data BY <1>6
    <3>2. drv[a].img = drv[e].img /\ drv[a].img # NoFile BY <2>3, <2>6
    <3> QED BY <1>0, <2>3, <3>1, <3>2 DEF HeldInv
  <2>7. \A a, e \in DOMAIN s.disk : s.disk[a].img = s.disk[e].img
          => s.disk[a].data \ s.disk[e].data \subseteq risked[s.disk[a].img]
    BY <2>1, <2>6
  <2> QED BY <2>4, <2>5, <2>7 DEF Named
<1>9a. t \in Snapshot /\ Named(t) BY <1>1, <1>3, <1>8, <1>9 DEF Snapshot, Named
<1>10. snaps' \in Seq(Snapshot) BY <1>1, <1>4, <1>9a
<1>11. BayTypeOK' BY <1>0, <1>2, <1>10 DEF BayTypeOK
<1>12. SnapInv'
  <2>1. \A i \in 1 .. Len(snaps') : (i \in 1 .. Len(snaps) /\ snaps'[i] = snaps[i]) \/ snaps'[i] = t
    BY <1>1, <1>4
  <2>2. \A i \in 1 .. Len(snaps') : Named(snaps'[i]) BY <1>0, <1>9a, <2>1 DEF SnapInv
  <2> QED BY <1>2, <2>2 DEF SnapInv, Named
<1>13. HeldInv' /\ FiledInv' /\ DeckInv' /\ ChipInv'
  BY <1>0, <1>2 DEF HeldInv, FiledInv, DeckInv, ChipInv, Sure
<1> QED BY <1>11, <1>12, <1>13 DEF BayInv

\* Of the drives that save to one file one is the last.
LEMMA LastIs ==
  ASSUME NEW f, NEW how, Savers(f, how) # {}
  PROVE  LastSaver(f, how) \in Savers(f, how)
<1>1. Savers(f, how) \subseteq {"A", "B", "C", "D"} BY MediaAssumption DEF Savers
<1>2. \E d \in Savers(f, how) : \A e \in Savers(f, how) : Rank[e] <= Rank[d]
  <2>1. CASE "D" \in Savers(f, how) BY <1>1, <2>1 DEF Rank
  <2>2. CASE "D" \notin Savers(f, how) /\ "C" \in Savers(f, how) BY <1>1, <2>2 DEF Rank
  <2>3. CASE /\ "D" \notin Savers(f, how) /\ "C" \notin Savers(f, how)
             /\ "B" \in Savers(f, how)
    BY <1>1, <2>3 DEF Rank
  <2>4. CASE /\ "D" \notin Savers(f, how) /\ "C" \notin Savers(f, how)
             /\ "B" \notin Savers(f, how)
    BY <1>1, <2>4 DEF Rank
  <2> QED BY <2>1, <2>2, <2>3, <2>4
<1> QED BY <1>2 DEF LastSaver

LEMMA FinishStep == BayInv /\ main_finish => BayInv'
<1> SUFFICES ASSUME BayInv, main_finish PROVE BayInv' OBVIOUS
<1>0. BayTypeOK /\ HeldInv /\ FiledInv /\ DeckInv /\ SnapInv /\ ChipInv BY DEF BayInv
<1>1. /\ drv' = [d \in Drives |-> EmptyDrive] /\ tape' = EmptyDeck
      /\ up' = FALSE /\ counts' = [counts EXCEPT !.s = @ + 1]
      /\ UNCHANGED <<chip, snaps, mcfg, written>>
  BY DEF main_finish, Spend
<1>1a. PICK how \in [Drives -> Ends] :
         /\ store' = Finish(how)
         /\ risked' = [f \in DiskFiles |->
                risked[f] \cup UNION {GivenUp(f, drv[d], how[d]) : d \in Drives}]
  BY DEF main_finish
<1>2. /\ drv \in [Drives -> Disk] /\ store \in [DiskFiles -> Content]
      /\ written \in [DiskFiles -> SUBSET Sectors]
      /\ risked \in [DiskFiles -> SUBSET Sectors]
  BY <1>0 DEF BayTypeOK
<1>2a. ASSUME NEW g \in DiskFiles
       PROVE  /\ risked'[g] = risked[g] \cup UNION {GivenUp(g, drv[d], how[d]) : d \in Drives}
              /\ risked'[g] \in SUBSET Sectors
              /\ \A d \in Drives : GivenUp(g, drv[d], how[d]) \subseteq risked'[g]
  <2>1. \A d \in Drives : GivenUp(g, drv[d], how[d]) \subseteq written[g] BY DEF GivenUp
  <2>2. risked'[g] = risked[g] \cup UNION {GivenUp(g, drv[d], how[d]) : d \in Drives}
    BY <1>1a
  <2> QED BY <1>2, <2>1, <2>2
<1>2b. \A g \in DiskFiles : risked[g] \subseteq risked'[g] BY <1>2a
<1>3. ASSUME NEW g \in DiskFiles
      PROVE  /\ store'[g] \in Content /\ store'[g].img = g
             /\ written[g] \ risked'[g] \subseteq store'[g].data
  <2>0. g # NoFile BY NoFileIs
  <2>0a. store'[g] = IF Savers(g, how) = {} THEN store[g]
                     ELSE Saved(drv[LastSaver(g, how)], how[LastSaver(g, how)])
    BY <1>1a DEF Finish
  <2>1. CASE Savers(g, how) # {}
    <3>1. PICK d : d = LastSaver(g, how) OBVIOUS
    <3>2. d \in Drives /\ Unsaved(drv[d]) /\ drv[d].path = g /\ how[d] # "refused"
      BY <2>1, <3>1, LastIs DEF Savers
    <3>3. store'[g] = Saved(drv[d], how[d]) BY <2>0a, <2>1, <3>1
    <3>4. drv[d].img = g /\ Sure(g) \subseteq drv[d].data BY <1>0, <2>0, <3>2 DEF HeldInv
    <3>5. drv[d].data \in SUBSET Sectors BY <1>2, <3>2 DEF Disk
    <3>6. store'[g] \in Content /\ store'[g].img = g BY <3>3, <3>4, <3>5 DEF Content, Saved
    <3>7. CASE how[d] = "saved"
      <4>1. store'[g].data = drv[d].data BY <3>3, <3>7 DEF Saved
      <4> QED BY <1>2b, <3>4, <3>6, <4>1 DEF Sure
    <3>8. CASE how[d] # "saved"
      <4>1. GivenUp(g, drv[d], how[d]) = written[g] \ store'[g].data
        BY <3>2, <3>8 DEF GivenUp
      <4>2. GivenUp(g, drv[d], how[d]) \subseteq risked'[g] BY <1>2a, <3>2
      <4> QED BY <3>6, <4>1, <4>2
    <3> QED BY <3>7, <3>8
  <2>2. CASE Savers(g, how) = {}
    <3>1. store'[g] = store[g] BY <2>0a, <2>2
    <3>2. store'[g] \in Content /\ store'[g].img = g BY <1>0, <1>2, <3>1 DEF FiledInv
    <3>3. CASE \E d \in Drives : drv[d].img = g /\ drv[d].dirty
      <4>1. PICK d \in Drives : drv[d].img = g /\ drv[d].dirty BY <3>3
      <4>2. Unsaved(drv[d]) /\ drv[d].path = g BY <1>0, <2>0, <4>1 DEF HeldInv, Unsaved
      <4>3. how[d] = "refused" BY <2>2, <4>2 DEF Savers
      <4>4. GivenUp(g, drv[d], how[d]) = written[g] \ store'[g].data
        BY <4>2, <4>3 DEF GivenUp
      <4>5. GivenUp(g, drv[d], how[d]) \subseteq risked'[g] BY <1>2a
      <4> QED BY <3>2, <4>4, <4>5
    <3>4. CASE ~ \E d \in Drives : drv[d].img = g /\ drv[d].dirty
      <4>1. Sure(g) \subseteq store[g].data BY <1>0, <3>4 DEF FiledInv
      <4> QED BY <1>2b, <3>1, <3>2, <4>1 DEF Sure
    <3> QED BY <3>3, <3>4
  <2> QED BY <2>1, <2>2
<1>4. store' \in [DiskFiles -> Content] BY <1>1a, <1>3 DEF Finish
<1>4a. risked' \in [DiskFiles -> SUBSET Sectors] BY <1>1a, <1>2a
<1>5. EmptyDrive \in Disk BY DEF EmptyDrive, Disk, Paths
<1>6. EmptyDeck \in Deck BY DEF EmptyDeck, Deck
<1>7. counts' \in [w : 0 .. MaxSectors, s : Nat] BY <1>0, <1>1 DEF BayTypeOK
<1>8. BayTypeOK' BY <1>0, <1>1, <1>4, <1>4a, <1>5, <1>6, <1>7 DEF BayTypeOK
<1>9. HeldInv' BY <1>0, <1>1 DEF HeldInv, EmptyDrive
<1>10. FiledInv' BY <1>1, <1>3 DEF FiledInv, Sure
<1>11. DeckInv' BY <1>1 DEF DeckInv, EmptyDeck
<1>12. SnapInv' BY <1>0, <1>1, <1>2b, SnapsStay DEF BayTypeOK
<1>13. ChipInv' BY <1>1 DEF ChipInv
<1> QED BY <1>8, <1>9, <1>10, <1>11, <1>12, <1>13 DEF BayInv

LEMMA LaunchStep == BayInv /\ Launch => BayInv'
<1> SUFFICES ASSUME BayInv, Launch PROVE BayInv' OBVIOUS
<1>0. BayTypeOK /\ HeldInv /\ FiledInv /\ DeckInv /\ SnapInv /\ ChipInv BY DEF BayInv
<1> DEFINE Fit(d) ==
      LET f == mcfg.disk[d]
          ro == d \in mcfg.ro
      IN  IF f = NoFile THEN [EmptyDrive EXCEPT !.ro = ro]
          ELSE [EmptyDrive EXCEPT !.img = store[f].img, !.data = store[f].data,
                                  !.path = f, !.ro = ro]
<1>1. /\ ~up /\ up' = TRUE
      /\ drv' = [d \in Drives |-> Fit(d)]
      /\ chip' = [sel |-> "A", bad |-> FALSE]
      /\ tape' = IF mcfg.tape = NoFile THEN EmptyDeck
                 ELSE [loaded |-> TRUE, buf |-> mcfg.tape, len |-> TapeSize[mcfg.tape],
                       offs |-> 0, path |-> mcfg.tape]
      /\ UNCHANGED <<store, snaps, mcfg, counts, written, risked>>
  BY DEF Launch
<1>2. /\ store \in [DiskFiles -> Content]
      /\ mcfg.disk \in [Drives -> Paths] /\ mcfg.tape \in Tapes \cup {NoFile}
  BY <1>0 DEF BayTypeOK
<1>3. \A g \in DiskFiles : store[g].img = g /\ Sure(g) \subseteq store[g].data
  <2>1. \A d \in Drives : drv[d].img = NoFile BY <1>0, <1>1 DEF HeldInv
  <2>2. \A g \in DiskFiles : ~ \E d \in Drives : drv[d].img = g /\ drv[d].dirty
    BY <2>1, NoFileIs
  <2> QED BY <1>0, <2>2 DEF FiledInv
<1>4. ASSUME NEW d \in Drives
      PROVE  /\ Fit(d) \in Disk /\ Fit(d).img = mcfg.disk[d] /\ Fit(d).path = mcfg.disk[d]
             /\ ~Fit(d).bad /\ ~Fit(d).dirty
             /\ mcfg.disk[d] # NoFile => /\ Fit(d).data = store[mcfg.disk[d]].data
                                         /\ Sure(mcfg.disk[d]) \subseteq Fit(d).data
  <2>0. PICK r \in BOOLEAN : r = (d \in mcfg.ro)
    <3>1. (d \in mcfg.ro) \in BOOLEAN OBVIOUS
    <3> QED BY <3>1, Zenon
  <2>1. CASE mcfg.disk[d] = NoFile
    <3>1. PICK x : x = [EmptyDrive EXCEPT !.ro = r] OBVIOUS
    <3>2. x \in Disk /\ x.img = NoFile /\ x.path = NoFile /\ ~x.bad /\ ~x.dirty
      BY <2>0, <3>1 DEF EmptyDrive, Disk, Paths
    <3>3. Fit(d) = x BY <2>0, <2>1, <3>1
    <3> HIDE DEF Fit
    <3> QED BY <2>1, <3>2, <3>3
  <2>2. CASE mcfg.disk[d] # NoFile
    <3>0. mcfg.disk[d] \in DiskFiles /\ mcfg.disk[d] \in Paths BY <1>2, <2>2 DEF Paths
    <3>1. PICK x : x = [EmptyDrive EXCEPT !.img = store[mcfg.disk[d]].img,
                          !.data = store[mcfg.disk[d]].data,
                          !.path = mcfg.disk[d], !.ro = r]
      OBVIOUS
    <3>2. store[mcfg.disk[d]].img = mcfg.disk[d]
          /\ store[mcfg.disk[d]].data \in SUBSET Sectors
      BY <1>2, <1>3, <3>0 DEF Content
    <3>3. /\ x \in Disk /\ x.img = mcfg.disk[d] /\ x.path = mcfg.disk[d] /\ ~x.bad /\ ~x.dirty
          /\ x.data = store[mcfg.disk[d]].data
      BY <2>0, <3>0, <3>1, <3>2 DEF EmptyDrive, Disk
    <3>4. Fit(d) = x BY <2>0, <2>2, <3>1
    <3> HIDE DEF Fit
    <3> QED BY <1>3, <3>0, <3>3, <3>4
  <2> QED BY <2>1, <2>2
<1> HIDE DEF Fit
<1>5. drv' \in [Drives -> Disk] /\ \A d \in Drives : drv'[d] = Fit(d) BY <1>1, <1>4
<1>6. tape' \in Deck /\ DeckInv'
  <2>1. CASE mcfg.tape = NoFile
    <3>1. tape' = EmptyDeck BY <1>1, <2>1
    <3>2. EmptyDeck \in Deck BY DEF EmptyDeck, Deck
    <3> QED BY <3>1, <3>2 DEF EmptyDeck, DeckInv
  <2>2. CASE mcfg.tape # NoFile
    <3>1. tape' = [loaded |-> TRUE, buf |-> mcfg.tape, len |-> TapeSize[mcfg.tape],
                   offs |-> 0, path |-> mcfg.tape]
      BY <1>1, <2>2
    <3>2. mcfg.tape \in Tapes BY <1>2, <2>2
    <3>3. TapeSize[mcfg.tape] \in Nat BY <3>2, MediaAssumption DEF Tapes
    <3>4. tape' \in Deck BY <3>1, <3>2, <3>3 DEF Deck
    <3> QED BY <2>2, <3>1, <3>3, <3>4 DEF DeckInv
  <2> QED BY <2>1, <2>2
<1>7. chip' \in [sel : Drives, bad : BOOLEAN] /\ chip'.sel = "A" /\ chip'.bad = FALSE
  BY <1>1, MediaAssumption
<1>8. BayTypeOK' BY <1>0, <1>1, <1>5, <1>6, <1>7 DEF BayTypeOK
<1>9. HeldInv' BY <1>1, <1>4, <1>5 DEF HeldInv, Sure
<1>10. FiledInv' BY <1>1, <1>3 DEF FiledInv, Sure
<1>11. SnapInv' BY <1>0, <1>1, SnapsStay DEF BayTypeOK
<1>12. ChipInv'
  <2>1. "A" \in Drives BY MediaAssumption
  <2>2. Fit("A").bad \in BOOLEAN /\ ~Fit("A").bad BY <1>4, <2>1 DEF Disk
  <2> QED BY <1>5, <1>7, <2>1, <2>2 DEF ChipInv
<1> QED BY <1>6, <1>8, <1>9, <1>10, <1>11, <1>12 DEF BayInv

LEMMA HeldAfter ==
  ASSUME \A d \in Drives : /\ drv'[d].path = drv'[d].img
                           /\ drv'[d].img # NoFile
                                => written'[drv'[d].img] \ risked'[drv'[d].img] \subseteq drv'[d].data,
         \A d, e \in Drives : drv'[d].img = drv'[e].img /\ drv'[d].img # NoFile
                             => drv'[d].data \ drv'[e].data \subseteq risked'[drv'[d].img],
         up'
  PROVE  HeldInv'
BY DEF HeldInv, Sure

\* A snapshot is loaded over the media it was taken with.
LEMMA LoadStep ==
  ASSUME BayInv, up, NEW s \in Whole, Named(s), SameMedia(s),
         drv' = LoadDisks(s),
         chip' = LoadFdc(s),
         tape' = [tape EXCEPT !.loaded = s.tape.loaded, !.len = s.tape.len,
                              !.offs = s.tape.offs],
         written' = [f \in DiskFiles |->
                 IF \E d \in Drives : f \in {drv[d].img, drv'[d].img}
                 THEN written[f] \cap UNION {drv'[d].data : d \in
                                              {e \in Drives : drv'[e].img = f}}
                 ELSE written[f]],
         UNCHANGED <<store, snaps, mcfg, up, counts, risked>>
  PROVE  BayInv'
<1>0. BayTypeOK /\ HeldInv /\ FiledInv /\ DeckInv /\ SnapInv /\ ChipInv BY DEF BayInv
<1>1. /\ drv \in [Drives -> Disk] /\ tape \in Deck
      /\ written \in [DiskFiles -> SUBSET Sectors]
  BY <1>0 DEF BayTypeOK
<1>2. /\ s.disk \in UNION {[D -> Content] : D \in SUBSET Drives}
      /\ s.bad \in [Drives -> BOOLEAN] /\ s.sel \in Drives
      /\ s.tape \in [loaded : BOOLEAN, len : Nat, offs : Nat]
      /\ s.file = "whole"
  BY DEF Whole
<1>3. PICK D \in SUBSET Drives : s.disk \in [D -> Content] BY <1>2
<1>4. \A d \in Drives : /\ d \in DOMAIN s.disk => s.disk[d].img = drv[d].img
                        /\ d \notin DOMAIN s.disk => drv[d].img = NoFile
  BY <1>0, <1>2 DEF Named, SameMedia, HeldInv
<1>5. ASSUME NEW d \in Drives
      PROVE  /\ drv'[d] \in Disk
             /\ drv'[d].img = drv[d].img /\ drv'[d].path = drv[d].path
             /\ drv'[d].dirty = drv[d].dirty /\ drv'[d].bad = s.bad[d]
  <2>0. drv[d] \in Disk /\ s.bad[d] \in BOOLEAN BY <1>1, <1>2
  <2>1. CASE d \in DOMAIN s.disk
    <3>1. drv'[d] = [drv[d] EXCEPT !.img = s.disk[d].img, !.data = s.disk[d].data,
                                   !.bad = s.bad[d]]
      BY <2>1 DEF LoadDisks
    <3>2. s.disk[d].data \in SUBSET Sectors /\ s.disk[d].img = drv[d].img
      BY <1>3, <1>4, <2>1 DEF Content
    <3>3. PICK x : x = [drv[d] EXCEPT !.img = s.disk[d].img, !.data = s.disk[d].data,
                                   !.bad = s.bad[d]]
      OBVIOUS
    <3>4. x \in Disk /\ x.img = drv[d].img /\ x.path = drv[d].path
          /\ x.dirty = drv[d].dirty /\ x.bad = s.bad[d]
      BY <2>0, <3>2, <3>3 DEF Disk
    <3> QED BY <3>1, <3>3, <3>4
  <2>2. CASE d \notin DOMAIN s.disk
    <3>1. drv'[d] = [drv[d] EXCEPT !.bad = s.bad[d]] BY <2>2 DEF LoadDisks
    <3>2. PICK x : x = [drv[d] EXCEPT !.bad = s.bad[d]] OBVIOUS
    <3>3. x \in Disk /\ x.img = drv[d].img /\ x.path = drv[d].path
          /\ x.dirty = drv[d].dirty /\ x.bad = s.bad[d]
      BY <2>0, <3>2 DEF Disk
    <3> QED BY <3>1, <3>2, <3>3
  <2> QED BY <2>1, <2>2
<1>6. drv' \in [Drives -> Disk] BY <1>5 DEF LoadDisks
<1>6a. ASSUME NEW a \in Drives, NEW e \in Drives, drv'[a].img = drv'[e].img,
              drv'[a].img # NoFile
       PROVE  drv'[a].data \ drv'[e].data \subseteq risked[drv'[a].img]
  <2>1. /\ a \in DOMAIN s.disk /\ e \in DOMAIN s.disk
        /\ s.disk[a].img = drv'[a].img /\ s.disk[e].img = drv'[a].img
    BY <1>4, <1>5, <1>6a
  <2>2. s.disk[a].data \ s.disk[e].data \subseteq risked[drv'[a].img]
    BY <1>2, <2>1 DEF Named
  <2>3. ASSUME NEW d \in Drives, d \in DOMAIN s.disk PROVE drv'[d].data = s.disk[d].data
    <3>1. drv'[d] = [drv[d] EXCEPT !.img = s.disk[d].img, !.data = s.disk[d].data,
                                   !.bad = s.bad[d]]
      BY <2>3 DEF LoadDisks
    <3>2. drv[d] \in Disk BY <1>1
    <3> QED BY <3>1, <3>2 DEF Disk
  <2> QED BY <2>1, <2>2, <2>3
<1>7. ASSUME NEW f \in DiskFiles
      PROVE  /\ written'[f] \subseteq written[f]
             /\ \A d \in Drives : drv'[d].img = f => written'[f] \ risked[f] \subseteq drv'[d].data
  <2>0. f # NoFile BY NoFileIs
  <2>1. CASE \E d \in Drives : f \in {drv[d].img, drv'[d].img}
    <3>1. written'[f] = written[f] \cap UNION {drv'[d].data : d \in
                                              {e \in Drives : drv'[e].img = f}}
      BY <2>1
    <3>2. \A d, e \in Drives : drv'[d].img = f /\ drv'[e].img = f
            => drv'[e].data \ drv'[d].data \subseteq risked[f]
      BY <1>6a, <2>0
    <3> QED BY <3>1, <3>2
  <2>2. CASE ~ \E d \in Drives : f \in {drv[d].img, drv'[d].img}
    <3>1. written'[f] = written[f] BY <2>2
    <3> QED BY <2>2, <3>1
  <2> QED BY <2>1, <2>2
<1>8. written' \in [DiskFiles -> SUBSET Sectors]
  <2>1. \A f \in DiskFiles : written'[f] \in SUBSET Sectors BY <1>1, <1>7
  <2> QED BY <2>1
<1>9. /\ tape' \in Deck /\ tape'.loaded = s.tape.loaded /\ tape'.len = s.tape.len
      /\ tape'.offs = s.tape.offs /\ tape'.path = tape.path /\ tape'.buf = tape.buf
  BY <1>1, <1>2 DEF Deck
<1>10. chip' \in [sel : Drives, bad : BOOLEAN] /\ chip'.sel = s.sel /\ chip'.bad = s.bad[s.sel]
  BY <1>2 DEF LoadFdc
<1>11. BayTypeOK' BY <1>0, <1>6, <1>8, <1>9, <1>10 DEF BayTypeOK
<1>12. HeldInv'
  <2>1. \A d \in Drives : drv'[d].img \in Paths BY <1>6 DEF Disk
  <2>2. \A d \in Drives :
          /\ drv'[d].path = drv'[d].img
          /\ drv'[d].img # NoFile
               => written'[drv'[d].img] \ risked'[drv'[d].img] \subseteq drv'[d].data
    BY <1>0, <1>5, <1>7, <2>1 DEF HeldInv, Paths
  <2>3. \A d, e \in Drives : drv'[d].img = drv'[e].img /\ drv'[d].img # NoFile
                            => drv'[d].data \ drv'[e].data \subseteq risked'[drv'[d].img]
    BY <1>6a
  <2>4. up' OBVIOUS
  <2> QED BY <2>2, <2>3, <2>4, HeldAfter
<1>13. FiledInv'
  <2> SUFFICES ASSUME NEW f \in DiskFiles
        PROVE /\ store[f].img = f
              /\ (\E d \in Drives : drv'[d].img = f /\ drv'[d].dirty)
                   \/ written'[f] \ risked[f] \subseteq store[f].data
    BY DEF FiledInv, Sure
  <2>1. /\ store[f].img = f
        /\ (\E d \in Drives : drv[d].img = f /\ drv[d].dirty)
             \/ written[f] \ risked[f] \subseteq store[f].data
    BY <1>0 DEF FiledInv, Sure
  <2>2. written'[f] \subseteq written[f] BY <1>7
  <2> QED BY <1>5, <2>1, <2>2
<1>14. DeckInv'
  <2>1. tape.path = s.with.tape BY DEF SameMedia
  <2>2. /\ s.tape.loaded <=> s.with.tape # NoFile
        /\ s.tape.loaded => s.tape.len = TapeSize[s.with.tape] /\ s.tape.offs <= s.tape.len
    BY <1>2 DEF Named
  <2> QED BY <1>0, <1>9, <2>1, <2>2 DEF DeckInv
<1>15. SnapInv' BY <1>0, SnapsStay DEF BayTypeOK
<1>16. ChipInv' BY <1>2, <1>5, <1>10 DEF ChipInv
<1> QED BY <1>11, <1>12, <1>13, <1>14, <1>15, <1>16 DEF BayInv

LEMMA LoadsStep ==
  ASSUME BayInv, ~SwapBeforeLoad, savestate_load
  PROVE  BayInv'
<1>1. PICK i \in 1 .. Len(snaps) :
         \/ /\ snaps[i].file # "whole"
            /\ UNCHANGED <<drv, chip, tape, written>>
         \/ /\ snaps[i].file = "whole"
            /\ SameMedia(snaps[i])
            /\ drv' = LoadDisks(snaps[i])
            /\ chip' = LoadFdc(snaps[i])
            /\ tape' = [tape EXCEPT !.loaded = snaps[i].tape.loaded,
                                    !.len = snaps[i].tape.len, !.offs = snaps[i].tape.offs]
            /\ written' = [f \in DiskFiles |->
                 IF \E d \in Drives : f \in {drv[d].img, drv'[d].img}
                 THEN written[f] \cap UNION {drv'[d].data : d \in
                                              {e \in Drives : drv'[e].img = f}}
                 ELSE written[f]]
  BY DEF savestate_load
<1>2. up /\ UNCHANGED <<store, snaps, mcfg, up, counts, risked>> BY DEF savestate_load
<1>3. /\ Named(snaps[i])
      /\ snaps[i].file = "whole" => snaps[i] \in Whole
  <2>1. snaps \in Seq(Snapshot) BY DEF BayInv, BayTypeOK
  <2> QED BY <2>1 DEF BayInv, SnapInv, Snapshot
<1>4. CASE UNCHANGED <<drv, chip, tape, written>>
  <2>1. Still BY <1>2, <1>4 DEF Still
  <2> QED BY <2>1, MenuStep
<1>5. CASE ~ UNCHANGED <<drv, chip, tape, written>>
  BY <1>1, <1>2, <1>3, <1>5, LoadStep
<1> QED BY <1>4, <1>5

\* The inductive invariant of the media bay.
THEOREM BayKept ==
  ASSUME ~Reinsert, ~SwapBeforeLoad
  PROVE  BaySpec => []BayInv
<1>1. ASSUME BayInv, [BayNext]_bayVars PROVE BayInv'
  <2>1. CASE GuestWrite BY <1>1, <2>1, GuestWrites
  <2>2. CASE GuestSelect \/ GuestTape \/ TapeRewind BY <1>1, <2>2, GuestStep
  <2>3. CASE microdisc_add_bad_sector BY <1>1, <2>3, BadSectorStep
  <2>4. CASE ctl_cmd_load_disk BY <1>1, <2>4, InsertStep DEF ctl_cmd_load_disk
  <2>5. CASE ctl_cmd_eject_disk BY <1>1, <2>5, EjectStep DEF ctl_cmd_eject_disk
  <2>6. CASE F1 \/ open_browser BY <1>1, <2>6, MenuStep DEF F1, open_browser
  <2>7. CASE browse_drive
    BY <1>1, <2>7, EjectStep, InsertStep, MenuStep DEF browse_drive
  <2>8. CASE DiskProtect BY <1>1, <2>8, ProtectStep
  <2>9. CASE browse_tape BY <1>1, <2>9, TapeStep
  <2>10. CASE SnapshotSave BY <1>1, <2>10, SnapStep
  <2>11. CASE savestate_load BY <1>1, <2>11, LoadsStep
  <2>12. CASE SaveMediaConfig BY <1>1, <2>12, ConfigStep
  <2>13. CASE main_finish BY <1>1, <2>13, FinishStep
  <2>14. CASE Launch BY <1>1, <2>14, LaunchStep
  <2>15. CASE UNCHANGED bayVars BY <1>1, <2>15, MenuStep DEF bayVars, Still
  <2> QED BY <1>1, <2>1, <2>2, <2>3, <2>4, <2>5, <2>6, <2>7, <2>8, <2>9, <2>10, <2>11,
             <2>12, <2>13, <2>14, <2>15 DEF BayNext
<1>2. BaySpec => []BayInv BY BayStart, <1>1, PTL DEF BaySpec
<1> QED BY <1>2

\* What is safe of the media follows.
LEMMA BaySuffices == BayInv => MediaAreKept
<1> SUFFICES ASSUME BayInv PROVE MediaAreKept OBVIOUS
<1>0. BayTypeOK /\ HeldInv /\ FiledInv /\ DeckInv /\ SnapInv /\ ChipInv BY DEF BayInv
<1>1. NothingWrittenIsLost
  <2> SUFFICES ASSUME NEW f \in DiskFiles
        PROVE  written[f] \subseteq risked[f] \cup store[f].data \cup
            UNION {drv[d].data : d \in {e \in Drives :
                      drv[e].img = f /\ drv[e].dirty /\ drv[e].path = f}}
    BY DEF NothingWrittenIsLost
  <2>1. CASE \E d \in Drives : drv[d].img = f /\ drv[d].dirty
    <3>1. PICK d \in Drives : drv[d].img = f /\ drv[d].dirty BY <2>1
    <3>2. drv[d].path = f /\ Sure(f) \subseteq drv[d].data
      BY <1>0, <3>1, NoFileIs DEF HeldInv
    <3> QED BY <3>1, <3>2 DEF Sure
  <2>2. CASE Sure(f) \subseteq store[f].data BY <2>2 DEF Sure
  <2> QED BY <1>0, <2>1, <2>2 DEF FiledInv
<1>2. ImageGoesToItsFile BY <1>0 DEF ImageGoesToItsFile, FiledInv
<1>3. TapeIsWhole BY <1>0 DEF TapeIsWhole, DeckInv
<1> QED BY <1>0, <1>1, <1>2, <1>3 DEF MediaAreKept, ChipInv

\* Through every swap, write, snapshot, exit and launch, what the guest wrote
\* is in its file or in a dirty drive that knows the file, but for the writes of
\* a save that failed and for what two drives with one file differ in; an image
\* never goes to another file, the deck plays its tape, and the FDC works with the map of
\* the medium in the selected drive (media_disk_insert, main_finish,
\* savestate_load), where an image is not inserted over itself and a snapshot
\* is loaded over its own media.
THEOREM MediaSafe ==
  ASSUME ~Reinsert, ~SwapBeforeLoad
  PROVE  BaySpec => []MediaAreKept
<1>1. BaySpec => []BayInv BY BayKept
<1> QED BY <1>1, BaySuffices, PTL

-----------------------------------------------------------------------------
(***************************************************************************)
(* The keyboard, the stick and the movie.                                  *)
(***************************************************************************)

Position == Int \X Int
Char == {"9", "(", "a"}
PressedKey == [sc : HostKey, pos : Position, shift : BOOLEAN]
Keys == [matrix : SUBSET Position, layout : {"qwerty", "azerty"}, pressed : Seq(PressedKey),
         pending : SUBSET HostKey]

Button == {"UP", "FIRE", "LEFT", "RIGHT"}
PadButton == DOMAIN gamepad_button_to_ijk
Bits(H) == {gamepad_button_to_ijk[b] : b \in H}
MovieEvent == [frame : Nat, matrix : SUBSET Position]

LEMMA TablesAreTyped ==
  /\ \A sc \in HostKey : qwerty_tab[sc] \in Position
  /\ \A sc \in DOMAIN special_keys : sc \in HostKey /\ special_keys[sc] \in Position
  /\ \A c \in Char : char_map[c].pos \in Position /\ char_map[c].shift \in BOOLEAN
  /\ \A sc \in DOMAIN Texts : sc \in HostKey /\ Texts[sc] \subseteq Char
  /\ \A sc \in DOMAIN StickOf : sc \in HostKey /\ StickOf[sc] \in {"UP", "FIRE"}
<1>1. \A sc \in HostKey : qwerty_tab[sc] \in Position
  BY DEF HostKey, qwerty_tab, Position
<1>2. \A sc \in DOMAIN special_keys : sc \in HostKey /\ special_keys[sc] \in Position
  BY DEF HostKey, qwerty_tab, special_keys, Position
<1>3. \A c \in Char : char_map[c].pos \in Position /\ char_map[c].shift \in BOOLEAN
  <2>1. char_map["9"] = [pos |-> <<3, 1>>, shift |-> FALSE]
    BY DEF char_map
  <2>2. char_map["("] = [pos |-> <<3, 1>>, shift |-> TRUE]
    BY DEF char_map
  <2>3. char_map["a"] = [pos |-> <<6, 5>>, shift |-> FALSE]
    BY DEF char_map
  <2>4. <<3, 1>> \in Position /\ <<6, 5>> \in Position
    BY DEF Position
  <2>5. \A c \in Char : c = "9" \/ c = "(" \/ c = "a"
    BY DEF Char
  <2>6. char_map["9"].pos \in Position /\ char_map["9"].shift \in BOOLEAN
    BY <2>1, <2>4
  <2>7. char_map["("].pos \in Position /\ char_map["("].shift \in BOOLEAN
    BY <2>2, <2>4
  <2>8. char_map["a"].pos \in Position /\ char_map["a"].shift \in BOOLEAN
    BY <2>3, <2>4
  <2> QED BY <2>5, <2>6, <2>7, <2>8
<1>4. \A sc \in DOMAIN Texts : sc \in HostKey /\ Texts[sc] \subseteq Char
  BY DEF HostKey, qwerty_tab, Texts, Char
<1>5. \A sc \in DOMAIN StickOf : sc \in HostKey /\ StickOf[sc] \in {"UP", "FIRE"}
  BY DEF HostKey, qwerty_tab, StickOf
<1> QED BY <1>1, <1>2, <1>3, <1>4, <1>5
-----------------------------------------------------------------------------

Sticks == [mode : {"off", "keyboard", "gamepad"}, mask : SUBSET Button]
Movies == [mode : {"off", "record", "replay"}, events : Seq(MovieEvent), idx : Nat,
           cur : SUBSET Position]

KbdTypeOK ==
  /\ kb \in Keys
  /\ joy \in Sticks
  /\ down \in SUBSET HostKey /\ text \in Seq(Char)
  /\ pad \in [held : SUBSET PadButton, x : {-1, 0, 1}]
  /\ movie \in Movies
  /\ frame \in Nat /\ watched \in Seq(SUBSET Position)

\* A key has one entry in the list, and the list is about keys that are held
\* and that the stick does not take; unless a movie is shown, the matrix too.
OneEach(p) == \A i, j \in DOMAIN p : p[i].sc = p[j].sc => i = j
ListInv(k, fingers, own) ==
  /\ OneEach(k.pressed)
  /\ \A i \in DOMAIN k.pressed : k.pressed[i].sc \in fingers
  /\ k.pending \subseteq fingers
  /\ k.layout = "qwerty" => k.pressed = <<>> /\ k.pending = {}
  /\ own => IF k.layout = "azerty" THEN k.pressed = <<>> => k.matrix = {}
            ELSE k.matrix \subseteq {qwerty_tab[sc] : sc \in fingers}
Hands(mode, F) == IF mode = "keyboard" THEN F \ DOMAIN StickOf ELSE F
HandInv == ListInv(kb, Hands(joy.mode, down), movie.mode # "replay")

\* A button that reads as pressed has its finger, on the keyboard or the pad.
StickInv ==
  /\ joy.mode = "off" => joy.mask = {}
  /\ joy.mode = "keyboard" => joy.mask \subseteq {StickOf[sc] : sc \in down \cap DOMAIN StickOf}
  /\ joy.mode = "gamepad" => joy.mask \subseteq Bits(pad.held) \cup (IF pad.x < 0 THEN {"LEFT"} ELSE {})
                                              \cup (IF pad.x > 0 THEN {"RIGHT"} ELSE {})

\* An event tells what the machine ran with from its frame to the next event.
Tells(ev, w) ==
  /\ \A i \in DOMAIN ev : ev[i].frame < Len(w)
  /\ \A i, j \in DOMAIN ev : i < j => ev[i].frame < ev[j].frame
  /\ w # <<>> => ev # <<>> /\ ev[1].frame = 0
  /\ \A i \in DOMAIN ev, f \in 0 .. Len(w) - 1 :
       ev[i].frame <= f /\ (\A j \in DOMAIN ev : j > i => ev[j].frame > f) => w[f + 1] = ev[i].matrix

\* Where a replay is: at the last event that it has reached.
Shows(m, f) ==
  IF f = 0 THEN m.idx = 0
  ELSE /\ m.idx \in DOMAIN m.events /\ m.cur = m.events[m.idx].matrix
       /\ m.events[m.idx].frame <= f - 1
       /\ \A j \in DOMAIN m.events : j > m.idx => m.events[j].frame > f - 1
MovieInv ==
  /\ Tells(movie.events, watched)
  /\ movie.mode = "record" => frame = Len(watched) /\ movie.idx = 0
  /\ movie.mode = "replay" => frame <= Len(watched) /\ Len(watched) = MaxMovieFrames
                              /\ Shows(movie, frame)

KbdInv == KbdTypeOK /\ saved = {} /\ HandInv /\ StickInv /\ MovieInv

\* What a removal leaves: entries of the list, none of the key, one of each.
LEMMA RemovedIs ==
  ASSUME NEW p \in Seq(PressedKey), OneEach(p), NEW sc \in HostKey,
         NEW q, q = sym_remove_pressed(p, sc)
  PROVE  /\ q \in Seq(PressedKey) /\ OneEach(q)
         /\ \A i \in DOMAIN q : q[i].sc # sc /\ \E j \in DOMAIN p : q[i] = p[j]
<1>1. PICK at : at = {i \in DOMAIN p : p[i].sc = sc}
  OBVIOUS
<1>2. CASE at = {}
  BY <1>1, <1>2 DEF sym_remove_pressed
<1>3. CASE at # {}
  <2>1. PICK i \in DOMAIN p : p[i].sc = sc /\ at = {i}
    BY <1>1, <1>3 DEF OneEach
  <2>2. (CHOOSE j \in at : \A k \in at : j <= k) = i
    BY <2>1
  <2>3. PICK n \in Nat : n = Len(p) /\ i \in 1 .. n
    BY <2>1
  <2>4. PICK r : r = [p EXCEPT ![i] = p[n]]
    OBVIOUS
  <2>5. /\ r \in Seq(PressedKey) /\ Len(r) = n /\ r[i] = p[n]
        /\ \A k \in 1 .. n : k # i => r[k] = p[k]
    BY <2>3, <2>4
  <2>6. q = SubSeq(r, 1, n - 1)
    BY <1>1, <1>3, <2>2, <2>3, <2>4 DEF sym_remove_pressed
  <2>7. q \in Seq(PressedKey) /\ DOMAIN q = 1 .. n - 1 /\ \A k \in 1 .. n - 1 : q[k] = r[k]
    BY <2>3, <2>5, <2>6
  <2>8. \A k \in 1 .. n - 1 : IF k = i THEN q[k] = p[n] /\ i # n ELSE q[k] = p[k]
    BY <2>3, <2>5, <2>7
  <2>9. OneEach(q)
    BY <2>3, <2>7, <2>8 DEF OneEach
  <2>10. \A k \in DOMAIN q : q[k].sc # sc /\ \E j \in DOMAIN p : q[k] = p[j]
    BY <2>1, <2>3, <2>7, <2>8 DEF OneEach
  <2> QED BY <2>7, <2>9, <2>10
<1> QED BY <1>2, <1>3

\* What an addition gives.
LEMMA AddedIs ==
  ASSUME NEW p \in Seq(PressedKey), OneEach(p), NEW sc \in HostKey,
         \A i \in DOMAIN p : p[i].sc # sc,
         NEW e, e.pos \in Position, e.shift \in BOOLEAN,
         NEW q, q = sym_add_pressed(p, sc, e)
  PROVE  /\ q \in Seq(PressedKey) /\ OneEach(q)
         /\ \A i \in DOMAIN q : q[i].sc = sc \/ \E j \in DOMAIN p : q[i] = p[j]
<1>1. CASE Len(p) >= ORIC_KB_MAX_PRESSED
  BY <1>1 DEF sym_add_pressed
<1>2. CASE ~(Len(p) >= ORIC_KB_MAX_PRESSED)
  <2>1. PICK x : x = [sc |-> sc, pos |-> e.pos, shift |-> e.shift]
    OBVIOUS
  <2>2. x \in PressedKey /\ x.sc = sc
    BY <2>1 DEF PressedKey
  <2>3. q = Append(p, x)
    BY <1>2, <2>1 DEF sym_add_pressed
  <2>4. PICK n \in Nat : n = Len(p)
    OBVIOUS
  <2>5. q \in Seq(PressedKey) /\ DOMAIN q = 1 .. n + 1 /\ q[n + 1] = x /\ \A k \in 1 .. n : q[k] = p[k]
    BY <2>2, <2>3, <2>4
  <2>6. OneEach(q)
    BY <2>2, <2>4, <2>5 DEF OneEach
  <2> QED BY <2>2, <2>4, <2>5, <2>6
<1> QED BY <1>1, <1>2

LEMMA RebuiltIs ==
  ASSUME NEW p \in Seq(PressedKey)
  PROVE  sym_rebuild_matrix(p) \in SUBSET Position /\ (p = <<>> => sym_rebuild_matrix(p) = {})
<1>1. \A i \in DOMAIN p : p[i].pos \in Position
  <2>1. \A i \in DOMAIN p : p[i] \in PressedKey
    OBVIOUS
  <2> QED BY <2>1 DEF PressedKey
<1>2. LSHIFT \in Position
  BY DEF LSHIFT, Position
<1>3. p = <<>> => DOMAIN p = {}
  OBVIOUS
<1> QED BY <1>1, <1>2, <1>3 DEF sym_rebuild_matrix

\* A key that is pressed in symbolic mode is in the list, once.
LEMMA PressingKeeps ==
  ASSUME NEW own \in BOOLEAN, NEW k \in Keys, NEW fingers,
         ListInv(k, fingers, own), k.layout = "azerty",
         NEW sc \in HostKey, sc \in fingers,
         NEW e, e.pos \in Position, e.shift \in BOOLEAN,
         NEW l, l = Pressing(k, sc, e)
  PROVE  l \in Keys /\ ListInv(l, fingers, own) /\ l.layout = "azerty" /\ l.pending = k.pending
<1>1. k.pressed \in Seq(PressedKey) /\ OneEach(k.pressed)
  BY DEF Keys, ListInv
<1>2. PICK q : q = sym_remove_pressed(k.pressed, sc)
  OBVIOUS
<1>3. /\ q \in Seq(PressedKey) /\ OneEach(q)
      /\ \A i \in DOMAIN q : q[i].sc # sc /\ \E j \in DOMAIN k.pressed : q[i] = k.pressed[j]
  BY <1>1, <1>2, RemovedIs
<1>4. PICK p : p = sym_add_pressed(q, sc, e)
  OBVIOUS
<1>5. /\ p \in Seq(PressedKey) /\ OneEach(p)
      /\ \A i \in DOMAIN p : p[i].sc = sc \/ \E j \in DOMAIN q : p[i] = q[j]
  BY <1>3, <1>4, AddedIs
<1>6. PICK M : M = sym_rebuild_matrix(p)
  OBVIOUS
<1>7. M \in SUBSET Position /\ (p = <<>> => M = {})
  BY <1>5, <1>6, RebuiltIs
<1>8. l = [k EXCEPT !.pressed = p, !.matrix = M]
  BY <1>2, <1>4, <1>6 DEF Pressing
<1>9. l \in Keys /\ l.pressed = p /\ l.matrix = M /\ l.layout = "azerty" /\ l.pending = k.pending
  BY <1>5, <1>7, <1>8 DEF Keys
<1>10. \A i \in DOMAIN p : p[i].sc \in fingers
  BY <1>3, <1>5 DEF ListInv
<1>11. ListInv(l, fingers, own)
  BY <1>5, <1>7, <1>9, <1>10 DEF ListInv
<1> QED BY <1>9, <1>11

\* Fingers that come down disturb nothing.
LEMMA MoreFingers ==
  ASSUME NEW own \in BOOLEAN, NEW k \in Keys, NEW F, NEW G, ListInv(k, F, own), F \subseteq G
  PROVE  ListInv(k, G, own)
BY DEF ListInv

\* A key event of the host, as the keyboard sees it.
LEMMA DownKeeps ==
  ASSUME NEW own \in BOOLEAN, NEW k \in Keys, NEW F \in SUBSET HostKey,
         ListInv(k, F, own), NEW sc \in HostKey, NEW ctrl,
         NEW l, l = oric_keyboard_handle_sdl_event(k, sc, TRUE, ctrl)
  PROVE  l \in Keys /\ ListInv(l, F \cup {sc}, own)
<1> DEFINE G == F \cup {sc}
<1>1. ListInv(k, G, own) /\ sc \in G
  BY MoreFingers
<1> HIDE DEF G
<1>2. CASE k.layout # "azerty"
  <2>1. k.layout = "qwerty"
    BY <1>2 DEF Keys
  <2>2. PICK M : M = k.matrix \cup {qwerty_tab[sc]}
    OBVIOUS
  <2>3. l = [k EXCEPT !.matrix = M]
    BY <1>2, <2>2 DEF oric_keyboard_handle_sdl_event, Positional
  <2>4. M \in SUBSET Position
    BY <2>2, TablesAreTyped DEF Keys
  <2>5. l \in Keys /\ l.matrix = M /\ l.layout = "qwerty" /\ l.pressed = k.pressed /\ l.pending = k.pending
    BY <2>1, <2>3, <2>4 DEF Keys
  <2>6. own => M \subseteq {qwerty_tab[c] : c \in G}
    BY <1>1, <2>1, <2>2 DEF ListInv
  <2>7. k.pressed = <<>> /\ k.pending = {}
    BY <1>1, <2>1 DEF ListInv
  <2>8. ListInv(l, G, own)
    BY <1>1, <2>1, <2>5, <2>6, <2>7 DEF ListInv
  <2> QED BY <2>5, <2>8 DEF G
<1>3. CASE k.layout = "azerty"
  <2>1. l = SymbolicDown(k, sc, ctrl)
    BY <1>3 DEF oric_keyboard_handle_sdl_event
  <2>2. CASE sc \in DOMAIN special_keys
    <3>1. PICK e : e = [pos |-> special_keys[sc], shift |-> FALSE]
      OBVIOUS
    <3>2. e.pos \in Position /\ e.shift \in BOOLEAN
      BY <2>2, <3>1, TablesAreTyped
    <3>3. l = Pressing(k, sc, e)
      BY <2>1, <2>2, <3>1 DEF SymbolicDown
    <3> QED BY <1>1, <1>3, <3>2, <3>3, PressingKeeps DEF G
  <2>3. CASE sc \notin DOMAIN special_keys /\ l = Pressing(k, sc, char_map["a"])
    <3>1. "a" \in Char
      BY DEF Char
    <3>2. char_map["a"].pos \in Position /\ char_map["a"].shift \in BOOLEAN
      BY <3>1, TablesAreTyped
    <3>3. PICK e : e = char_map["a"]
      OBVIOUS
    <3>4. e.pos \in Position /\ e.shift \in BOOLEAN /\ l = Pressing(k, sc, e)
      BY <2>3, <3>2, <3>3
    <3>6. l \in Keys /\ ListInv(l, G, own)
      BY <1>1, <1>3, <3>4, PressingKeeps
    <3> QED BY <3>6 DEF G
  <2>4. CASE l = k
    BY <1>1, <2>4 DEF G
  <2>5. CASE l = [k EXCEPT !.pending = {sc}]
    <3>0. PICK w \in SUBSET HostKey : w = {sc}
      OBVIOUS
    <3>3. l = [k EXCEPT !.pending = w]
      BY <2>5, <3>0
    <3>1. /\ l \in Keys /\ l.pending = w /\ l.layout = "azerty" /\ l.pressed = k.pressed
          /\ l.matrix = k.matrix
      BY <1>3, <3>3 DEF Keys
    <3>2. ListInv(l, G, own)
      BY <1>1, <1>3, <3>0, <3>1 DEF ListInv
    <3> QED BY <3>1, <3>2 DEF G
  <2> QED BY <2>1, <2>2, <2>3, <2>4, <2>5 DEF SymbolicDown
<1> QED BY <1>2, <1>3

LEMMA UpKeeps ==
  ASSUME NEW own \in BOOLEAN, NEW k \in Keys, NEW F \in SUBSET HostKey,
         ListInv(k, F, own), NEW sc \in HostKey, NEW ctrl,
         NEW l, l = oric_keyboard_handle_sdl_event(k, sc, FALSE, ctrl)
  PROVE  l \in Keys /\ ListInv(l, F \ {sc}, own)
<1> DEFINE G == F \ {sc}
<1>1. \A c \in F : c # sc => c \in G
  OBVIOUS
<1>0. sc \notin G
  OBVIOUS
<1> HIDE DEF G
<1>2. CASE k.layout # "azerty"
  <2>1. k.layout = "qwerty"
    BY <1>2 DEF Keys
  <2>2. PICK M : M = k.matrix \ {qwerty_tab[sc]}
    OBVIOUS
  <2>3. l = [k EXCEPT !.matrix = M]
    BY <1>2, <2>2 DEF oric_keyboard_handle_sdl_event, Positional
  <2>4. M \in SUBSET Position
    BY <2>2 DEF Keys
  <2>5. l \in Keys /\ l.matrix = M /\ l.layout = "qwerty" /\ l.pressed = k.pressed /\ l.pending = k.pending
    BY <2>1, <2>3, <2>4 DEF Keys
  <2>6. /\ k.pressed = <<>> /\ k.pending = {}
        /\ own => k.matrix \subseteq {qwerty_tab[c] : c \in F}
    BY <2>1 DEF ListInv
  <2>7. own => M \subseteq {qwerty_tab[c] : c \in G}
    BY <1>1, <2>2, <2>6
  <2>8. ListInv(l, G, own)
    <3>1. OneEach(l.pressed)
      BY <2>5 DEF ListInv
    <3>2. DOMAIN l.pressed = {}
      <4>1. l.pressed = <<>>
        BY <2>5, <2>6
      <4>2. \A x : x = <<>> => DOMAIN x = {}
        OBVIOUS
      <4> QED BY <4>1, <4>2
    <3>3. l.pending \subseteq G /\ l.pressed = <<>> /\ l.pending = {} /\ l.layout # "azerty"
      BY <2>5, <2>6
    <3>4. own => l.matrix \subseteq {qwerty_tab[c] : c \in G}
      BY <2>5, <2>7
    <3> QED BY <3>1, <3>2, <3>3, <3>4 DEF ListInv
  <2> QED BY <2>5, <2>8 DEF G
<1>3. CASE k.layout = "azerty"
  <2>1. k.pressed \in Seq(PressedKey) /\ OneEach(k.pressed)
    BY DEF Keys, ListInv
  <2>2. PICK q : q = sym_remove_pressed(k.pressed, sc)
    OBVIOUS
  <2>3. /\ q \in Seq(PressedKey) /\ OneEach(q)
        /\ \A i \in DOMAIN q : q[i].sc # sc /\ \E j \in DOMAIN k.pressed : q[i] = k.pressed[j]
    BY <2>1, <2>2, RemovedIs
  <2>4. PICK M : M = sym_rebuild_matrix(q)
    OBVIOUS
  <2>5. M \in SUBSET Position /\ (q = <<>> => M = {})
    BY <2>3, <2>4, RebuiltIs
  <2>6. PICK w : w = k.pending \ {sc}
    OBVIOUS
  <2>7. l = [k EXCEPT !.pending = w, !.pressed = q, !.matrix = M]
    BY <1>3, <2>2, <2>4, <2>6 DEF oric_keyboard_handle_sdl_event, SymbolicUp
  <2>8. l \in Keys /\ l.pressed = q /\ l.matrix = M /\ l.layout = "azerty" /\ l.pending = w
    BY <1>3, <2>3, <2>5, <2>6, <2>7 DEF Keys
  <2>9. \A i \in DOMAIN q : q[i].sc \in G
    BY <1>1, <2>3 DEF ListInv
  <2>10. w \subseteq G
    BY <1>1, <2>6 DEF ListInv
  <2>11. ListInv(l, G, own)
    BY <2>3, <2>5, <2>8, <2>9, <2>10 DEF ListInv
  <2> QED BY <2>8, <2>11 DEF G
<1> QED BY <1>2, <1>3

\* The text of a key goes to the last key that went down, which is held.
LEMMA TextKeeps ==
  ASSUME NEW own \in BOOLEAN, NEW k \in Keys, NEW F \in SUBSET HostKey,
         ListInv(k, F, own), k.layout = "azerty",
         NEW c \in Char, NEW l, l = SymbolicText(k, c)
  PROVE  l \in Keys /\ ListInv(l, F, own)
<1>1. CASE k.pending = {}
  BY <1>1 DEF SymbolicText
<1>2. CASE k.pending # {}
  <2>1. PICK sc : sc = CHOOSE s \in k.pending : TRUE
    OBVIOUS
  <2>2. sc \in k.pending
    BY <1>2, <2>1
  <2>3. sc \in HostKey /\ sc \in F
    BY <2>2 DEF Keys, ListInv
  <2>4. PICK e : e = char_map[c]
    OBVIOUS
  <2>5. e.pos \in Position /\ e.shift \in BOOLEAN
    BY <2>4, TablesAreTyped
  <2>6. PICK q : q = Pressing(k, sc, e)
    OBVIOUS
  <2>7. q \in Keys /\ ListInv(q, F, own) /\ q.layout = "azerty"
    BY <2>3, <2>5, <2>6, PressingKeeps
  <2>8. l = [q EXCEPT !.pending = {}]
    BY <1>2, <2>1, <2>4, <2>6 DEF SymbolicText
  <2>9. l \in Keys /\ l.pending = {} /\ l.pressed = q.pressed /\ l.matrix = q.matrix /\ l.layout = "azerty"
    BY <2>7, <2>8 DEF Keys
  <2>10. ListInv(l, F, own)
    BY <2>7, <2>9 DEF ListInv
  <2> QED BY <2>9, <2>10
<1> QED BY <1>1, <1>2

\* An empty hand, whatever it did, leaves nothing.
LEMMA EmptyHand ==
  ASSUME NEW own \in BOOLEAN, NEW k \in Keys, ListInv(k, {}, own)
  PROVE  k.pressed = <<>> /\ k.pending = {} /\ (own => k.matrix = {})
<1>1. DOMAIN k.pressed = {} /\ k.pending = {}
  BY DEF ListInv
<1>2. k.pressed = <<>>
  <2>1. PICK p \in Seq(PressedKey) : p = k.pressed
    BY DEF Keys
  <2>2. Len(p) = 0
    <3>1. Len(p) \in Nat /\ DOMAIN p = 1 .. Len(p)
      OBVIOUS
    <3>2. Len(p) > 0 => 1 \in DOMAIN p
      BY <3>1
    <3> QED BY <1>1, <2>1, <3>1, <3>2
  <2> QED BY <2>1, <2>2, EmptySeq
<1>3. own /\ k.layout = "azerty" => k.matrix = {}
  BY <1>2 DEF ListInv
<1>4. own /\ k.layout # "azerty" => k.matrix = {}
  <2>1. own /\ k.layout # "azerty" => k.matrix \subseteq {qwerty_tab[sc] : sc \in {}}
    BY DEF ListInv
  <2>2. {qwerty_tab[sc] : sc \in {}} = {}
    OBVIOUS
  <2> QED BY <2>1, <2>2
<1> QED BY <1>1, <1>2, <1>3, <1>4

\* A matrix that comes from a snapshot is empty.
LEMMA ClearKeeps ==
  ASSUME NEW own \in BOOLEAN, NEW k \in Keys, NEW F,
         ListInv(k, F, own), NEW l, l = [k EXCEPT !.matrix = {}]
  PROVE  l \in Keys /\ ListInv(l, F, own)
<1>1. PICK M \in SUBSET Position : M = {}
  OBVIOUS
<1>2. l = [k EXCEPT !.matrix = M]
  BY <1>1
<1>3. /\ l \in Keys /\ l.matrix = M /\ l.layout = k.layout /\ l.pressed = k.pressed
      /\ l.pending = k.pending
  BY <1>2 DEF Keys
<1>4. ListInv(l, F, own)
  BY <1>1, <1>3 DEF ListInv
<1> QED BY <1>3, <1>4

\* The same by lengths.
TellsIn(ev, w, m, n) ==
  /\ \A i \in 1 .. m : ev[i].frame < n
  /\ \A i, j \in 1 .. m : i < j => ev[i].frame < ev[j].frame
  /\ n > 0 => m > 0 /\ ev[1].frame = 0
  /\ \A i \in 1 .. m, f \in 0 .. n - 1 :
       ev[i].frame <= f /\ (\A j \in 1 .. m : j > i => ev[j].frame > f) => w[f + 1] = ev[i].matrix

LEMMA TellsIs ==
  ASSUME NEW ev \in Seq(MovieEvent), NEW w \in Seq(SUBSET Position)
  PROVE  Tells(ev, w) <=> TellsIn(ev, w, Len(ev), Len(w))
<1>1. (w # <<>> <=> Len(w) > 0) /\ (ev # <<>> <=> Len(ev) > 0)
  BY EmptySeq
<1>2. DOMAIN ev = 1 .. Len(ev)
  OBVIOUS
<1> QED BY <1>1, <1>2, ZenonT(30) DEF Tells, TellsIn

\* What is recorded tells the session.
LEMMA RecordKeeps ==
  ASSUME NEW ev \in Seq(MovieEvent), NEW w \in Seq(SUBSET Position), Tells(ev, w),
         NEW x \in SUBSET Position, NEW v, v = Append(w, x),
         NEW e \in MovieEvent, e.frame = Len(w), e.matrix = x, NEW u, u = Append(ev, e)
  PROVE  /\ v \in Seq(SUBSET Position) /\ Len(v) = Len(w) + 1
         /\ ev # <<>> /\ ev[Len(ev)].matrix = x => Tells(ev, v)
         /\ u \in Seq(MovieEvent) /\ Tells(u, v)
<1>1. PICK n \in Nat : n = Len(w)
  OBVIOUS
<1>2. PICK m \in Nat : m = Len(ev)
  OBVIOUS
<1>3. /\ v \in Seq(SUBSET Position) /\ Len(v) = n + 1 /\ v[n + 1] = x
      /\ \A f \in 0 .. n - 1 : v[f + 1] = w[f + 1]
  BY <1>1
<1>0. TellsIn(ev, w, m, n)
  BY <1>1, <1>2, TellsIs
<1>4. \A i \in 1 .. m : ev[i].frame \in Nat /\ ev[i].frame < n
  <2>1. \A i \in 1 .. m : ev[i] \in MovieEvent
    BY <1>2
  <2> QED BY <1>0, <2>1 DEF TellsIn, MovieEvent
<1>5. n > 0 => m > 0 /\ ev[1].frame = 0
  BY <1>0 DEF TellsIn
<1>6. \A i, j \in 1 .. m : i < j => ev[i].frame < ev[j].frame
  BY <1>0 DEF TellsIn
<1>7. \A i \in 1 .. m, f \in 0 .. n - 1 :
        ev[i].frame <= f /\ (\A j \in 1 .. m : j > i => ev[j].frame > f) => w[f + 1] = ev[i].matrix
  BY <1>0 DEF TellsIn
<1>9. ASSUME m > 0, ev[m].matrix = x PROVE Tells(ev, v)
  <2>1. n > 0
    <3>1. 1 \in 1 .. m
      BY <1>9
    <3>2. ev[1].frame \in Nat /\ ev[1].frame < n
      BY <1>4, <3>1
    <3> QED BY <3>2
  <2>2. ev[1].frame = 0
    BY <1>5, <2>1
  <2>3. \A i \in 1 .. m : ev[i].frame < n + 1
    BY <1>4
  <2>4. ASSUME NEW i \in 1 .. m, NEW f \in 0 .. n, ev[i].frame <= f,
               \A j \in 1 .. m : j > i => ev[j].frame > f
        PROVE v[f + 1] = ev[i].matrix
    <3>1. CASE f = n
      <4>1. ev[m].frame \in Nat /\ ev[m].frame < n /\ m \in 1 .. m
        BY <1>4, <1>9
      <4>2. i = m
        BY <2>4, <3>1, <4>1
      <4> QED BY <1>3, <1>9, <3>1, <4>2
    <3>2. CASE f # n
      <4>1. f \in 0 .. n - 1
        BY <3>2
      <4> QED BY <1>3, <1>7, <2>4, <4>1
    <3> QED BY <3>1, <3>2
  <2>5. n + 1 - 1 = n
    OBVIOUS
  <2>6. TellsIn(ev, v, m, n + 1)
    <3>1. PICK N \in Nat : N = n + 1 /\ N - 1 = n
      BY <2>5
    <3>2. \A i \in 1 .. m, f \in 0 .. N - 1 :
            ev[i].frame <= f /\ (\A j \in 1 .. m : j > i => ev[j].frame > f) => v[f + 1] = ev[i].matrix
      BY <2>4, <3>1
    <3>3. TellsIn(ev, v, m, N)
      BY <1>6, <1>9, <2>2, <2>3, <3>1, <3>2 DEF TellsIn
    <3> QED BY <3>1, <3>3
  <2> QED BY <1>2, <1>3, <2>6, TellsIs
<1>10. u \in Seq(MovieEvent) /\ Tells(u, v)
  <2>0. e.frame = n
    BY <1>1
  <2>1. /\ u \in Seq(MovieEvent) /\ Len(u) = m + 1 /\ DOMAIN u = 1 .. m + 1 /\ u[m + 1] = e
        /\ \A i \in 1 .. m : u[i] = ev[i]
    BY <1>2
  <2>2. \A i \in 1 .. m + 1 : i \in 1 .. m \/ i = m + 1
    OBVIOUS
  <2>3. \A i \in 1 .. m + 1 : u[i].frame \in Nat /\ u[i].frame < n + 1
    BY <1>4, <2>0, <2>1, <2>2
  <2>4. \A i, j \in 1 .. m + 1 : i < j => u[i].frame < u[j].frame
    <3>1. u[m + 1].frame = n /\ \A i \in 1 .. m : u[i].frame = ev[i].frame
      BY <2>0, <2>1
    <3>2. ASSUME NEW i \in 1 .. m + 1, NEW j \in 1 .. m + 1, i < j PROVE u[i].frame < u[j].frame
      <4>1. i \in 1 .. m
        BY <3>2
      <4>2. CASE j \in 1 .. m
        BY <1>6, <3>1, <3>2, <4>1, <4>2
      <4>3. CASE j = m + 1
        BY <1>4, <3>1, <4>1, <4>3
      <4> QED BY <2>2, <4>2, <4>3
    <3> QED BY <3>2
  <2>5. u[1].frame = 0
    <3>1. m = 0 => n = 0
      BY <1>5
    <3>2. m > 0 => n > 0
      <4>1. m > 0 => ev[1].frame \in Nat /\ ev[1].frame < n
        BY <1>4
      <4> QED BY <4>1
    <3>3. CASE m = 0
      BY <2>0, <2>1, <3>1, <3>3
    <3>4. CASE m > 0
      BY <1>5, <2>1, <3>2, <3>4
    <3> QED BY <3>3, <3>4
  <2>6. ASSUME NEW i \in 1 .. m + 1, NEW f \in 0 .. n, u[i].frame <= f,
               \A j \in 1 .. m + 1 : j > i => u[j].frame > f
        PROVE v[f + 1] = u[i].matrix
    <3>1. CASE i = m + 1
      <4>1. f = n
        BY <2>0, <2>1, <2>6, <3>1
      <4> QED BY <1>3, <2>0, <2>1, <3>1, <4>1
    <3>2. CASE i \in 1 .. m
      <4>1. m + 1 \in 1 .. m + 1 /\ m + 1 > i
        BY <3>2
      <4>2. n > f
        BY <2>0, <2>1, <2>6, <4>1
      <4>3. f \in 0 .. n - 1
        BY <4>2
      <4>4. \A j \in 1 .. m : j > i => ev[j].frame > f
        <5>1. \A j \in 1 .. m : j \in 1 .. m + 1 /\ u[j] = ev[j]
          BY <2>1
        <5> QED BY <2>6, <5>1
      <4>5. w[f + 1] = ev[i].matrix
        BY <1>7, <2>1, <2>6, <3>2, <4>3, <4>4
      <4> QED BY <1>3, <2>1, <3>2, <4>3, <4>5
    <3> QED BY <2>2, <3>1, <3>2
  <2>7. n + 1 - 1 = n /\ m + 1 > 0
    OBVIOUS
  <2>8. TellsIn(u, v, m + 1, n + 1)
    <3>1. \A i \in 1 .. m + 1 : u[i].frame < n + 1
      BY <2>3
    <3>2. PICK k \in Nat, N \in Nat : k = m + 1 /\ N = n + 1 /\ N - 1 = n
      BY <2>7
    <3>3. \A i \in 1 .. k, f \in 0 .. N - 1 :
            u[i].frame <= f /\ (\A j \in 1 .. k : j > i => u[j].frame > f) => v[f + 1] = u[i].matrix
      BY <2>6, <3>2
    <3>4. TellsIn(u, v, k, N)
      <4>1. \A i \in 1 .. k : u[i].frame < N
        BY <3>1, <3>2
      <4>2. \A i, j \in 1 .. k : i < j => u[i].frame < u[j].frame
        BY <2>4, <3>2
      <4>3. k > 0 /\ u[1].frame = 0
        BY <2>5, <2>7, <3>2
      <4> QED BY <3>3, <4>1, <4>2, <4>3 DEF TellsIn
    <3> QED BY <3>2, <3>4
  <2> QED BY <1>3, <2>1, <2>8, TellsIs
<1>11. ev # <<>> => m > 0
  BY <1>2, EmptySeq
<1> QED BY <1>1, <1>2, <1>3, <1>9, <1>10, <1>11

\* The greatest of the events that a replay has reached.
LEMMA Greatest ==
  ASSUME NEW n \in Nat, NEW S \in SUBSET (1 .. n), S # {}
  PROVE  \E j \in S : \A k \in S : k <= j
<1>1. PICK R : R = OpToRel(<, Nat)
  OBVIOUS
<1>2. IsWellFoundedOn(R, Nat)
  BY <1>1, NatLessThanWellFounded
<1>3. PICK T : T = {m \in Nat : n - m \in S}
  OBVIOUS
<1>4. T \in SUBSET Nat /\ T # {}
  <2>1. PICK j \in S : TRUE
    OBVIOUS
  <2>2. n - j \in Nat /\ n - (n - j) = j
    OBVIOUS
  <2> QED BY <1>3, <2>1, <2>2
<1>5. PICK a \in T : \A b \in T : ~(<<b, a>> \in R)
  BY <1>2, <1>4, WFMin
<1>6. \A b \in T : ~(b < a)
  BY <1>1, <1>3, <1>5 DEF OpToRel
<1>7. a \in Nat /\ n - a \in S
  BY <1>3
<1>8. ASSUME NEW k \in S PROVE k <= n - a
  <2>1. n - k \in Nat /\ n - (n - k) = k
    OBVIOUS
  <2>2. n - k \in T
    BY <1>3, <2>1
  <2>3. ~(n - k < a)
    BY <1>6, <2>2
  <2> QED BY <1>7, <2>3
<1> QED BY <1>7, <1>8

\* A replay that goes one frame on is at the last event that it has reached.
LEMMA ReplayKeeps ==
  ASSUME NEW m \in Movies,
         NEW w \in Seq(SUBSET Position), Tells(m.events, w), frame \in Nat, frame < Len(w),
         Shows(m, frame), NEW l, l = movie_replay_frame(m)
  PROVE  /\ l \in Movies
         /\ l.mode = m.mode /\ l.events = m.events /\ Shows(l, frame + 1)
<1>1. PICK ev \in Seq(MovieEvent) : ev = m.events
  BY DEF Movies
<1>2. PICK n \in Nat : n = Len(ev)
  OBVIOUS
<1>3. \A i \in 1 .. n : ev[i].frame \in Nat /\ ev[i].matrix \in SUBSET Position
  <2>1. \A i \in 1 .. n : ev[i] \in MovieEvent
    BY <1>2
  <2> QED BY <2>1 DEF MovieEvent
<1>4. PICK r : r = Reached(m, frame)
  OBVIOUS
<1>5. r = {i \in 1 .. n : i > m.idx /\ ev[i].frame <= frame}
  BY <1>1, <1>2, <1>4 DEF Reached
<1>6. CASE r = {}
  <2>1. l = m
    BY <1>4, <1>6 DEF movie_replay_frame
  <2>2. frame # 0
    <3>1. n > 0 /\ ev[1].frame = 0
      BY <1>1, <1>2, EmptySeq DEF Tells
    <3>2. frame = 0 => m.idx = 0 /\ 1 \in r
      BY <1>5, <3>1 DEF Shows
    <3> QED BY <1>6, <3>2
  <2>3. /\ m.idx \in 1 .. n /\ m.cur = ev[m.idx].matrix /\ ev[m.idx].frame <= frame - 1
    BY <1>1, <1>2, <2>2 DEF Shows
  <2>4. \A j \in 1 .. n : j > m.idx => ev[j].frame > frame
    BY <1>3, <1>5, <1>6
  <2>5. ev[m.idx].frame <= frame + 1 - 1 /\ frame + 1 # 0 /\ frame + 1 - 1 = frame
    BY <1>3, <2>3
  <2>6. Shows(m, frame + 1)
    BY <1>1, <1>2, <2>3, <2>4, <2>5 DEF Shows
  <2> QED BY <2>1, <2>6
<1>7. CASE r # {}
  <2>1. \E j \in r : \A k \in r : k <= j
    BY <1>5, <1>7, Greatest
  <2>2. PICK i : i = CHOOSE j \in r : \A k \in r : k <= j
    OBVIOUS
  <2>3. i \in r /\ \A k \in r : k <= i
    BY <2>1, <2>2
  <2>4. i \in 1 .. n /\ ev[i].frame <= frame
    BY <1>5, <2>3
  <2>5. PICK M \in SUBSET Position : M = ev[i].matrix
    BY <1>3, <2>4
  <2>6. l = [m EXCEPT !.idx = i, !.cur = M]
    BY <1>1, <1>4, <1>7, <2>2, <2>5 DEF movie_replay_frame
  <2>11. i \in Nat
    BY <2>4
  <2>7. /\ l \in Movies
        /\ l.mode = m.mode /\ l.events = m.events /\ l.idx = i /\ l.cur = M
    BY <2>5, <2>6, <2>11 DEF Movies
  <2>8. \A j \in 1 .. n : j > i => ev[j].frame > frame
    <3>1. SUFFICES ASSUME NEW j \in 1 .. n, j > i, ~(ev[j].frame > frame) PROVE FALSE
      OBVIOUS
    <3>2. j > m.idx /\ ev[j].frame <= frame
      <4>1. m.idx \in Nat
        BY DEF Movies
      <4> QED BY <1>3, <1>5, <2>3, <3>1, <4>1
    <3>3. j <= i
      BY <1>5, <2>3, <3>2
    <3> QED BY <2>4, <3>1, <3>3
  <2>9. frame + 1 # 0 /\ frame + 1 - 1 = frame
    OBVIOUS
  <2>10. Shows(l, frame + 1)
    BY <1>1, <1>2, <2>4, <2>5, <2>7, <2>8, <2>9 DEF Shows
  <2> QED BY <2>7, <2>10
<1> QED BY <1>6, <1>7

LEMMA KbdStart == KeyboardInit => KbdInv
<1> SUFFICES ASSUME KeyboardInit PROVE KbdInv
  OBVIOUS
<1>0. \A x : x = <<>> => Len(x) = 0 /\ DOMAIN x = {} /\ x \in Seq(PressedKey) /\ x \in Seq(Char)
             /\ x \in Seq(MovieEvent) /\ x \in Seq(SUBSET Position)
  OBVIOUS
<1>1. PICK k : k = oric_keyboard_init
  OBVIOUS
<1>2. k \in Keys /\ k.matrix = {} /\ k.layout = "qwerty" /\ k.pressed = <<>> /\ k.pending = {}
  BY <1>0, <1>1 DEF oric_keyboard_init, Keys
<1>3. kb = k \/ kb = [k EXCEPT !.layout = "azerty"]
  BY <1>1 DEF KeyboardInit
<1>4. kb \in Keys /\ kb.matrix = {} /\ kb.pressed = <<>> /\ kb.pending = {}
  BY <1>2, <1>3 DEF Keys
<1>5. ListInv(kb, Hands(joy.mode, down), movie.mode # "replay")
  <2>1. DOMAIN kb.pressed = {}
    BY <1>0, <1>4
  <2> QED BY <1>4, <2>1 DEF ListInv, OneEach
<1>6. joy \in Sticks /\ joy.mask = {}
  BY DEF KeyboardInit, Sticks
<1>7. /\ down \in SUBSET HostKey /\ text \in Seq(Char) /\ frame \in Nat /\ frame = 0
      /\ watched \in Seq(SUBSET Position) /\ Len(watched) = 0 /\ watched = <<>> /\ saved = {}
  BY <1>0 DEF KeyboardInit
<1>8. pad \in [held : SUBSET PadButton, x : {-1, 0, 1}]
  BY DEF KeyboardInit
<1>9. PICK m \in {"off", "record"} : movie = [mode |-> m, events |-> <<>>, idx |-> 0, cur |-> {}]
  BY DEF KeyboardInit
<1>10. /\ movie.mode = m /\ movie.events = <<>> /\ movie.idx = 0
       /\ movie \in Movies
  BY <1>0, <1>9 DEF Movies
<1>11. Tells(movie.events, watched)
  <2>1. DOMAIN movie.events = {}
    BY <1>0, <1>10
  <2> QED BY <1>7, <2>1 DEF Tells
<1>12. MovieInv
  BY <1>7, <1>10, <1>11 DEF MovieInv
<1>13. StickInv
  BY <1>6 DEF StickInv
<1>14. KbdTypeOK
  BY <1>4, <1>6, <1>7, <1>8, <1>10 DEF KbdTypeOK, Movies
<1> QED BY <1>5, <1>7, <1>12, <1>13, <1>14 DEF KbdInv, HandInv

\* Who gets a key, the stick or the keyboard, has it in its books.
Books(k, j, F, own) ==
  /\ k \in Keys /\ ListInv(k, Hands(j.mode, F), own)
  /\ j \in Sticks
  /\ j.mode = "keyboard" => j.mask \subseteq {StickOf[c] : c \in F \cap DOMAIN StickOf}

LEMMA DeliverDown ==
  ASSUME NEW own \in BOOLEAN, Books(kb, joy, down, own), NEW sc \in HostKey, down \in SUBSET HostKey,
         NEW F, F = down \cup {sc}, Deliver(sc, TRUE)
  PROVE  /\ Books(kb', joy', F, own) /\ joy'.mode = joy.mode
         /\ joy.mode # "keyboard" => joy' = joy
<1>0. kb \in Keys /\ joy \in Sticks /\ ListInv(kb, Hands(joy.mode, down), own)
  BY DEF Books
<1>1. CASE joy.mode = "keyboard" /\ sc \in DOMAIN StickOf
  <2>1. PICK M : M = joy.mask \cup {StickOf[sc]}
    OBVIOUS
  <2>2. M \in SUBSET Button
    BY <1>0, <1>1, <2>1, TablesAreTyped DEF Button, Sticks
  <2>3. joy' = [joy EXCEPT !.mask = M] /\ kb' = kb
    BY <1>1, <2>1 DEF Deliver
  <2>4. joy' \in Sticks /\ joy'.mode = joy.mode /\ joy'.mask = M
    BY <1>0, <2>2, <2>3 DEF Sticks
  <2>5. M \subseteq {StickOf[c] : c \in F \cap DOMAIN StickOf}
    BY <1>1, <2>1 DEF Books
  <2>6. Hands(joy.mode, F) = Hands(joy.mode, down)
    BY <1>1 DEF Hands
  <2> QED BY <1>0, <1>1, <2>3, <2>4, <2>5, <2>6 DEF Books
<1>2. CASE ~(joy.mode = "keyboard" /\ sc \in DOMAIN StickOf)
  <2>1. joy' = joy /\ kb' = oric_keyboard_handle_sdl_event(kb, sc, TRUE, "rctrl" \in down)
    BY <1>2 DEF Deliver
  <2>2. PICK G \in SUBSET HostKey : G = Hands(joy.mode, down)
    BY DEF Hands
  <2>3. Hands(joy.mode, F) = G \cup {sc}
    BY <1>2, <2>2 DEF Hands
  <2>4. kb' \in Keys /\ ListInv(kb', G \cup {sc}, own)
    BY <1>0, <2>1, <2>2, DownKeeps
  <2>5. joy.mode = "keyboard" => joy.mask \subseteq {StickOf[c] : c \in F \cap DOMAIN StickOf}
    BY DEF Books
  <2> QED BY <1>0, <2>1, <2>3, <2>4, <2>5 DEF Books
<1> QED BY <1>1, <1>2

LEMMA DeliverUp ==
  ASSUME NEW own \in BOOLEAN, Books(kb, joy, down, own), NEW sc \in HostKey, down \in SUBSET HostKey,
         NEW F, F = down \ {sc}, Deliver(sc, FALSE)
  PROVE  /\ Books(kb', joy', F, own) /\ joy'.mode = joy.mode
         /\ joy.mode # "keyboard" => joy' = joy
<1>0. kb \in Keys /\ joy \in Sticks /\ ListInv(kb, Hands(joy.mode, down), own)
  BY DEF Books
<1>1. CASE joy.mode = "keyboard" /\ sc \in DOMAIN StickOf
  <2>1. PICK M : M = joy.mask \ {StickOf[sc]}
    OBVIOUS
  <2>2. M \in SUBSET Button
    BY <1>0, <2>1 DEF Sticks
  <2>3. joy' = [joy EXCEPT !.mask = M] /\ kb' = kb
    BY <1>1, <2>1 DEF Deliver
  <2>4. joy' \in Sticks /\ joy'.mode = joy.mode /\ joy'.mask = M
    BY <1>0, <2>2, <2>3 DEF Sticks
  <2>5. M \subseteq {StickOf[c] : c \in F \cap DOMAIN StickOf}
    BY <1>1, <2>1 DEF Books
  <2>6. Hands(joy.mode, F) = Hands(joy.mode, down)
    BY <1>1 DEF Hands
  <2> QED BY <1>0, <1>1, <2>3, <2>4, <2>5, <2>6 DEF Books
<1>2. CASE ~(joy.mode = "keyboard" /\ sc \in DOMAIN StickOf)
  <2>1. joy' = joy /\ kb' = oric_keyboard_handle_sdl_event(kb, sc, FALSE, "rctrl" \in down)
    BY <1>2 DEF Deliver
  <2>2. PICK G \in SUBSET HostKey : G = Hands(joy.mode, down)
    BY DEF Hands
  <2>3. Hands(joy.mode, F) = G \ {sc}
    BY <1>2, <2>2 DEF Hands
  <2>4. kb' \in Keys /\ ListInv(kb', G \ {sc}, own)
    BY <1>0, <2>1, <2>2, UpKeeps
  <2>5. ASSUME joy.mode = "keyboard", NEW b \in joy.mask
        PROVE b \in {StickOf[c] : c \in F \cap DOMAIN StickOf}
    <3>1. PICK c \in down \cap DOMAIN StickOf : b = StickOf[c]
      BY <2>5 DEF Books
    <3>2. c # sc
      BY <1>2, <2>5
    <3> QED BY <3>1, <3>2
  <2> QED BY <1>0, <2>1, <2>3, <2>4, <2>5 DEF Books
<1> QED BY <1>1, <1>2

\* The stick's part of the invariant, by values.
StickIn(j, F, held, x) ==
  /\ j.mode = "off" => j.mask = {}
  /\ j.mode = "keyboard" => j.mask \subseteq {StickOf[c] : c \in F \cap DOMAIN StickOf}
  /\ j.mode = "gamepad" => j.mask \subseteq Bits(held) \cup (IF x < 0 THEN {"LEFT"} ELSE {})
                                          \cup (IF x > 0 THEN {"RIGHT"} ELSE {})

LEMMA StickInIs == StickInv <=> StickIn(joy, down, pad.held, pad.x)
BY DEF StickInv, StickIn

Own == movie.mode # "replay"

\* The keyboard and the stick after a step that leaves the movie alone.
LEMMA HandStep ==
  ASSUME KbdInv, UNCHANGED <<saved, movie, frame, watched>>, down' \in SUBSET HostKey,
         text' \in Seq(Char), kb' \in Keys, joy' \in Sticks, ListInv(kb', Hands(joy'.mode, down'), Own),
         pad' \in [held : SUBSET PadButton, x : {-1, 0, 1}], StickIn(joy', down', pad'.held, pad'.x)
  PROVE  KbdInv'
<1>1. KbdTypeOK'
  BY DEF KbdInv, KbdTypeOK
<1>2. HandInv'
  BY DEF HandInv, Own
<1>3. StickInv'
  BY DEF StickIn, StickInv
<1>4. MovieInv'
  BY DEF KbdInv, MovieInv
<1>5. saved' = {}
  BY DEF KbdInv
<1> QED BY <1>1, <1>2, <1>3, <1>4, <1>5 DEF KbdInv

LEMMA KbdFacts ==
  ASSUME KbdInv
  PROVE  /\ kb \in Keys /\ joy \in Sticks /\ down \in SUBSET HostKey /\ text \in Seq(Char)
         /\ pad \in [held : SUBSET PadButton, x : {-1, 0, 1}] /\ Own \in BOOLEAN /\ saved = {}
         /\ ListInv(kb, Hands(joy.mode, down), Own) /\ StickIn(joy, down, pad.held, pad.x)
         /\ Books(kb, joy, down, Own)
<1>1. KbdTypeOK /\ HandInv /\ StickInv /\ saved = {}
  BY DEF KbdInv
<1>2. StickIn(joy, down, pad.held, pad.x)
  BY <1>1, StickInIs
<1>3. ListInv(kb, Hands(joy.mode, down), Own) /\ Own \in BOOLEAN
  BY <1>1 DEF HandInv, Own
<1>4. Books(kb, joy, down, Own)
  BY <1>1, <1>2, <1>3 DEF Books, StickIn, KbdTypeOK
<1> QED BY <1>1, <1>2, <1>3, <1>4 DEF KbdTypeOK

LEMMA StickDelivered ==
  ASSUME NEW j \in Sticks, NEW F, NEW G, NEW i \in Sticks, NEW h, NEW x, StickIn(j, F, h, x), i.mode = j.mode,
         j.mode # "keyboard" => i = j,
         j.mode = "keyboard" => i.mask \subseteq {StickOf[c] : c \in G \cap DOMAIN StickOf}
  PROVE  StickIn(i, G, h, x)
BY DEF StickIn

LEMMA KeyDownStep == ASSUME KbdInv, NEW sc \in HostKey, KeyDown(sc) PROVE KbdInv'
<1>1. PICK F \in SUBSET HostKey : F = down \cup {sc} /\ down' = F
  BY KbdFacts DEF KeyDown
<1>2. text' \in Seq(Char)
  <2>1. ASSUME sc \in DOMAIN Texts, NEW c \in Texts[sc], text' = Append(text, c) PROVE text' \in Seq(Char)
    <3>1. c \in Char
      BY <2>1, TablesAreTyped
    <3> QED BY <2>1, <3>1, KbdFacts
  <2> QED BY <2>1, KbdFacts DEF KeyDown
<1>3. UNCHANGED <<pad, saved, movie, frame, watched>>
  BY DEF KeyDown
<1>4. CASE open
  <2>1. kb' = kb /\ joy' = joy
    BY <1>4 DEF KeyDown
  <2>2. Hands(joy.mode, down) \subseteq Hands(joy.mode, F)
    BY <1>1 DEF Hands
  <2>3. ListInv(kb, Hands(joy.mode, F), Own)
    BY <2>2, KbdFacts, MoreFingers
  <2>4. StickIn(joy, F, pad.held, pad.x)
    BY <1>1, KbdFacts DEF StickIn
  <2> QED BY <1>1, <1>2, <1>3, <2>1, <2>3, <2>4, KbdFacts, HandStep
<1>5. CASE ~open
  <2>1. Deliver(sc, TRUE)
    BY <1>5 DEF KeyDown
  <2>2. Books(kb', joy', F, Own) /\ joy'.mode = joy.mode /\ (joy.mode # "keyboard" => joy' = joy)
    BY <1>1, <2>1, KbdFacts, DeliverDown
  <2>3. kb' \in Keys /\ joy' \in Sticks /\ ListInv(kb', Hands(joy'.mode, F), Own)
    BY <2>2 DEF Books
  <2>4. StickIn(joy', F, pad.held, pad.x)
    BY <2>2, KbdFacts, StickDelivered DEF Books
  <2> QED BY <1>1, <1>2, <1>3, <2>3, <2>4, KbdFacts, HandStep
<1> QED BY <1>4, <1>5

LEMMA KeyUpStep == ASSUME KbdInv, NEW sc \in HostKey, KeyUp(sc) PROVE KbdInv'
<1>1. PICK F \in SUBSET HostKey : F = down \ {sc} /\ down' = F
  BY KbdFacts DEF KeyUp
<1>2. Deliver(sc, FALSE) /\ UNCHANGED <<text, pad, saved, movie, frame, watched>>
  BY DEF KeyUp, Release
<1>3. Books(kb', joy', F, Own) /\ joy'.mode = joy.mode /\ (joy.mode # "keyboard" => joy' = joy)
  BY <1>1, <1>2, KbdFacts, DeliverUp
<1>4. kb' \in Keys /\ joy' \in Sticks /\ ListInv(kb', Hands(joy'.mode, F), Own)
  BY <1>3 DEF Books
<1>5. StickIn(joy', F, pad.held, pad.x)
  BY <1>3, KbdFacts, StickDelivered DEF Books
<1> QED BY <1>1, <1>2, <1>4, <1>5, KbdFacts, HandStep

LEMMA TextStep == ASSUME KbdInv, TextInput PROVE KbdInv'
<1>1. /\ text # <<>> /\ text' = Tail(text) /\ UNCHANGED <<joy, down, pad, saved, movie, frame, watched>>
      /\ kb' = IF open \/ kb.layout # "azerty" THEN kb ELSE SymbolicText(kb, Head(text))
  BY DEF TextInput
<1>2. PICK c \in Char : c = Head(text)
  BY <1>1, KbdFacts
<1>3. text' \in Seq(Char)
  BY <1>1, KbdFacts
<1>4. PICK F \in SUBSET HostKey : F = Hands(joy.mode, down)
  BY KbdFacts DEF Hands
<1>5. kb' \in Keys /\ ListInv(kb', F, Own)
  <2>1. CASE open \/ kb.layout # "azerty"
    BY <1>1, <1>4, <2>1, KbdFacts
  <2>2. CASE kb.layout = "azerty" /\ kb' = SymbolicText(kb, c)
    BY <1>4, <2>2, KbdFacts, TextKeeps
  <2> QED BY <1>1, <1>2, <2>1, <2>2
<1> QED BY <1>1, <1>3, <1>4, <1>5, KbdFacts, HandStep

\* A change of layout, or of what the stick is, finds an empty hand.
LEMMA LayoutStep == ASSUME KbdInv, ~HeldAtToggle, KeyboardToggle PROVE KbdInv'
<1>1. /\ down = {} /\ UNCHANGED <<joy, down, text, pad, saved, movie, frame, watched>>
      /\ kb' = [kb EXCEPT !.layout = IF @ = "azerty" THEN "qwerty" ELSE "azerty"]
  BY DEF KeyboardToggle
<1>2. Hands(joy.mode, down) = {}
  BY <1>1 DEF Hands
<1>3. PICK t \in {"qwerty", "azerty"} : kb' = [kb EXCEPT !.layout = t]
  <2>1. (IF kb.layout = "azerty" THEN "qwerty" ELSE "azerty") \in {"qwerty", "azerty"}
    OBVIOUS
  <2> QED BY <1>1, <2>1
<1>4. /\ kb' \in Keys /\ kb'.layout = t /\ kb'.matrix = kb.matrix /\ kb'.pressed = kb.pressed
      /\ kb'.pending = kb.pending
  BY <1>3, KbdFacts DEF Keys
<1>5. ListInv(kb, {}, Own)
  BY <1>2, KbdFacts
<1>6. kb.pressed = <<>> /\ kb.pending = {} /\ (Own => kb.matrix = {})
  BY <1>5, KbdFacts, EmptyHand
<1>7. ListInv(kb', {}, Own)
  BY <1>4, <1>5, <1>6 DEF ListInv
<1> QED BY <1>1, <1>2, <1>4, <1>7, KbdFacts, HandStep

LEMMA CycleStep == ASSUME KbdInv, ~HeldAtToggle, joystick_cycle PROVE KbdInv'
<1>1. /\ down = {} /\ UNCHANGED <<kb, down, text, pad, saved, movie, frame, watched>>
      /\ joy' = [mode |-> CASE joy.mode = "off" -> "keyboard" [] joy.mode = "keyboard" -> "gamepad"
                            [] OTHER -> "off", mask |-> {}]
  BY DEF joystick_cycle
<1>2. PICK t \in {"off", "keyboard", "gamepad"} : joy' = [mode |-> t, mask |-> {}]
  <2>1. (CASE joy.mode = "off" -> "keyboard" [] joy.mode = "keyboard" -> "gamepad" [] OTHER -> "off")
          \in {"off", "keyboard", "gamepad"}
    OBVIOUS
  <2> QED BY <1>1, <2>1
<1>3. joy' \in Sticks /\ joy'.mode = t /\ joy'.mask = {}
  BY <1>2 DEF Sticks
<1>4. Hands(joy'.mode, down) = Hands(joy.mode, down)
  BY <1>1 DEF Hands
<1>5. StickIn(joy', down, pad.held, pad.x)
  BY <1>3 DEF StickIn
<1> QED BY <1>1, <1>3, <1>4, <1>5, KbdFacts, HandStep

LEMMA PadStep == ASSUME KbdInv, GamepadButton \/ GamepadAxis PROVE KbdInv'
<1>1. joy.mode = "gamepad" /\ UNCHANGED <<kb, down, text, saved, movie, frame, watched>>
  BY DEF GamepadButton, GamepadAxis
<1>2. PICK H \in SUBSET PadButton, x \in {-1, 0, 1} : pad.held = H /\ pad.x = x
  BY KbdFacts
<1>3. joy.mask \in SUBSET Button
      /\ joy.mask \subseteq Bits(H) \cup (IF x < 0 THEN {"LEFT"} ELSE {}) \cup (IF x > 0 THEN {"RIGHT"} ELSE {})
  BY <1>1, <1>2, KbdFacts DEF StickIn, Sticks
<1>4. ASSUME NEW M \in SUBSET Button, joy' = [joy EXCEPT !.mask = M],
             NEW G \in SUBSET PadButton, NEW y \in {-1, 0, 1},
             pad' \in [held : SUBSET PadButton, x : {-1, 0, 1}], pad'.held = G, pad'.x = y,
             M \subseteq Bits(G) \cup (IF y < 0 THEN {"LEFT"} ELSE {}) \cup (IF y > 0 THEN {"RIGHT"} ELSE {})
      PROVE KbdInv'
  <2>1. joy' \in Sticks /\ joy'.mode = "gamepad" /\ joy'.mask = M
    BY <1>1, <1>4, KbdFacts DEF Sticks
  <2>2. StickIn(joy', down, pad'.held, pad'.x)
    BY <1>4, <2>1 DEF StickIn
  <2>3. Hands(joy'.mode, down) = Hands(joy.mode, down)
    BY <1>1, <2>1
  <2> QED BY <1>1, <1>4, <2>1, <2>2, <2>3, KbdFacts, HandStep
<1>5. CASE GamepadButton
  <2>1. PICK b \in PadButton :
          /\ pad' = [pad EXCEPT !.held = IF b \notin pad.held THEN @ \cup {b} ELSE @ \ {b}]
          /\ joy' = [joy EXCEPT !.mask = IF b \notin pad.held
                                         THEN @ \cup {gamepad_button_to_ijk[b]}
                                         ELSE @ \ {gamepad_button_to_ijk[b]}]
    BY <1>5 DEF GamepadButton, PadButton
  <2>2. PICK G : G = IF b \notin H THEN H \cup {b} ELSE H \ {b}
    OBVIOUS
  <2>3. PICK i : i = gamepad_button_to_ijk[b]
    OBVIOUS
  <2>4. PICK M : M = IF b \notin H THEN joy.mask \cup {i} ELSE joy.mask \ {i}
    OBVIOUS
  <2>5. pad' = [pad EXCEPT !.held = G] /\ joy' = [joy EXCEPT !.mask = M]
    BY <1>2, <2>1, <2>2, <2>3, <2>4
  <2>6. i \in Button
    BY <2>1, <2>3 DEF PadButton, Button, gamepad_button_to_ijk
  <2>7. G \in SUBSET PadButton /\ M \in SUBSET Button
    BY <1>2, <1>3, <2>1, <2>2, <2>4, <2>6
  <2>8. pad' \in [held : SUBSET PadButton, x : {-1, 0, 1}] /\ pad'.held = G /\ pad'.x = x
    BY <1>2, <2>5, <2>7, KbdFacts
  <2>9. Bits(H) \cup {i} = Bits(H \cup {b}) /\ Bits(H) \ {i} \subseteq Bits(H \ {b})
    BY <2>3 DEF Bits
  <2>10. M \subseteq Bits(G) \cup (IF x < 0 THEN {"LEFT"} ELSE {}) \cup (IF x > 0 THEN {"RIGHT"} ELSE {})
    BY <1>3, <2>2, <2>4, <2>9
  <2> QED BY <1>4, <2>5, <2>7, <2>8, <2>10
<1>6. CASE GamepadAxis
  <2>1. PICK y \in {-1, 0, 1} :
          /\ pad' = [pad EXCEPT !.x = y]
          /\ joy' = [joy EXCEPT !.mask = (@ \ {"LEFT", "RIGHT"}) \cup
                          (IF y < 0 THEN {"LEFT"} ELSE IF y > 0 THEN {"RIGHT"} ELSE {})]
    BY <1>6 DEF GamepadAxis
  <2>2. PICK M : M = (joy.mask \ {"LEFT", "RIGHT"}) \cup
                          (IF y < 0 THEN {"LEFT"} ELSE IF y > 0 THEN {"RIGHT"} ELSE {})
    OBVIOUS
  <2>3. M \in SUBSET Button
    BY <1>3, <2>2 DEF Button
  <2>4. joy' = [joy EXCEPT !.mask = M]
    BY <2>1, <2>2
  <2>5. pad' \in [held : SUBSET PadButton, x : {-1, 0, 1}] /\ pad'.held = H /\ pad'.x = y
    BY <1>2, <2>1, KbdFacts
  <2>6. M \subseteq Bits(H) \cup (IF y < 0 THEN {"LEFT"} ELSE {}) \cup (IF y > 0 THEN {"RIGHT"} ELSE {})
    BY <1>3, <2>2
  <2> QED BY <1>4, <2>3, <2>4, <2>5, <2>6
<1> QED BY <1>5, <1>6

LEMMA MenuKeyStep == ASSUME KbdInv, MenuToggle PROVE KbdInv'
BY KbdFacts, HandStep DEF MenuToggle

LEMMA SaveMatrixStep == ASSUME KbdInv, ~HeldAtSave, SaveMatrix PROVE KbdInv'
<1>1. saved' = {} /\ UNCHANGED <<kb, joy, down, text, pad, movie, frame, watched>>
  BY DEF SaveMatrix
<1> QED BY <1>1 DEF KbdInv, KbdTypeOK, HandInv, StickInv, MovieInv

LEMMA LoadMatrixStep == ASSUME KbdInv, LoadMatrix PROVE KbdInv'
<1>1. kb' = [kb EXCEPT !.matrix = {}] /\ UNCHANGED <<joy, down, text, pad, saved, movie, frame, watched>>
  BY KbdFacts DEF LoadMatrix
<1>2. kb' \in Keys /\ ListInv(kb', Hands(joy.mode, down), Own)
  BY <1>1, KbdFacts, ClearKeeps
<1> QED BY <1>1, <1>2, KbdFacts, HandStep

\* A frame of a recording adds what the machine runs with; a frame of a replay
\* gives the matrix what the movie shows.
LEMMA FrameStep == ASSUME KbdInv, Frame PROVE KbdInv'
<1>1. /\ movie \in Movies /\ frame \in Nat /\ watched \in Seq(SUBSET Position) /\ MovieInv
      /\ Tells(movie.events, watched) /\ movie.events \in Seq(MovieEvent)
  BY DEF KbdInv, KbdTypeOK, MovieInv, Movies
<1>2. frame < MaxMovieFrames /\ frame' = frame + 1 /\ UNCHANGED <<joy, down, text, pad, saved>>
  BY DEF Frame
<1>3. PICK M \in SUBSET Position : M = kb.matrix
  BY KbdFacts DEF Keys
<1>4. CASE movie.mode = "record"
  <2>1. movie' = movie_record_frame(movie) /\ watched' = Append(watched, M) /\ kb' = kb
    BY <1>3, <1>4 DEF Frame
  <2>2. frame = Len(watched) /\ movie.idx = 0
    BY <1>1, <1>4 DEF MovieInv
  <2>3. PICK e : e = [frame |-> frame, matrix |-> M]
    OBVIOUS
  <2>4. e \in MovieEvent /\ e.frame = Len(watched) /\ e.matrix = M
    BY <1>1, <2>2, <2>3 DEF MovieEvent
  <2>5. watched' \in Seq(SUBSET Position) /\ Len(watched') = Len(watched) + 1
    BY <1>1, <2>1
  <2>6. movie' \in Movies /\ movie'.mode = "record" /\ movie'.idx = 0 /\ Tells(movie'.events, watched')
    <3>1. CASE movie.events # <<>> /\ movie.events[Len(movie.events)].matrix = M
      <4>1. movie' = movie
        BY <1>3, <2>1, <3>1 DEF movie_record_frame, LastEvent
      <4>2. Tells(movie.events, watched')
        <5>1. PICK u : u = Append(movie.events, e)
          OBVIOUS
        <5>2. PICK ev \in Seq(MovieEvent) : ev = movie.events
          BY <1>1
        <5>3. ev # <<>> /\ ev[Len(ev)].matrix = M /\ Tells(ev, watched) /\ u = Append(ev, e)
          BY <1>1, <3>1, <5>1, <5>2
        <5>4. Tells(ev, watched')
          BY <1>1, <2>1, <2>4, <5>3, RecordKeeps
        <5> QED BY <5>2, <5>4
      <4> QED BY <1>1, <1>4, <2>2, <4>1, <4>2
    <3>2. CASE ~(movie.events # <<>> /\ movie.events[Len(movie.events)].matrix = M)
      <4>1. PICK u : u = Append(movie.events, e)
        OBVIOUS
      <4>2. movie' = [movie EXCEPT !.events = u]
        BY <1>3, <2>1, <2>3, <3>2, <4>1 DEF movie_record_frame, LastEvent
      <4>3. u \in Seq(MovieEvent) /\ Tells(u, watched')
        BY <1>1, <2>1, <2>4, <4>1, RecordKeeps
      <4>4. movie' \in Movies /\ movie'.mode = "record" /\ movie'.idx = 0 /\ movie'.events = u
        BY <1>1, <1>4, <2>2, <4>2, <4>3 DEF Movies
      <4> QED BY <4>3, <4>4
    <3> QED BY <3>1, <3>2
  <2>7. MovieInv'
    BY <1>2, <2>2, <2>5, <2>6 DEF MovieInv
  <2>8. HandInv' /\ StickInv'
    BY <1>2, <1>4, <2>1, <2>6 DEF KbdInv, HandInv, StickInv
  <2>9. KbdTypeOK'
    BY <1>1, <1>2, <2>1, <2>5, <2>6 DEF KbdInv, KbdTypeOK
  <2> QED BY <1>2, <2>7, <2>8, <2>9 DEF KbdInv
<1>5. CASE movie.mode = "replay"
  <2>1. movie' = movie_replay_frame(movie) /\ kb' = [kb EXCEPT !.matrix = movie'.cur] /\ watched' = watched
    BY <1>5 DEF Frame
  <2>2. frame <= Len(watched) /\ Len(watched) = MaxMovieFrames /\ Shows(movie, frame)
    BY <1>1, <1>5 DEF MovieInv
  <2>3. /\ movie' \in Movies /\ movie'.mode = "replay" /\ movie'.events = movie.events
        /\ Shows(movie', frame + 1)
    BY <1>1, <1>2, <1>5, <2>1, <2>2, ReplayKeeps
  <2>4. PICK C \in SUBSET Position : C = movie'.cur
    BY <2>3 DEF Movies
  <2>5. /\ kb' \in Keys /\ kb'.layout = kb.layout /\ kb'.pressed = kb.pressed
        /\ kb'.pending = kb.pending
    BY <2>1, <2>4, KbdFacts DEF Keys
  <2>6. ~Own /\ ListInv(kb, Hands(joy.mode, down), FALSE)
    BY <1>5, KbdFacts DEF Own
  <2>7. ListInv(kb', Hands(joy.mode, down), FALSE)
    BY <2>5, <2>6 DEF ListInv
  <2>8. HandInv' /\ StickInv'
    BY <1>2, <2>3, <2>7 DEF KbdInv, HandInv, StickInv
  <2>9. MovieInv'
    BY <1>1, <1>2, <2>1, <2>2, <2>3, KeyboardAssumption DEF MovieInv
  <2>10. KbdTypeOK'
    BY <1>1, <1>2, <2>1, <2>3, <2>5 DEF KbdInv, KbdTypeOK
  <2> QED BY <1>2, <2>8, <2>9, <2>10 DEF KbdInv
<1> QED BY <1>4, <1>5 DEF Frame

\* Another run of the emulator replays what this one recorded.
LEMMA ReplayStep == ASSUME KbdInv, movie_replay_open PROVE KbdInv'
<1>1. /\ movie \in Movies /\ watched \in Seq(SUBSET Position) /\ MovieInv
      /\ Tells(movie.events, watched) /\ movie.mode = "record" /\ frame = MaxMovieFrames
      /\ frame = Len(watched)
  BY DEF KbdInv, KbdTypeOK, MovieInv, movie_replay_open
<1>2. /\ movie' = [movie EXCEPT !.mode = "replay", !.idx = 0, !.cur = {}]
      /\ frame' = 0 /\ down' = {} /\ text' = <<>> /\ saved' = {} /\ watched' = watched
      /\ kb' = [oric_keyboard_init EXCEPT !.layout = kb.layout]
      /\ joy' = [joy EXCEPT !.mask = {}] /\ pad' = [held |-> {}, x |-> 0]
  BY DEF movie_replay_open
<1>3. movie' \in Movies /\ movie'.mode = "replay" /\ movie'.idx = 0 /\ movie'.events = movie.events
  BY <1>1, <1>2 DEF Movies
<1>4. MovieInv'
  BY <1>1, <1>2, <1>3, KeyboardAssumption DEF MovieInv, Shows
<1>5. PICK t \in {"qwerty", "azerty"} : t = kb.layout
  BY KbdFacts DEF Keys
<1>6. kb' = [matrix |-> {}, layout |-> t, pressed |-> <<>>, pending |-> {}]
  BY <1>2, <1>5 DEF oric_keyboard_init
<1>7. kb' \in Keys /\ kb'.pressed = <<>> /\ kb'.pending = {} /\ kb'.matrix = {}
  BY <1>6 DEF Keys
<1>8. ListInv(kb', {}, FALSE)
  <2>1. \A x : x = <<>> => DOMAIN x = {}
    OBVIOUS
  <2>2. DOMAIN kb'.pressed = {}
    BY <1>7, <2>1
  <2> QED BY <1>7, <2>2 DEF ListInv, OneEach
<1>9. joy' \in Sticks /\ joy'.mask = {}
  BY <1>2, KbdFacts DEF Sticks
<1>10. StickInv'
  BY <1>9 DEF StickInv
<1>11. HandInv'
  <2>1. Hands(joy'.mode, down') = {}
    BY <1>2 DEF Hands
  <2> QED BY <1>3, <1>8, <2>1 DEF HandInv
<1>12. KbdTypeOK'
  <2>1. pad' \in [held : SUBSET PadButton, x : {-1, 0, 1}] /\ text' \in Seq(Char) /\ down' \in SUBSET HostKey
    BY <1>2
  <2> QED BY <1>1, <1>2, <1>3, <1>7, <1>9, <2>1 DEF KbdTypeOK
<1> QED BY <1>2, <1>4, <1>10, <1>11, <1>12 DEF KbdInv

\* What the keyboard, the stick and the movie keep: the list of pressed keys
\* has one entry for each key that is held, the mask of the stick has a finger
\* for each button, and the events of the movie tell the session from frame to
\* frame (keyboard.c, joystick.c, movie.c).
THEOREM KeyboardHolds ==
  ASSUME ~HeldAtToggle, ~HeldAtSave
  PROVE  KeyboardSpec => []KbdInv
<1>1. KbdInv /\ [KeyboardNext]_kbdVars => KbdInv'
  <2> SUFFICES ASSUME KbdInv, [KeyboardNext]_kbdVars PROVE KbdInv'
    OBVIOUS
  <2>1. CASE \E sc \in HostKey : KeyDown(sc) \/ KeyUp(sc)
    BY <2>1, KeyDownStep, KeyUpStep
  <2>2. CASE TextInput \/ MenuToggle
    BY <2>2, TextStep, MenuKeyStep
  <2>3. CASE KeyboardToggle \/ joystick_cycle
    BY <2>3, LayoutStep, CycleStep
  <2>4. CASE GamepadButton \/ GamepadAxis
    BY <2>4, PadStep
  <2>5. CASE SaveMatrix \/ LoadMatrix
    BY <2>5, SaveMatrixStep, LoadMatrixStep
  <2>6. CASE Frame \/ movie_replay_open
    BY <2>6, FrameStep, ReplayStep
  <2>7. CASE UNCHANGED kbdVars
    BY <2>7 DEF kbdVars, KbdInv, KbdTypeOK, HandInv, StickInv, MovieInv
  <2> QED BY <2>1, <2>2, <2>3, <2>4, <2>5, <2>6, <2>7 DEF KeyboardNext
<1> QED BY <1>1, KbdStart, PTL DEF KeyboardSpec

\* A key that nobody holds is not pressed, whatever the order of KEYDOWN, late
\* text and KEYUP, and a replay shows each frame the matrix that the recorded
\* frame ran with (keyboard.c, joystick.c, movie.c), if the user changes layout
\* and stick, and saves, with no key held.
THEOREM KeysTrue ==
  ASSUME ~HeldAtToggle, ~HeldAtSave
  PROVE  KeyboardSpec => []KeysAreTrue
<1>1. KbdInv => KeysAreTrue
  <2> SUFFICES ASSUME KbdInv PROVE KeysAreTrue
    OBVIOUS
  <2>1. NoStuckKey
    <3> SUFFICES ASSUME movie.mode # "replay"
                 PROVE  /\ \A i \in DOMAIN kb.pressed : kb.pressed[i].sc \in down
                        /\ down = {} => kb.matrix = {} /\ kb.pending = {}
                        /\ (down = {} /\ pad = [held |-> {}, x |-> 0]) => joy.mask = {}
      BY DEF NoStuckKey
    <3>1. Own = TRUE /\ ListInv(kb, Hands(joy.mode, down), TRUE)
      BY KbdFacts DEF Own
    <3>2. \A i \in DOMAIN kb.pressed : kb.pressed[i].sc \in down
      BY <3>1 DEF ListInv, Hands
    <3>3. down = {} => kb.matrix = {} /\ kb.pending = {}
      <4>1. down = {} => Hands(joy.mode, down) = {}
        BY DEF Hands
      <4> QED BY <3>1, <4>1, KbdFacts, EmptyHand
    <3>4. (down = {} /\ pad = [held |-> {}, x |-> 0]) => joy.mask = {}
      BY KbdFacts DEF StickIn, Sticks, Bits
    <3> QED BY <3>2, <3>3, <3>4
  <2>2. ReplayIsExact
    <3> SUFFICES ASSUME movie.mode = "replay", frame > 0 PROVE movie.cur = watched[frame]
      BY DEF ReplayIsExact
    <3>1. /\ movie \in Movies /\ frame \in Nat /\ watched \in Seq(SUBSET Position)
          /\ Tells(movie.events, watched) /\ frame <= Len(watched) /\ Shows(movie, frame)
      BY DEF KbdInv, KbdTypeOK, MovieInv
    <3>2. /\ movie.idx \in DOMAIN movie.events /\ movie.cur = movie.events[movie.idx].matrix
          /\ movie.events[movie.idx].frame <= frame - 1
          /\ \A j \in DOMAIN movie.events : j > movie.idx => movie.events[j].frame > frame - 1
      BY <3>1 DEF Shows
    <3>3. PICK f \in 0 .. Len(watched) - 1 : f = frame - 1 /\ f + 1 = frame
      BY <3>1
    <3>4. watched[f + 1] = movie.events[movie.idx].matrix
      BY <3>1, <3>2, <3>3 DEF Tells
    <3> QED BY <3>2, <3>3, <3>4
  <2> QED BY <2>1, <2>2 DEF KeysAreTrue
<1> QED BY <1>1, KeyboardHolds, PTL
=============================================================================
