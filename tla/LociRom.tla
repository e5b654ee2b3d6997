------------------------------- MODULE LociRom -------------------------------
(***************************************************************************)
(* The LOCI's Action button and what it does to the ROM of the machine     *)
(* (loci_glue.c, loci_boot.c, the button of loci_core.c, the keys of       *)
(* main.c).  A press redirects the IRQ vector to a trap in the LOCI's own  *)
(* registers; the release maps the menu ROM, whose NMI vector saves the    *)
(* session in XRAM; the menu then boots another ROM, sweeps the bus        *)
(* timings, or puts the session back and asks for its ROM.                 *)
(*                                                                         *)
(* A ROM is its image, the owner of the IRQ vector it holds and the state  *)
(* of the byte $FFF0 where the sweep reports.  The code of the ROMs is     *)
(* external: what the menu may do is taken from the operations it calls.   *)
(***************************************************************************)
EXTENDS Integers, FiniteSets

CONSTANTS
    Basic,      \* the images MIA_BOOT can load
    MaxBoots,   \* bound: sessions after the first one
    Sweep,      \* steps of the timing sweep (31 in the code)
    Hasty       \* F5 may cut the save short; a boot may happen under the button

ASSUME LociRomAssumption ==
    /\ MaxBoots \in Nat /\ Sweep \in Nat \ {0} /\ Hasty \in BOOLEAN
    /\ Basic \cap {"menu", "diag", "trap"} = {}

Image == Basic \cup {"menu", "diag"}
InMenu == -1        \* the RAM is the menu's, not a session's

VARIABLES
    map,    \* what the 6502 sees: rom, over(lay_active), off (basic_rom_disabled),
            \* menu (loci_menu_active)
    warm,   \* the mapping the button took away: valid, rom, over, off
    btn,    \* action_active, saved_irq_vector
    cpu,    \* where it runs, IRQF_VIA, the I flag, whether an IRQ frame is on the stack
    mia,    \* resume_pending, adj_state, adj_tior
    sess,   \* history: the session in RAM, the one in XRAM, the mapping of each
    found   \* which of the LOCI's system ROMs are found
romVars == <<map, warm, btn, cpu, mia, sess, found>>

Fresh(i) == [img |-> i, vec |-> i, tune |-> "own"]

\* cpu_reset: the vector comes from the mapped ROM, every source bit is cleared.
cpu_reset(m) == cpu' = [at |-> IF m.menu THEN "menu" ELSE "code", irq |-> FALSE, mask |-> TRUE, frame |-> FALSE]

Mapped == [img |-> map.rom.img, over |-> map.over, off |-> map.off]

RomInit ==
    /\ \E i \in Basic \cup {"menu"} :
        /\ map = [rom |-> Fresh(i), over |-> FALSE, off |-> FALSE, menu |-> FALSE]
        /\ sess = [ram |-> 0, xram |-> InMenu, count |-> 0,
                   home |-> [s \in 0 .. MaxBoots |-> [img |-> i, over |-> FALSE, off |-> FALSE]]]
    /\ warm = [valid |-> FALSE, rom |-> map.rom, over |-> FALSE, off |-> FALSE]
    /\ btn = [active |-> FALSE, saved |-> "none"]
    /\ cpu = [at |-> "code", irq |-> FALSE, mask |-> TRUE, frame |-> FALSE]
    /\ mia = [pending |-> FALSE, adj |-> 0, tior |-> 0]
    /\ found \in SUBSET {"menu", "diag", "microdis"}

-----------------------------------------------------------------------------
(* The 6502.                                                               *)

\* SEI, CLI.
SetMask ==
    /\ cpu.at = "code" /\ cpu' = [cpu EXCEPT !.mask = ~cpu.mask]
    /\ UNCHANGED <<map, warm, btn, mia, sess, found>>

\* The VIA pulls its own source bit.
ViaIrq ==
    /\ cpu.at = "code" /\ ~cpu.irq /\ cpu' = [cpu EXCEPT !.irq = TRUE]
    /\ UNCHANGED <<map, warm, btn, mia, sess, found>>

\* An IRQ goes through the vector the 6502 sees: the overlay hides the ROM's.
\* The session's own handler reads the VIA, which releases the bit, and returns.
Interrupt ==
    /\ cpu.at = "code" /\ cpu.irq /\ ~cpu.mask
    /\ cpu' = IF ~map.over /\ map.rom.vec = "trap"
              THEN [cpu EXCEPT !.at = "trap", !.mask = TRUE, !.frame = TRUE]
              ELSE [cpu EXCEPT !.irq = FALSE]
    /\ UNCHANGED <<map, warm, btn, mia, sess, found>>

\* JMP ($FFFA) through the menu ROM: mia_save_state copies the session, with the
\* frame on its stack, to XRAM and starts the menu.
SaveState ==
    /\ cpu.at = "exit" /\ cpu' = [cpu EXCEPT !.at = "menu", !.frame = FALSE]
    /\ sess' = [sess EXCEPT !.xram = sess.ram, !.ram = InMenu]
    /\ UNCHANGED <<map, warm, btn, mia, found>>

-----------------------------------------------------------------------------
(* The button.                                                             *)

loci_action_install_irq_trap ==
    IF map.menu
    THEN btn' = [btn EXCEPT !.active = TRUE] /\ UNCHANGED <<map, cpu>>
    ELSE /\ btn' = [active |-> TRUE, saved |-> map.rom.vec]
         /\ map' = [map EXCEPT !.rom.vec = "trap"]
         /\ cpu' = [cpu EXCEPT !.irq = TRUE]

loci_action_button_short ==
    /\ ~btn.active /\ loci_action_install_irq_trap
    /\ UNCHANGED <<warm, mia, sess, found>>

\* A $C000 swap: menu_active falls, the overlay flags stay, a new session starts.
NewSession(m) ==
    sess' = [sess EXCEPT !.ram = sess.count + 1, !.count = @ + 1,
                         !.home[sess.count + 1] = [img |-> m.rom.img, over |-> m.over, off |-> m.off]]
Boot(i, over) ==
    /\ sess.count < MaxBoots
    /\ map' = [rom |-> Fresh(i), menu |-> FALSE,
               over |-> over \/ map.over, off |-> over \/ map.off]
    /\ NewSession(map') /\ cpu_reset(map')

\* loci_action_enter_nmi: the frame the IRQ would have pushed, if it has not.
loci_action_enter_nmi(c) == [c EXCEPT !.at = "exit", !.mask = TRUE, !.frame = TRUE]

\* The vector and the source bit go back first, whatever the press then leads to.
MutRestore(m) == m
RestoreVector(m) == IF m.menu THEN m ELSE [m EXCEPT !.rom.vec = btn.saved]
ClearIrq == IF map.menu THEN cpu ELSE [cpu EXCEPT !.irq = FALSE]

Diag ==
    IF "diag" \in found
    THEN Boot("diag", FALSE)
    ELSE map' = RestoreVector(map) /\ cpu' = ClearIrq /\ UNCHANGED sess

KeepWarm(m) == warm' = [valid |-> TRUE, rom |-> m.rom, over |-> m.over, off |-> m.off]

EnterMenu ==
    LET m == RestoreVector(map)
    IN IF map.menu \/ "menu" \notin found
       THEN map' = m /\ cpu' = ClearIrq /\ UNCHANGED warm
       ELSE /\ KeepWarm(m)
            /\ map' = [rom |-> Fresh("menu"), over |-> FALSE, off |-> FALSE, menu |-> TRUE]
            /\ cpu' = loci_action_enter_nmi(ClearIrq)

loci_action_button_release ==
    /\ btn.active
    /\ btn' = [btn EXCEPT !.active = FALSE]
    /\ \/ EnterMenu /\ UNCHANGED sess
       \/ Diag /\ UNCHANGED warm
    /\ UNCHANGED <<mia, found>>

\* F5: the 6502 and the MIA's registers; the mounts, the button and the sweep stay.
Reset ==
    /\ Hasty \/ cpu.at # "exit"
    /\ cpu_reset(map) /\ mia' = [mia EXCEPT !.pending = FALSE]
    /\ sess' = [sess EXCEPT !.ram = IF map.menu THEN InMenu ELSE @]
    /\ UNCHANGED <<map, warm, btn, found>>

-----------------------------------------------------------------------------
(* The operations of the menu, or of any program, that touch the ROM.      *)

CanCall == cpu.at \in {"code", "menu"}

\* op_mia_boot without RESUME: a BASIC image, then the Microdisc overlay if the
\* settings ask for it and its ROM is found.
op_mia_boot ==
    /\ CanCall /\ (Hasty \/ ~btn.active)
    /\ \E i \in Basic, fdc \in BOOLEAN : Boot(i, fdc /\ "microdis" \in found)
    /\ UNCHANGED <<warm, btn, mia, found>>

\* mia_restore_state, then op_mia_boot with RESUME: the RAM is the session's again,
\* the menu ROM still runs LDA XSTACK / PLP / JMP $03B0.
AskResume ==
    /\ cpu.at = "menu" /\ sess.xram # InMenu
    /\ cpu' = [cpu EXCEPT !.at = "wait", !.frame = TRUE, !.mask = TRUE]
    /\ mia' = [mia EXCEPT !.pending = TRUE]
    /\ sess' = [sess EXCEPT !.ram = sess.xram]
    /\ UNCHANGED <<map, warm, btn, found>>

\* The ROM and the overlay flags that the button took away.
loci_resume_session_cb ==
    /\ map' = [rom |-> warm.rom, over |-> warm.over, off |-> warm.off, menu |-> FALSE]
    /\ warm' = [warm EXCEPT !.valid = FALSE]

\* The fetch of the spin at $03B0 with a resume pending: the ROM is mapped back and
\* JMP ($FFFE) serves the restored frame.  Nothing to resume: the call fails.
loci_resume_at_spin ==
    /\ cpu.at = "wait" /\ mia.pending
    /\ mia' = [mia EXCEPT !.pending = FALSE]
    /\ IF warm.valid
       THEN loci_resume_session_cb /\ cpu' = [cpu EXCEPT !.at = "code", !.frame = FALSE]
       ELSE cpu' = [cpu EXCEPT !.at = "lost"] /\ UNCHANGED <<map, warm>>
    /\ UNCHANGED <<btn, sess, found>>

\* The sweep: a lead-in, one step per 5 ms, then the configured value.
Poke(v) == map' = [map EXCEPT !.rom.tune = v]
op_adj_scan ==
    /\ CanCall /\ map.rom.img = "menu" /\ mia.adj = 0
    /\ mia' = [mia EXCEPT !.adj = 1, !.tior = 0] /\ Poke("busy")
    /\ UNCHANGED <<warm, btn, cpu, sess, found>>
AdjStep ==
    IF mia.tior = Sweep
    THEN mia' = [mia EXCEPT !.adj = 0, !.tior = 0] /\ Poke("set")
    ELSE mia' = [mia EXCEPT !.tior = @ + 1] /\ Poke("busy")
loci_adj_tick ==
    /\ mia.adj # 0
    /\ IF mia.adj = 1 THEN mia' = [mia EXCEPT !.adj = 2] /\ UNCHANGED map ELSE AdjStep
    /\ UNCHANGED <<warm, btn, cpu, sess, found>>

RomNext ==
    \/ SetMask \/ ViaIrq \/ Interrupt \/ SaveState
    \/ loci_action_button_short \/ loci_action_button_release \/ Reset
    \/ op_mia_boot \/ AskResume \/ loci_resume_at_spin
    \/ op_adj_scan \/ loci_adj_tick

RomSpec == RomInit /\ [][RomNext]_romVars

-----------------------------------------------------------------------------
\* The trap lasts as long as the press (loci_action_release_irq_trap "Restores the
\* original IRQ vector"): with the button up, the mapped ROM, and the one kept for the
\* resume, hold their own vector, and the 6502 spins in the trap only if the release
\* found no ROM to go to.
TrapIsLifted ==
    /\ ~btn.active => map.rom.vec = map.rom.img
    /\ warm.valid => warm.rom.vec = warm.rom.img
    /\ cpu.at = "trap" /\ {"menu", "diag"} \subseteq found => btn.active

\* A session is put back as the button found it: its RAM under its own ROM, with the
\* overlay flags it had and no interrupt frame left over; a session in XRAM is never
\* replaced by the menu; and a resume always finds the ROM it needs.
SessionIsWhole ==
    /\ cpu.at = "code" => sess.ram # InMenu /\ sess.home[sess.ram] = Mapped /\ ~cpu.frame
    /\ cpu.at = "exit" => sess.ram # InMenu /\ cpu.frame
    /\ cpu.at # "lost"

\* The LOCI's ROM trap and the saved session (loci_glue.c).
RomIsSafe == TrapIsLifted /\ SessionIsWhole

=============================================================================
