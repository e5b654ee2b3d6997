------------------------------ MODULE Debugger ------------------------------
(***************************************************************************)
(* The debugger of debugger.c and the instruction trace of trace.c, as     *)
(* operators on their state.                                               *)
(*                                                                         *)
(* A machine m is what the debugger sees of the Oric: pc, the return       *)
(* addresses on the stack, one byte of memory (`cell`), the raster line    *)
(* and whether the processor jammed.  A debugger d has:                    *)
(*   active, step, temp   stop now, stop at the next check, stop there;    *)
(*   bps, wps             the tables of breakpoints and watchpoints;       *)
(*   rw, exec             the access map: flags of the cell, addresses;    *)
(*   traced, trig         the memory callback is installed, has fired;     *)
(*   raster, last         raster breakpoints, the line last looked at;     *)
(*   reason               why should_break said yes;                       *)
(*   ring, head, count    snapshots to undo steps.                         *)
(* A breakpoint may have the condition that the cell holds a given value.  *)
(***************************************************************************)
EXTENDS Integers, Sequences

CONSTANTS
    Code,         \* the program, a sequence of instructions [op, arg, lines]
    MaxPoints,    \* entries of the tables (16 breakpoints, 8 watchpoints)
    Slots,        \* raster breakpoints (8)
    Lines,        \* raster lines of a frame (312)
    Depth         \* snapshots kept (16)

\* Address 1 is that of the reset vector; bytes and lines start at 1 too.
Addr == DOMAIN Code
None == 0
Modes == {"write", "read", "access", "change"}

\* The program has no way to run off its end.
ASSUME DebuggerAssumption ==
    /\ Code \in Seq([op : {"jmp", "jsr", "rts", "store", "load", "jam"}, arg : Nat, lines : Nat])
    /\ Code # <<>>
    /\ \A a \in Addr :
          /\ Code[a].op \in {"jmp", "jsr"} => Code[a].arg \in Addr
          /\ Code[a].op \notin {"jmp", "rts", "jam"} => a + 1 \in Addr
    /\ MaxPoints \in Nat /\ Slots \in Nat
    /\ Lines \in Nat \ {0} /\ Depth \in Nat \ {0}

Without(s, i) == SubSeq(s, 1, i - 1) \o SubSeq(s, i + 1, Len(s))
Indices(s, P(_)) == {i \in DOMAIN s : P(s[i])}
First(S) == CHOOSE i \in S : \A j \in S : i <= j

-----------------------------------------------------------------------------
Blank == [pc |-> None, stack |-> <<>>, cell |-> None, jam |-> FALSE]
debugger_init ==
    [active |-> FALSE, step |-> FALSE, temp |-> None, bps |-> <<>>, wps |-> <<>>,
     rw |-> {}, exec |-> {}, traced |-> FALSE, trig |-> FALSE,
     raster |-> [i \in 1 .. Slots |-> None], last |-> None, reason |-> "",
     ring |-> [i \in 0 .. Depth - 1 |-> Blank], head |-> 0, count |-> 0]

\* Breakpoints.  An unconditional one is entered once; adding a condition
\* takes the entry of the unconditional one at that address.
BpSlot(d, a) ==
    LET same == Indices(d.bps, LAMBDA b : b.addr = a /\ b.cond = None)
    IN  IF same = {} THEN Len(d.bps) + 1 ELSE First(same)
debugger_add_breakpoint(d, a, c) ==
    LET i == BpSlot(d, a)
        b == [addr |-> a, cond |-> c]
    IN  IF Len(d.bps) >= MaxPoints THEN d
        ELSE [d EXCEPT !.bps = IF i > Len(@) THEN Append(@, b) ELSE [@ EXCEPT ![i] = b]]
debugger_remove_breakpoint(d, i) == [d EXCEPT !.bps = Without(@, i)]
eval_cond(b, m) == b.cond = None \/ m.cell = b.cond
debugger_check_pc(d, m) == \E i \in DOMAIN d.bps : d.bps[i].addr = m.pc /\ eval_cond(d.bps[i], m)

\* Watchpoints and the access map.  The memory callback is installed while
\* one of them needs it, after every change.
\* Mutant: the map is not looked at.
MutInstall(d) == [d EXCEPT !.traced = d.wps # <<>>]
debugger_install_watchpoint_trace(d) == [d EXCEPT !.traced = d.wps # <<>> \/ d.rw # {}]
debugger_add_watchpoint(d, mode) ==
    LET same == Indices(d.wps, LAMBDA w : w.mode = mode)
    IN  IF Len(d.wps) >= MaxPoints \/ same # {} THEN d
        ELSE [d EXCEPT !.wps = Append(@, [mode |-> mode, last |-> None])]
debugger_remove_watchpoint(d, i) == [d EXCEPT !.wps = Without(@, i)]
debugger_amap_set(d, flags, addrs) == [d EXCEPT !.rw = @ \cup flags, !.exec = @ \cup addrs]
debugger_amap_clear(d) == [d EXCEPT !.rw = {}, !.exec = {}]

\* The memory callback, for an access ("r" or "w") to the cell.  The first
\* watchpoint that is hit ends the search; a change is relative to the value
\* that this watchpoint saw last.
WpHit(w, kind, v) ==
    CASE w.mode = "write"  -> kind = "w"
      [] w.mode = "read"   -> kind = "r"
      [] w.mode = "access" -> TRUE
      [] w.mode = "change" -> kind = "w" /\ w.last # v
watchpoint_trace_callback(d, kind, v) ==
    LET hits == Indices(d.wps, LAMBDA w : WpHit(w, kind, v))
        stop == IF hits = {} THEN Len(d.wps) ELSE First(hits)
        seen == [i \in DOMAIN d.wps |->
                    IF kind = "w" /\ d.wps[i].mode = "change" /\ i <= stop
                    THEN [d.wps[i] EXCEPT !.last = v] ELSE d.wps[i]]
    IN  IF ~d.traced THEN d
        ELSE IF kind \in d.rw THEN [d EXCEPT !.trig = TRUE]
        ELSE [d EXCEPT !.wps = seen, !.trig = @ \/ hits # {}]

\* Raster breakpoints.
FreeSlots(d) == {i \in 1 .. Slots : d.raster[i] = None}
raster_add(d, l) == IF FreeSlots(d) = {} THEN d ELSE [d EXCEPT !.raster[First(FreeSlots(d))] = l]
raster_delete(d, i) == [d EXCEPT !.raster[i] = None]
RasterFires(d, l) ==
    /\ l # d.last
    /\ \E i \in 1 .. Slots :
          LET b == d.raster[i]
          IN  b # None /\ IF d.last = None THEN l = b
                          ELSE IF l < d.last THEN b > d.last \/ b <= l
                          ELSE b > d.last /\ b <= l

\* The causes to stop, in their order; a cause that is consumed is cleared.
Because(d, why) == [d EXCEPT !.reason = why]
debugger_should_break(d, m) ==
    LET seen == IF FreeSlots(d) = 1 .. Slots THEN d ELSE [d EXCEPT !.last = m.line]
    IN  CASE d.step -> Because(d, "step")
          [] ~d.step /\ d.temp = m.pc -> Because([d EXCEPT !.temp = None], "temp")
          [] ~d.step /\ d.temp # m.pc /\ (debugger_check_pc(d, m) \/ m.pc \in d.exec) ->
                Because(d, "break")
          [] OTHER -> IF d.trig THEN Because([d EXCEPT !.trig = FALSE], "watch")
                      ELSE Because(seen, IF RasterFires(d, m.line) THEN "raster" ELSE "")

-----------------------------------------------------------------------------
(***************************************************************************)
(* Resuming: each front end has these.                                     *)
(***************************************************************************)

Go(d) == [d EXCEPT !.step = FALSE, !.active = FALSE]
Step(d) == [d EXCEPT !.step = TRUE, !.active = FALSE]
\* Step over a call.
StepOver(d, m) == IF Code[m.pc].op = "jsr" THEN [Go(d) EXCEPT !.temp = m.pc + 1] ELSE Step(d)
\* Run to the return address on the stack, whatever lies there.
StepOut(d, m) == [Go(d) EXCEPT !.temp = IF m.stack = <<>> THEN 1 ELSE m.stack[1]]

\* The undo ring: a snapshot of processor and memory, not of the raster.
dbg_undo_push(d, m) ==
    [d EXCEPT !.ring[d.head] = [pc |-> m.pc, stack |-> m.stack, cell |-> m.cell, jam |-> m.jam],
              !.head = (@ + 1) % Depth, !.count = IF @ < Depth THEN @ + 1 ELSE @]
\* Mutant: the ring is read at its head.
MutSlot(d) == d.head
UndoSlot(d) == (d.head + Depth - 1) % Depth
dbg_undo_pop(d, m) ==
    LET h == UndoSlot(d)
    IN  IF d.count = 0 THEN [d |-> d, m |-> m]
        ELSE [d |-> [d EXCEPT !.head = (@ + Depth - 1) % Depth, !.count = @ - 1, !.last = None],
              m |-> [m EXCEPT !.pc = d.ring[h].pc, !.stack = d.ring[h].stack,
                              !.cell = d.ring[h].cell, !.jam = d.ring[h].jam]]

-----------------------------------------------------------------------------
(***************************************************************************)
(* The trace: it starts at once or at an address, and stops on an access   *)
(* to the cell.  Its ring holds the last instructions logged.              *)
(***************************************************************************)

trace_reset ==
    [on |-> FALSE, armed |-> FALSE, from |-> None, stop |-> "none",
     ring |-> <<>>, head |-> 0, count |-> 0]
trace_arm(from, stop, cap) ==
    [on |-> from = None, armed |-> TRUE, from |-> from, stop |-> stop,
     ring |-> [i \in 1 .. cap |-> None], head |-> 0, count |-> 0]
trace_stop(t) == [t EXCEPT !.on = FALSE, !.armed = FALSE]
TraceStarts(t, pc) == t.on \/ (t.armed /\ t.from = pc)
trace_log_instruction(t, pc) ==
    LET cap == Len(t.ring)
    IN  IF ~TraceStarts(t, pc) THEN t
        ELSE [t EXCEPT !.on = TRUE, !.ring[t.head + 1] = pc, !.head = (@ + 1) % cap,
                       !.count = IF @ < cap THEN @ + 1 ELSE @]
trace_note_mem_access(t, kind) == IF t.on /\ t.stop = kind THEN trace_stop(t) ELSE t
\* What a save writes: the oldest entry first.
trace_save_ring(t) ==
    LET start == IF t.count = Len(t.ring) THEN t.head ELSE 0
    IN  [i \in 1 .. t.count |-> t.ring[((start + i - 1) % Len(t.ring)) + 1]]

-----------------------------------------------------------------------------
(***************************************************************************)
(* One instruction of the program; only its effect on m is modelled, a     *)
(* store or a load being the access it makes to the cell.                  *)
(***************************************************************************)

AccessKind(i) == CASE i.op = "store" -> "w" [] i.op = "load" -> "r" [] OTHER -> "none"
Execute(m) ==
    LET i == Code[m.pc]
    IN  CASE i.op = "jmp"   -> [m EXCEPT !.pc = i.arg]
          [] i.op = "jsr"   -> [m EXCEPT !.pc = i.arg, !.stack = <<m.pc + 1>> \o @]
          [] i.op = "rts"   -> IF m.stack = <<>> THEN [m EXCEPT !.pc = 1]
                               ELSE [m EXCEPT !.pc = Head(m.stack), !.stack = Tail(@)]
          [] i.op = "store" -> [m EXCEPT !.pc = @ + 1, !.cell = i.arg]
          [] i.op = "jam"   -> [m EXCEPT !.jam = TRUE]
          [] OTHER          -> [m EXCEPT !.pc = @ + 1]
=============================================================================
