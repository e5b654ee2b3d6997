---------------------------- MODULE DebugSession ----------------------------
(***************************************************************************)
(* A debugging session: the frame loop of main.c, the debugger and the     *)
(* front end that drives it.                                               *)
(*                                                                         *)
(* The front end is `mode`: control (the line protocol on standard input), *)
(* gdb (the remote stub), repl (the command line), tui (the full screen).  *)
(* The loop checks for a stop before every instruction; a stop hands the   *)
(* emulation thread to the front end until a command resumes it.  A client *)
(* that wants to stop a running machine is only heard when a frame ends,   *)
(* where HTTP commands are served and keys of the window are taken as      *)
(* well.                                                                   *)
(*                                                                         *)
(* stage is where the thread is: "run" before a check, "go" past it,       *)
(* "stopped" in the front end, "frame" at the end of a frame, "menu" with  *)
(* the F1 menu open, "ended".  `seen` is what the client and an observer   *)
(* of the program know.                                                    *)
(***************************************************************************)
EXTENDS Debugger

CONSTANTS
    Frontends,    \* subset of {"control", "gdb", "repl", "tui"}
    BreakAt,      \* addresses used in commands
    Legacy,       \* address given with --breakpoint, or None
    HttpResumes,  \* whether HTTP clients send continue and step
    MaxCommands,  \* bound: commands that leave the machine stopped
    MaxMoves      \* bound: commands that resume it, other than continue

ASSUME SessionAssumption ==
    /\ Frontends \subseteq {"control", "gdb", "repl", "tui"}
    /\ BreakAt \subseteq Addr /\ Legacy \in Addr \cup {None}
    /\ HttpResumes \in BOOLEAN /\ MaxCommands \in Nat /\ MaxMoves \in Nat

VARIABLES cpu, dbg, trace, ses, seen
debugVars == <<cpu, dbg, trace, ses, seen>>

Now == [m |-> cpu, d |-> dbg, t |-> trace, s |-> ses, g |-> seen]
Become(next) ==
    \E z \in {next} : cpu' = z.m /\ dbg' = z.d /\ trace' = z.t /\ ses' = z.s /\ seen' = z.g

ResetCpu(m) == [m EXCEPT !.pc = 1, !.stack = <<>>, !.jam = FALSE]

\* The client learns of a stop, or of a resume.
Told(z, view) ==
    [z EXCEPT !.g.view = view, !.g.paused = @ /\ view # "stopped",
              !.g.twice = @ \/ (view = "stopped" /\ z.g.view = "stopped")]

-----------------------------------------------------------------------------
(***************************************************************************)
(* Commands that leave the machine stopped.  A command is a pair of a name *)
(* and an argument.                                                        *)
(***************************************************************************)

\* A write to memory by the debugger takes the same path as one of the
\* program, callbacks included.
memory_write(z, v) ==
    [z EXCEPT !.m.cell = v, !.d = watchpoint_trace_callback(@, "w", v),
              !.t = trace_note_mem_access(@, "w")]
Installed(z, d) == [z EXCEPT !.d = debugger_install_watchpoint_trace(d)]

Undo(z) ==
    LET r == dbg_undo_pop(z.d, z.m)
    IN  [z EXCEPT !.d = r.d, !.m = r.m,
                  !.g.undo = IF @ = <<>> THEN @ ELSE SubSeq(@, 1, Len(@) - 1)]

Edits(mode, d) ==
    IF mode = "gdb"
    THEN {"Z0", "z0"} \X BreakAt \cup {"Z2", "z2"} \X (Modes \ {"change"})
         \cup {"write"} \X {1} \cup {"pc"} \X {Len(Code)}
    ELSE {"break", "cond", "exec"} \X BreakAt \cup {"pc"} \X {Len(Code)} \cup {"unbreak"} \X DOMAIN d.bps
         \cup {"watch"} \X Modes \cup {"unwatch"} \X DOMAIN d.wps
         \cup {"region"} \X {{"r", "w"}} \cup {"clear", "reset", "trace-off"} \X {0}
         \cup {"raster"} \X {Lines} \cup {"unraster"} \X {i \in 1 .. Slots : d.raster[i] # None}
         \cup {"write"} \X {1} \cup {"trace"} \X {<<2, "r">>}
         \cup IF mode = "control" THEN {} ELSE {"undo", "bad-condition"} \X {1}

\* The commands shared by control.c, debugger_repl.c and the HTTP server.
control_edit(z, c, x) ==
    CASE c = "break"    -> [z EXCEPT !.d = debugger_add_breakpoint(@, x, None)]
      [] c = "cond"     -> [z EXCEPT !.d = debugger_add_breakpoint(@, x, 2)]
      [] c = "unbreak"  -> [z EXCEPT !.d = debugger_remove_breakpoint(@, x)]
      [] c = "watch"    -> Installed(z, debugger_add_watchpoint(z.d, x))
      [] c = "unwatch"  -> Installed(z, debugger_remove_watchpoint(z.d, x))
      [] c = "region"   -> Installed(z, debugger_amap_set(z.d, x, {}))
      [] c = "exec"     -> Installed(z, debugger_amap_set(z.d, {}, {x}))
      [] c = "clear"    -> Installed(z, debugger_amap_clear(z.d))
      [] c = "raster"   -> [z EXCEPT !.d = raster_add(@, x)]
      [] c = "unraster" -> [z EXCEPT !.d = raster_delete(@, x)]
      [] c = "write"    -> memory_write(z, x)
      [] c = "pc"       -> [z EXCEPT !.m.pc = x]
      [] c = "reset"    -> [z EXCEPT !.m = ResetCpu(@)]
      [] c = "trace"    -> [z EXCEPT !.t = trace_arm(x[1], x[2], 2), !.g.log = <<>>]
      [] c = "trace-off" -> [z EXCEPT !.t = trace_reset, !.g.log = <<>>]

\* Only the command line can undo; a bad condition there removes the entry
\* that the address has.
repl_edit(z, c, x) ==
    IF c = "undo" THEN Undo(z)
    ELSE IF c # "bad-condition" THEN control_edit(z, c, x)
    ELSE LET d == debugger_add_breakpoint(z.d, x, None)
         IN  IF d = z.d /\ BpSlot(d, x) > Len(d.bps) THEN z
             ELSE [z EXCEPT !.d = debugger_remove_breakpoint(d, BpSlot(d, x))]

\* The stub removes by address: the first entry there, whatever its kind.
RemoveFirst(s, P(_)) == IF Indices(s, P) = {} THEN s ELSE Without(s, First(Indices(s, P)))
gdb_dispatch(z, c, x) ==
    LET fits == IF c = "Z0" THEN Len(z.d.bps) < MaxPoints ELSE Len(z.d.wps) < MaxPoints
        ask(g) == IF fits THEN g \cup {<<c, x>>} ELSE g
    IN  CASE c = "Z0" -> [z EXCEPT !.d = debugger_add_breakpoint(@, x, None), !.g.asked = ask(@)]
          [] c = "z0" -> [z EXCEPT !.d.bps = RemoveFirst(@, LAMBDA b : b.addr = x),
                                   !.g.asked = @ \ {<<"Z0", x>>}]
          [] c = "Z2" -> [Installed(z, debugger_add_watchpoint(z.d, x)) EXCEPT !.g.asked = ask(@)]
          [] c = "z2" -> [Installed(z, [z.d EXCEPT !.wps = RemoveFirst(@, LAMBDA w : TRUE)])
                            EXCEPT !.g.asked = @ \ {<<"Z2", x>>}]
          [] OTHER -> control_edit(z, c, x)

-----------------------------------------------------------------------------
(***************************************************************************)
(* Stopping and resuming.                                                  *)
(***************************************************************************)

\* The end of the thread's stay in the front end, with the debugger d.
Resume(z, d, kind) ==
    Told([z EXCEPT !.d = d, !.s.stage = "go", !.g.stepped = (kind = "step"),
                   !.g.ran = FALSE], "running")
Quit(z) == [z EXCEPT !.s.running = FALSE, !.s.stage = "frame", !.d.active = FALSE]

\* What each front end does first.
gdb_stub_stopped(z) ==
    LET y == IF z.s.resumed THEN Told(z, "stopped") ELSE z
    IN  [y EXCEPT !.s.resumed = FALSE, !.s.stage = "stopped"]
control_stopped(z) ==
    [Told(z, "stopped") EXCEPT !.s.pending = FALSE, !.s.stage = "stopped",
                               !.d.step = FALSE, !.d.reason = ""]
debugger_repl(z) ==
    [Told(z, "stopped") EXCEPT !.d.active = TRUE, !.d.step = FALSE, !.s.stage = "stopped"]
Stop(z) ==
    CASE z.s.mode = "gdb"     -> gdb_stub_stopped(z)
      [] z.s.mode = "control" -> control_stopped(z)
      [] OTHER                -> debugger_repl(z)

\* The stub forgets a client that left; the machine runs on, and the next
\* stop is for the command line.
gdb_disconnect(z) ==
    [Resume([z EXCEPT !.s.mode = "repl", !.s.inbox = "none"], Go(z.d), "continue")
        EXCEPT !.g.asked = {}]

Pushed(z) ==
    [z EXCEPT !.d = dbg_undo_push(@, z.m),
              !.g.undo = LET u == Append(@, [pc |-> z.m.pc, stack |-> z.m.stack,
                                             cell |-> z.m.cell, jam |-> z.m.jam])
                         IN  IF Len(u) > Depth THEN Tail(u) ELSE u]
control_resume(z, c) ==
    CASE c = "step"     -> Resume(z, Step(z.d), "step")
      [] c = "next"     -> Resume(z, StepOver(z.d, z.m), IF Code[z.m.pc].op = "jsr" THEN "next" ELSE "step")
      [] c = "step-out" -> Resume(z, StepOut(z.d, z.m), "out")
      [] c = "continue" -> Resume(z, Go(z.d), "continue")
      [] c = "quit"     -> Quit(z)
gdb_resume(z, c) ==
    CASE c \in {"step", "continue"} ->
            Resume([z EXCEPT !.s.resumed = TRUE], IF c = "step" THEN Step(z.d) ELSE Go(z.d), c)
      [] c = "detach" -> gdb_disconnect(z)
      [] c = "kill"   -> [gdb_disconnect(z) EXCEPT !.s.running = FALSE, !.s.stage = "frame"]
repl_resume(z, c) ==
    IF c \in {"step", "next"} /\ z.s.mode = "repl" THEN control_resume(Pushed(z), c)
    ELSE control_resume(z, c)

Resumes(mode) ==
    CASE mode = "gdb"     -> {"step", "continue", "detach", "kill"}
      [] mode = "control" -> {"step", "next", "step-out", "continue", "quit"}
      [] OTHER            -> {"step", "next", "continue", "quit"}

-----------------------------------------------------------------------------
(***************************************************************************)
(* Actions.                                                                *)
(***************************************************************************)

DebugInit ==
    /\ \E mode \in Frontends :
          ses = [mode |-> mode, stage |-> "run", running |-> TRUE, pending |-> FALSE,
                 resumed |-> FALSE, inbox |-> "none", left |-> MaxCommands,
                 moves |-> MaxMoves]
    /\ cpu = [pc |-> 1, stack |-> <<>>, cell |-> 1, line |-> 1, jam |-> FALSE]
    /\ dbg = [debugger_init EXCEPT !.active = TRUE]
    /\ trace = trace_reset
    /\ seen = [view |-> IF ses.mode = "gdb" THEN "attached" ELSE "running", paused |-> FALSE,
               twice |-> FALSE, stepped |-> FALSE, ran |-> FALSE, asked |-> {},
               access |-> "none", undo |-> <<>>, log |-> <<>>]

\* run_frame_instructions: the check before an instruction.
Check ==
    /\ ses.stage = "run"
    /\ LET d == [dbg EXCEPT !.active = @ \/ (Legacy # None /\ cpu.pc = Legacy)]
           b == IF d.active THEN d ELSE debugger_should_break(d, cpu)
           z == [Now EXCEPT !.d = b]
       IN  Become(IF d.active \/ b.reason # "" THEN Stop(z)
                  ELSE [z EXCEPT !.s.stage = "go"])

\* ... and the instruction, with the trace before it.
Exec ==
    /\ ses.stage = "go"
    /\ LET kind == AccessKind(Code[cpu.pc])
           m == Execute(cpu)
           l == ((cpu.line - 1 + Code[cpu.pc].lines) % Lines) + 1
           t == trace_log_instruction(trace, cpu.pc)
           w == IF TraceStarts(trace, cpu.pc) THEN Append(seen.log, cpu.pc) ELSE seen.log
       IN  Become([m |-> [m EXCEPT !.line = l],
                   d |-> IF kind = "none" THEN dbg ELSE watchpoint_trace_callback(dbg, kind, m.cell),
                   t |-> IF kind = "none" THEN t ELSE trace_note_mem_access(t, kind),
                   s |-> [ses EXCEPT !.stage = IF m.jam \/ l < cpu.line THEN "frame" ELSE "run"],
                   g |-> [seen EXCEPT !.ran = TRUE,
                                      !.access = IF m.cell # cpu.cell THEN "change" ELSE kind,
                                      !.log = IF Len(w) > 2 THEN Tail(w) ELSE w]])

\* The client's message of a running machine waits until the thread reads it.
Interrupt(msg) ==
    /\ ses.mode \in {"control", "gdb"} /\ ses.inbox = "none"
    /\ ses.stage \in {"run", "frame", "menu"} /\ seen.view = "running"
    /\ ses' = [ses EXCEPT !.inbox = msg]
    /\ UNCHANGED <<cpu, dbg, trace, seen>>

\* The front end reads a command: first what the client sent in the meantime.
Leftover ==
    /\ ses.stage = "stopped" /\ ses.inbox # "none"
    /\ Become(IF ses.inbox = "eof"
              THEN IF ses.mode = "gdb" THEN gdb_disconnect(Now) ELSE Quit(Now)
              ELSE [Now EXCEPT !.s.inbox = "none"])

\* gdb removes what it inserted, and has one kind of watchpoint at a time.
Careful(c) ==
    /\ c[1] = "Z2" => ~\E a \in seen.asked : a[1] = "Z2"
    /\ c[1] = "z2" => <<"Z2", c[2]>> \in seen.asked
Command(c) ==
    /\ ses.stage = "stopped" /\ ses.inbox = "none" /\ ses.left > 0 /\ Careful(c)
    /\ LET z == [Now EXCEPT !.s.left = @ - 1]
       IN  Become(CASE ses.mode = "gdb"     -> gdb_dispatch(z, c[1], c[2])
                    [] ses.mode = "control" -> control_edit(z, c[1], c[2])
                    [] OTHER                -> repl_edit(z, c[1], c[2]))
Continue(c) ==
    /\ ses.stage = "stopped" /\ ses.inbox = "none"
    /\ c = "continue" \/ ses.moves > 0
    /\ LET z == IF c = "continue" THEN Now ELSE [Now EXCEPT !.s.moves = @ - 1]
       IN  Become(CASE ses.mode = "gdb"     -> gdb_resume(z, c)
                    [] ses.mode = "control" -> control_resume(z, c)
                    [] OTHER                -> repl_resume(z, c))

\* The polls at the end of a frame.
\* Mutant: the pause is acknowledged and then forgotten.
MutPollPause(z) ==
    CASE z.s.inbox = "pause" -> [z EXCEPT !.s.pending = TRUE, !.s.inbox = "none", !.g.paused = TRUE]
      [] z.s.inbox = "eof" -> [z EXCEPT !.s.running = FALSE, !.d.active = TRUE]
      [] OTHER -> [z EXCEPT !.s.inbox = "none"]
control_poll_pause(z) ==
    CASE z.s.inbox = "pause" -> [z EXCEPT !.s.pending = TRUE, !.s.inbox = "none", !.g.paused = TRUE,
                                          !.d.active = TRUE]
      [] z.s.inbox = "eof" -> [z EXCEPT !.s.running = FALSE, !.d.active = TRUE]
      [] OTHER -> [z EXCEPT !.s.inbox = "none"]
gdb_stub_poll_interrupt(z) ==
    CASE z.s.inbox = "pause" -> [z EXCEPT !.s.inbox = "none", !.g.paused = TRUE, !.d.active = TRUE]
      [] z.s.inbox = "eof" -> [z EXCEPT !.d.active = TRUE]
      [] OTHER -> [z EXCEPT !.s.inbox = "none"]

\* control_queue_drain: the dispatcher of the control protocol, its verdict
\* ignored.  A pause is informational there.
control_queue_drain(z, c) ==
    IF c[1] = "none" THEN z
    ELSE IF c[1] = "step" THEN [z EXCEPT !.d = Step(@)]
    ELSE IF c[1] = "continue" THEN [z EXCEPT !.d = Go(@)]
    ELSE control_edit([z EXCEPT !.s.left = @ - 1], c[1], c[2])
HttpCommands ==
    {<<"none", 0>>} \cup (IF HttpResumes THEN {"step", "continue"} \X {0} ELSE {})
    \cup IF ses.left = 0 \/ ses.mode = "gdb" THEN {}
         ELSE {"break"} \X BreakAt \cup {"unbreak"} \X DOMAIN dbg.bps

\* sdl_function_key and the F1 key.
Key(z, k) ==
    CASE k = "F9"  -> [z EXCEPT !.d.active = TRUE]
      [] k = "F5"  -> [z EXCEPT !.m = ResetCpu(@)]
      [] k = "F10" -> [z EXCEPT !.s.running = FALSE]
      [] OTHER     -> z

\* emulator_run after run_frame_instructions.
FrameEnd(c, k) ==
    /\ ses.stage = "frame" /\ c \in HttpCommands
    /\ LET p == IF ses.mode = "control" THEN control_poll_pause(Now)
                ELSE IF ses.mode = "gdb" THEN gdb_stub_poll_interrupt(Now) ELSE Now
           e == Key(control_queue_drain(p, c), k)
           over == ~e.s.running \/ e.m.jam
       IN  Become([e EXCEPT !.s.stage = IF over THEN "ended" ELSE IF k = "F1" THEN "menu" ELSE "run",
                            !.g.paused = @ /\ ~over, !.g.ran = @ /\ c[1] = "none"])

\* With the menu open the loop takes keys and nothing else.
Menu(k) ==
    /\ ses.stage = "menu"
    /\ Become(CASE k = "F1"    -> [Now EXCEPT !.s.stage = "run"]
                [] k = "reset" -> [Now EXCEPT !.s.stage = "run", !.m = ResetCpu(@)]
                [] k = "close" -> [Now EXCEPT !.s.running = FALSE, !.s.stage = "ended",
                                              !.g.paused = FALSE])

DebugNext ==
    \/ Check \/ Exec \/ Leftover
    \/ \E m \in {"pause", "eof"} : Interrupt(m)
    \/ \E c \in Edits(ses.mode, dbg) : Command(c)
    \/ \E c \in Resumes(ses.mode) : Continue(c)
    \/ \E c \in HttpCommands, k \in {"none", "F1", "F5", "F9", "F10"} : FrameEnd(c, k)
    \/ \E k \in {"F1", "reset", "close"} : Menu(k)

\* The emulation thread keeps going.
EndOfFrame == \E c \in HttpCommands, k \in {"none", "F1", "F5", "F9", "F10"} : FrameEnd(c, k)
Fairness == WF_debugVars(Check) /\ WF_debugVars(Exec) /\ WF_debugVars(EndOfFrame)
DebugSpec == DebugInit /\ [][DebugNext]_debugVars /\ Fairness

-----------------------------------------------------------------------------
(***************************************************************************)
(* Properties.                                                             *)
(***************************************************************************)

\* What the client asked to be stopped for: for gdb what was acknowledged,
\* by address; for the others the entries that a list shows.
WantsPc ==
    \/ debugger_check_pc(dbg, cpu) /\ ses.mode # "gdb"
    \/ <<"Z0", cpu.pc>> \in seen.asked
    \/ cpu.pc \in dbg.exec
Accessed == IF seen.access = "change" THEN "w" ELSE seen.access
Hit(mode) == Accessed # "none" /\ mode # "change" /\ WpHit([mode |-> mode], Accessed, cpu.cell)
WantsAccess ==
    \/ \E i \in DOMAIN dbg.wps : Hit(dbg.wps[i].mode) /\ ses.mode # "gdb"
    \/ \E a \in seen.asked : a[1] = "Z2" /\ Hit(a[2])
    \/ Accessed \in dbg.rw
MustStop == seen.ran /\ (WantsPc \/ WantsAccess \/ seen.stepped)

\* No instruction runs past a stop that the client asked for: not when a
\* table was edited, the callback removed and installed, another cause came
\* first, a frame ended or an HTTP command was served in between.
NoMissedStop == ses.stage = "go" => ~MustStop

\* The client's idea of the machine is right: it is told of every stop, once,
\* and no instruction runs while it believes the machine stopped, whatever
\* interrupts, disconnections and keys of the window come in between.
StopsAreReported ==
    ses.mode \in {"control", "gdb"} =>
        /\ ses.stage = "stopped" => seen.view \in {"stopped", "attached"}
        /\ ses.stage = "go" => seen.view = "running"
        /\ ~seen.twice

\* Both: debugger_should_break, and what each front end does with a stop.
StopsAreSound == NoMissedStop /\ StopsAreReported

\* An undo restores the machine as it was before the last step not undone,
\* and a saved trace is the last instructions run, oldest first, however
\* often the rings have wrapped.
RingsAreExact ==
    /\ dbg.count = Len(seen.undo)
    /\ dbg.count > 0 => dbg.ring[UndoSlot(dbg)] = seen.undo[Len(seen.undo)]
    /\ trace_save_ring(trace) = seen.log

\* A pause that was acknowledged stops the machine, unless the emulator ends,
\* provided the user closes the F1 menu.
PauseStops == []<>(ses.stage # "menu") => (seen.paused ~> ~seen.paused)

\* debugger.h: a change watchpoint breaks when a write changes the stored value.
ChangeIsSeen ==
    ses.stage = "go" /\ seen.ran /\ seen.access = "change" =>
        ~\E i \in DOMAIN dbg.wps : dbg.wps[i].mode = "change"
=============================================================================
