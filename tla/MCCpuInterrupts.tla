--------------------------- MODULE MCCpuInterrupts ---------------------------
(***************************************************************************)
(* The processor, in three scenes that share no state: its interrupts,     *)
(* with two sources on the line and all lengths of an instruction; its two *)
(* engines side by side on every opcode; and the debugger that stops it.   *)
(***************************************************************************)
EXTENDS CpuInterrupts, DebugSession

CONSTANTS s1, s2

MCSources == {s1, s2}
MCPlainLengths == 1 .. 7

VARIABLES scene, old, new, ms
isaVars == <<old, new, ms>>
mcVars == <<vars, scene, debugVars, isaVars>>

\* A loop that calls a subroutine and stores; the last instruction jams.  One
\* instruction of the loop crosses into the next raster line.
I(code, arg, raster) == [op |-> code, arg |-> arg, lines |-> raster]
MCCode == << I("jsr", 4, 0), I("store", 2, 1), I("jmp", 1, 0),
             I("load", 0, 0), I("rts", 0, 1), I("jam", 0, 0) >>

\* Every opcode from registers, flags and operands at the edges of a page, of
\* the stack and of a byte; and ADC on every accumulator and operand.
MCSettings ==
  { [a |-> a, x |-> x, y |-> 255 - x, sp |-> sp, p |-> p, pc |-> pc, lo |-> lo, hi |-> 3,
     ops |-> 0 .. 255] :
      a \in {153, 16}, x \in {2, 255}, sp \in {0, 254},
      p \in {{}, {"C", "D"}, {"N", "V", "Z"}}, pc \in {1024, 1277}, lo \in {130, 255} }
  \cup { [a |-> a, x |-> 2, y |-> 253, sp |-> 254, p |-> {}, pc |-> 1024, lo |-> 130, hi |-> 3,
          ops |-> {105}] : a \in 0 .. 255 }

Engines == INSTANCE CpuEngines WITH Settings <- MCSettings, AluBytes <- 0 .. 255

MCInit ==
  /\ scene \in {"interrupts", "engines", "debugger"}
  /\ Init
  /\ scene # "interrupts" => ms_enabled
  /\ DebugInit
  /\ scene # "debugger" => ses.mode = "repl"
  /\ IF scene = "engines" THEN Engines!CpuInit
     ELSE old = {} /\ new = {} /\ ms = {}

InterruptsNext == scene = "interrupts" /\ Next /\ UNCHANGED <<scene, debugVars, isaVars>>
EnginesNext == scene = "engines" /\ Engines!cpu_cycle /\ UNCHANGED <<scene, vars, debugVars>>
SessionNext == scene = "debugger" /\ DebugNext /\ UNCHANGED <<scene, vars, isaVars>>

MCSpec ==
  /\ MCInit
  /\ [][InterruptsNext \/ EnginesNext \/ SessionNext]_mcVars
  /\ WF_debugVars(scene = "debugger" /\ Check)
  /\ WF_debugVars(scene = "debugger" /\ Exec)
  /\ WF_debugVars(scene = "debugger" /\ EndOfFrame)

\* The two engines run every instruction alike, and compute what numbers say
\* (cpu_step, cpu_cycle).
EnginesAreExact == scene = "engines" => Engines!EnginesAgree /\ Engines!ArithmeticIsExact
=============================================================================
