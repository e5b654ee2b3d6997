CONSTANTS
  s1 = s1
  s2 = s2
  Sources <- MCSources
  PulseMax = 2
  PlainLengths <- MCPlainLengths
  Code <- MCCode
  MaxPoints = 2
  Slots = 1
  Lines = 2
  Depth = 2
  Frontends = {"control", "gdb", "repl"}
  BreakAt = {2}
  Legacy = 0
  HttpResumes = FALSE
  MaxCommands = 2
  MaxMoves = 2
SPECIFICATION MCSpec
INVARIANTS
  NmiServedOnce
  InterruptLatency
  EnginesAreExact
  StopsAreSound
  RingsAreExact
PROPERTIES
  HandlerRunsFirst
  FlagIsDelayed
  PauseStops
CHECK_DEADLOCK FALSE
