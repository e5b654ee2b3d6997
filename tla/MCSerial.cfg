CONSTANTS
    Cards = {"6551", "dtl", "mageco"}
    Pipes = {"loopback", "tcp", "tty", "file", "midi", "digitelec"}
    Queues = {0, 1}
    Ring = 2
    High = 2
    Low = 1
    MaxSent = 3
    Commands <- MCCommands
    MayReset = TRUE
SPECIFICATION MCFairSpec
INVARIANTS
    ModemIsSound
    SerialIsExact
PROPERTIES
    CarrierLoss
CHECK_DEADLOCK FALSE
