CONSTANTS
    Basic = {"b10", "b11"}
    MaxBoots = 1
    Sweep = 2
    Hasty = FALSE
    Clusters = 3
    PerCluster = 2
    Name = {"a", "b"}
    SubDir = {"d"}
    RootMax = 2
    DirMax = 1
    Slot = {0, 1}
    Count = {1, 3}
    Seek = {0, 2}
    MaxSize = 3
    Careful = TRUE
    Edge = TRUE
    Drive = {0, 1}
    Raw = {"r"}
    Mfm = {"m"}
    OnCard = {"s"}
    MaxWrites = 2
    TapeLen = 2
    LeadIn = 2
    FrameBits = 3
    OverMount = FALSE
    CliLines <- MCLines
    Touched = {"microdisc", "loci", "acia", "mea8000", "mageco"}
    Typed <- MCTyped
    Backends = {"integre", "firmware", "usb"}
    UsbLoci = "usb0"
    UsbPico = "tty0"
    Attached = FALSE
    MaxEdits = 2
    MaxLaunches = 2
    Drives = {"A", "B"}
    DiskFiles = {"X", "Y", "Z"}
    Unreadable = {"Z"}
    TapeSize <- MCTapeSize
    MaxSectors = 2
    MaxSnaps = 1
    MaxSwaps = 2
    Reinsert = FALSE
    SwapBeforeLoad = FALSE
    MaxKeyEvents = 3
    MaxMovieFrames = 2
    HeldAtToggle = FALSE
    HeldAtSave = FALSE
    AnyText = FALSE
SPECIFICATION Spec
INVARIANT ChainCoversSize
CHECK_DEADLOCK FALSE
