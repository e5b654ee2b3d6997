CONSTANTS
  r1 = r1
  on = on
  off = off
  quick = quick
  sluggish = sluggish
  Regs <- MCRegs
  Vals <- MCVals
  FirstReg = r1
  Zero = off
  Size = 3
  Samples = 2
  MaxCycle = 1
  Peer <- MCPeer
  Slow <- MCSlow
  Mute <- MCSlow
  Browser <- MCSlow
  Asks = {"audio", "stream", "snapshot", "silent"}
  MaxClients = 1
  MaxAudio = 2
  Ring = 5
  RecvTimeout = 2
  Played = 2
  MaxFrames = 2
  MaxBlocks = 4
  MaxVisits = 1
  Attempts = 1
  Retries = 1
  MaxBeats = 1
  TAP_CAP = 3
  TAP_DRAIN_MAX = 2
  FrameSamples = 2
  JpegSizes = {3, 4}
  Word = 420
  FirstCap = 2
  MaxPictures = 2
  MaxSamples = 6
SPECIFICATION MCFairSpec
INVARIANTS
  SlotsAreOwned
  PlaybackIsComplete
  CastIsSafe
  RecordingIsWhole
PROPERTIES
  ImplementsReplay
  WritesAreHeard
  LastFrameIsShown
CHECK_DEADLOCK FALSE
