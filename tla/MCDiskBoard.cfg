CONSTANTS
  m1 = m1
  m2 = m2
  none = none
  NoDisk = none
  Media <- MCMedia
  Loaded <- MCLoaded
  Damaged <- MCDamaged
  Content <- MCContent
  Sides = {0}
  Tracks = 2
  Spt = 2
  SectorLen = 2
  MaxByte = 3
  ID_AM = 3
  DATA_AM = 2
  Drives = {0, 1}
  FirstDrive = 0
  Fitted <- MCFitted
  DiskWriteback = TRUE
  Samples = {0, 3}
  Filler = 3
  MaxActs = 3
SPECIFICATION FairSpec
INVARIANTS
  BoardIsInStep
  CommandsEndCleanly
  TransferIsExact
  WriteIsMarked
PROPERTIES
  StreamEnds
