SPECIFICATION Spec
CONSTANTS
  Byte = 3
  SrBits = 2
  Programs <- MCPrograms
INVARIANTS
  SkippingIsSound
  BatchIsExact
PROPERTIES
  LazyIsExact
  T1PeriodIsNPlus2
  ShiftOutIsComplete
