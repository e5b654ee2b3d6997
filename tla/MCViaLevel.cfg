SPECIFICATION Spec
CONSTANTS
  Byte = 3
  SrBits = 2
  Programs <- MCPrograms
INVARIANT LineIsHeard
