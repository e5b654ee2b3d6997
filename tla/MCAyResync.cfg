CONSTANTS
  Regs = {r1}
  Vals = {on, off}
  FirstReg = r1
  Zero = off
  Size = 3
  Samples = 2
  MaxCycle = 1
SPECIFICATION ResyncSpec
INVARIANT SoundIsRestored
