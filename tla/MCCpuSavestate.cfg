CONSTANTS
  Sources = {s1}
  PulseMax = 1
  PlainLengths = {1, 2}
SPECIFICATION SaveSpec
PROPERTY ResumeIsExact
