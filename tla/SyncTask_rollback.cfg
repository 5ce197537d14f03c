\* No crash; one failure of a step of Apply after the switch.
SPECIFICATION Spec
CONSTANTS
  Path = {f, g}
  a = a
  b = b
  Content = {a, b}
  None = None
  SizeOf <- MCSizeOf
  Salt = {s}
  NoFp = NoFp
  Modes = {"pinned"}
  KeepLast = 2
  KeepDaysSet = FALSE
  Faults = {"clear","meta"}
  MaxVersion = 5
  MaxGap = 1
  MaxBacks = 0
  MaxEdits = 2
  MaxCrashes = 0
  MaxFaults = 1
  FailureCap = 2
SYMMETRY PathSymmetry
INVARIANT CurrentComplete
