\* One crash, no failure: does the mirror stay exact?
SPECIFICATION Spec
CONSTANTS
  Path = {f, g}
  a = a
  b = b
  Content = {a, b}
  None = None
  SizeOf <- MCSameSize
  Salt = {s}
  NoFp = NoFp
  Modes = {"pinned"}
  KeepLast = 2
  KeepDaysSet = FALSE
  Faults = {}
  MaxVersion = 5
  MaxGap = 1
  MaxBacks = 0
  MaxEdits = 2
  MaxCrashes = 1
  MaxFaults = 1
  FailureCap = 2
SYMMETRY PathSymmetry
INVARIANT CurrentExact
