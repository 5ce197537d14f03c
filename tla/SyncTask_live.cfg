\* No crash, and failures only before the switch: the pipeline's promises in
\* full, with liveness.
SPECIFICATION FairSpec
CONSTANTS
  Path = {f, g}
  a = a
  b = b
  Content = {a, b}
  None = None
  SizeOf <- MCSizeOf
  Salt = {s, t}
  NoFp = NoFp
  Modes = {"pinned"}
  KeepLast = 1
  KeepDaysSet = TRUE
  Faults = {"snapshot", "pull", "nochange", "fetch", "link"}
  MaxVersion = 3
  MaxGap = 1
  MaxBacks = 0
  MaxEdits = 2
  MaxCrashes = 0
  MaxFaults = 1
  FailureCap = 2
INVARIANTS
  CurrentExact
  NoDebris
PROPERTIES
  Converges
  ImplementsAtomicMirror
