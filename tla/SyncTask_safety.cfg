\* Crashes anywhere, failures of every step whose failure leaves Apply's
\* promise intact; both plugins.
SPECIFICATION Spec
CONSTANTS
  Path = {f, g}
  a = a
  b = b
  Content = {a, b}
  None = None
  SizeOf <- MCSizeOf
  Salt = {s}
  NoFp = NoFp
  Modes = {"pinned", "live"}
  KeepLast = 2
  KeepDaysSet = FALSE
  Faults = {"snapshot", "pull", "nochange", "fetch", "link", "rollback",
            "retention", "prune", "save"}
  MaxVersion = 5
  MaxGap = 1
  MaxBacks = 1
  MaxEdits = 2
  MaxCrashes = 1
  MaxFaults = 1
  FailureCap = 2
SYMMETRY PathSymmetry
INVARIANTS
  TypeOK
  CurrentComplete
  MirrorMatchesState
  NoChangeIsTrue
  RetentionBudget
PROPERTIES
  FpIsOfManifest
  StateFollowsMirror
  RetentionSpares
