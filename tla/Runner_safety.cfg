\* One reloader, two tasks, a trigger: what the flags, the cancel functions and
\* the wait group do ensure, and that reload and shutdown end.
SPECIFICATION FairSpec
CONSTANTS
  docs = docs
  pics = pics
  Task = {docs, pics}
  Loop = {l1, l2}
  Trigger = {g}
  Reloader = {r}
  Main = Main
  Flag = {f1, f2, f3, f4, f5, f6}
  None = None
  Configs <- MCConfigs
  MaxReloads = 1
  FailureCap = 0
INVARIANTS
  TypeOK
  FlagOwner
  ExclusiveUntilReload
  LoopsExclude
  NoOrphan
  LoopsFollowConfig
PROPERTIES
  ReloadEnds
  StopEnds
