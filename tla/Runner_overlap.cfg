\* Can two syncs of one task run at once?
SPECIFICATION Spec
CONSTANTS
  docs = docs
  pics = pics
  Task = {docs, pics}
  Loop = {l1, l2}
  Trigger = {g}
  Reloader = {r}
  Main = Main
  Flag = {f1, f2, f3, f4, f5, f6}
  None = None
  Configs <- MCConfigs
  MaxReloads = 1
  FailureCap = 0
INVARIANT MutualExclusion
