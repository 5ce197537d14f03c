\* Two commands at once, and two of: a kill, a SIGHUP, a stop of the daemon, a
\* change of the source, an incomplete purge.
SPECIFICATION FairSpec
CONSTANTS
  doc = doc
  pic = pic
  doc1 = doc1
  doc2 = doc2
  pic1 = pic1
  f = f
  g = g
  a = a
  b = b
  Path = {f, g}
  Content = {a, b}
  None = None
  Task = {doc, pic}
  Def = {doc1, doc2, pic1}
  NameIn <- MCNameIn
  Bad = {doc2}
  Disabled = {pic1}
  Proc = {p1, p2}
  Hup = Hup
  Sources <- MCSources
  FirstFile <- MCFirstFile
  MaxCommands = 2
  MaxEvents = 2
\* With every bound used up and a file the daemon cannot start from, nothing
\* is left to do.
CHECK_DEADLOCK FALSE
INVARIANTS
  TypeOK
  RunsWhatWasChecked
  DaemonFollowsFile
PROPERTIES
  KeepsOthers
  PublishesWhole
  TasksFollowed
