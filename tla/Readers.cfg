\* Three requests at one slot and one place in the queue, or two and a command
\* or a query, over two versions of which the last is kept.
SPECIFICATION MCSpec
CONSTANTS
  f = f
  g = g
  d = d
  Path = {f, g}
  Folder = {d}
  Above <- MCAbove
  Request = {h1, h2, h3}
  Tool = {x}
  Cap = 1
  MaxQueue = 1
  KeepLast = 1
  MaxVersions = 2
  MaxArrivals = 3
  MaxEvents = 1
  Subject = {"s", "t"}
  Capacity = 3
  MaxLog = 7
\* With every bound used up nothing is left to do.
CHECK_DEADLOCK FALSE
INVARIANTS
  TypeOK
  QueueCounts
  OneVersion
  TailIsRecent
PROPERTIES
  Answered
