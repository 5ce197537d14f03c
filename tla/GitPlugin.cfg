\* A remote that moves and comes back, a timeout, a power failure and a cache
\* clear, anywhere.
SPECIFICATION FairSpec
CONSTANTS
  f = f
  g = g
  a = a
  b = b
  c1 = c1
  c2 = c2
  Path = {f, g}
  Content = {a, b}
  None = None
  Commit = {c1, c2}
  TreeOf <- MCTreeOf
  GitDir = GitDir
  MaxMoves = 2
  MaxFaults = 1
  MaxDeaths = 1
  MaxClears = 1
INVARIANTS
  TypeOK
  ReadsOneCommit
PROPERTIES
  PublishesPin
  Converges
