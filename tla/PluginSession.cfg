\* Handshake, snapshot and two fetches, with a plugin that may hang, die, and
\* write any two lines at any time.
SPECIFICATION FairSpec
CONSTANTS
  MaxCalls = 4
  MaxStrays = 2
INVARIANTS
  TypeOK
  AnswerMatches
  QuietAfterClose
PROPERTIES
  SessionEnds
  ReadersEnd
