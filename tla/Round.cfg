CONSTANTS
  Sessions = {s1, s2, s3}
  SessionWorkers = 2
  NoSession = none
  MaxNew = 1
  Workers = {w1, w2, w3}
  Paths = {p1, p2}
  Locks = {l1, l2, l3, l4, l5}
  None = none
  Timeout = 5
SPECIFICATION PartsSpec
INVARIANT NothingOutlivesRound
INVARIANT ReportIsComplete
INVARIANT OneWriterPerPath
INVARIANT TimeIsBounded
PROPERTY RoundReturns
PROPERTY EventuallyWrites
CHECK_DEADLOCK FALSE
