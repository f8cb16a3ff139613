CONSTANTS
  Processes = {p1, p2}
  Indexes = {x1, x2}
  MaxFaults = 3
SPECIFICATION BothSpec
INVARIANT LeaderIsReported
INVARIANT ResourcesMatch
INVARIANT OnceFailureIsReported
INVARIANT OpenedIsUsable
INVARIANT OwnIsNeverRefused
PROPERTY SignalEndsProcess
PROPERTY OnceEnds
CHECK_DEADLOCK FALSE
