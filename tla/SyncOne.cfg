CONSTANTS
  Instances = {i1}
  Sessions = {s1}
  Clocked = {s1}
  UpdateSteps <- MillisecondSteps
  MessageLimit = 2
  MaxMessageFetch = 3
  SessionWorkers = 1
  MaxMsgs = 4
  MaxUpdated = 4
  MaxFaults = 2
SPECIFICATION Spec
INVARIANT TypeOK
INVARIANT StatusNeverLeadsOutput
INVARIANT NoSilentGap
INVARIANT SkipIsSafe
INVARIANT FirstExportsInOrder
INVARIANT DuplicatesNeedFaults
INVARIANT OnlyTornMessageIsLost
PROPERTY UsesStore
PROPERTY ImplementsAtLeastOnce
