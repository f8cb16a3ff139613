CONSTANTS
  Instances = {i1}
  Sessions = {s1}
  Clocked = {s1}
  UpdateSteps <- StrictSteps
  MessageLimit = 2
  MaxMessageFetch = 2
  SessionWorkers = 1
  MaxMsgs = 1
  MaxUpdated = 2
  MaxFaults = 1
SPECIFICATION FairSpec
PROPERTY PendingRetried
