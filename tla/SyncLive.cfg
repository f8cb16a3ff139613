CONSTANTS
  Instances = {i1}
  Sessions = {s1, s2}
  Clocked = {s1}
  UpdateSteps <- MillisecondSteps
  MessageLimit = 1
  MaxMessageFetch = 3
  SessionWorkers = 1
  MaxMsgs = 2
  MaxUpdated = 3
  MaxFaults = 1
SPECIFICATION FairSpec
PROPERTY EventuallyWritten
PROPERTY EventuallyRegistered
