CONSTANTS
  Instances = {i1, i2}
  Sessions = {s1}
  Clocked = {}
  UpdateSteps <- StrictSteps
  MessageLimit = 1
  MaxMessageFetch = 2
  SessionWorkers = 1
  MaxMsgs = 2
  MaxUpdated = 1
  MaxFaults = 1
  NoOne = none
  LeaseTimeout = 3
  RenewInterval = 1
  VerifyMin = 1
  VerifyMax = 1
  IODelay = 0
  ClockSkew = 0
  MaxMissed = 0
  MaxLeaseFaults = 2
SPECIFICATION HAFairSpec
INVARIANT Exclusive
PROPERTY WrittenAfterFailover
