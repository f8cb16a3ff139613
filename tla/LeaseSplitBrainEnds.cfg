CONSTANTS
  Instances = {i1, i2}
  NoOne = none
  LeaseTimeout = 4
  RenewInterval = 2
  VerifyMin = 2
  VerifyMax = 2
  IODelay = 1
  ClockSkew = 0
  MaxMissed = 2
  MaxFaults = 2
SPECIFICATION FairSpec
PROPERTY SplitBrainEnds
