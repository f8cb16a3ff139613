CONSTANTS
  Instances = {i1, i2, i3}
  NoOne = none
  LeaseTimeout = 11
  RenewInterval = 2
  VerifyMin = 2
  VerifyMax = 3
  IODelay = 1
  ClockSkew = 1
  MaxMissed = 1
  MaxFaults = 6
  Writers = {h1, h2}
  TmpNames <- MCTmpNames
  Tmp <- MCTmp
  LeasePath <- MCLeasePath
  Inodes = {f1, f2, f3, f4}
  NoInode = none
SPECIFICATION LeaseFairSpec
INVARIANT AtMostOneLeader
INVARIANT AcquiredAtIsLeaders
INVARIANT FileParses
PROPERTY ActiveLeaseNotStolen
PROPERTY LeadershipGoesOn
