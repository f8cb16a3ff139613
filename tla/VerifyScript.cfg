SPECIFICATION Spec
CONSTANTS
  Sessions = {s1}
  Users = {u1, u2}
  Default = default
  NoUser = none
  MaxMsgs = 2
  MaxChanges = 1
  MaxFaults = 2
SYMMETRY Interchangeable
INVARIANT RowNamesItsFile
INVARIANT ZeroMeansExported
INVARIANT VerdictIsRight
