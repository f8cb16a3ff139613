CONSTANTS
  Sessions = {s1}
  MaxMsgs = 4
  Times <- FewTimes
SPECIFICATION Spec
INVARIANT CursorIsNewestWritten
PROPERTY WrittenIsPermanent
