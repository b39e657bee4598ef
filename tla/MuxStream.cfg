SPECIFICATION FairSpec
CONSTANTS
  A = a
  B = b
  Wnd = 2
  TrySize = 1
  ChanCap = 2
  MaxBytes = 4
  MaxCall = 3
  MaxEnds = 1
INVARIANTS WindowSound
PROPERTIES ImplementsPipe NoDataAfterClosed BlockedWriterResumes
CHECK_DEADLOCK FALSE
