SPECIFICATION Spec
CONSTANTS
  A = a
  B = b
  Wnd = 1
  TrySize = 2
  ChanCap = 2
  MaxBytes = 2
  MaxCall = 1
  MaxEnds = 1
INVARIANT FinIsLast
CHECK_DEADLOCK FALSE
