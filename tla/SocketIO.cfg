SPECIFICATION FairSpec
CONSTANTS
  Polls = {"epoll", "select", "wpoll"}
  KCap = 1
  SbCap = 3
  Limits <- MCLimits
CHECK_DEADLOCK FALSE
INVARIANTS WatchesAgree OrderKept
PROPERTIES MovesOn CloseIsTold
