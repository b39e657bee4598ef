SPECIFICATION FairSpec
CONSTANTS
  p1 = p1
  p2 = p2
  r1 = r1
  r2 = r2
  Peers = {p1, p2}
  Reqs = {r1, r2}
  Limits <- MCLimits
CHECK_DEADLOCK FALSE
INVARIANTS PeersSound OneAnswer
PROPERTIES AllEnds
