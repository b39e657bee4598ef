SPECIFICATION FairSpec
CONSTANTS
  Envs <- MCEnvs
  Users <- MCUsers
  Active <- MCActive
  Passive <- MCPassive
  EvtMax = 1
INVARIANTS TablesAgree OptionsAreReal
PROPERTIES CallsReturn TickerServes
CHECK_DEADLOCK FALSE
