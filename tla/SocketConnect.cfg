SPECIFICATION FairSpec
CONSTANTS
  Envs <- MCEnvs
  Arrives = 2
  AcceptMax = 2
CHECK_DEADLOCK FALSE
INVARIANTS OutcomeSound FramesSound
PROPERTIES AllServed
