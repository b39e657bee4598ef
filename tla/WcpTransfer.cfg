SPECIFICATION Spec
CONSTANTS
    A = A
    B = B
    MDU = 2
    HeaderLen = 1
    SndCap = 2
    RcvCap = 9
    Probes = 1
    MaxCall = 3
    Environments <- SafetyEnvironments
INVARIANTS TypeOK AckSound Reliable Consecutive ReceivedAhead NoGap
CHECK_DEADLOCK FALSE
