SPECIFICATION FairSpec
CONSTANTS
    Threads = {t1, t2, t3}
    Environments <- AllEnvironments
INVARIANTS TypeOK Exclusion AssertionsHold
PROPERTY EveryCallReturns
CHECK_DEADLOCK FALSE
