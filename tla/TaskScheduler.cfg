SPECIFICATION Spec
CONSTANTS
    None = None
    AllTasks = {1, 2, 3, 4, 5, 6}
    MaxRunners = 2
    MaxSeqs = 2
    Environments <- PassEnvironments
INVARIANTS WakeUpsSound InOrder AssertionsHold
PROPERTIES EveryTaskRuns
CHECK_DEADLOCK FALSE
