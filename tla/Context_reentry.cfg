\* A CancelFunc called from an abort listener, while an outer wave is running.
CONSTANTS
    MaxNode = 3
    MaxReg = 1
    MaxTime = 0
    MaxDelay = 1
    Causes <- NoCauses
SPECIFICATION Spec
INVARIANTS
    CancelSettlesAll
CHECK_DEADLOCK FALSE
