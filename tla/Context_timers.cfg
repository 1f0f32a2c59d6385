\* Deadlines: segmented timers, inherited and overdue deadlines, late wakes.
CONSTANTS
    MaxNode = 2
    MaxReg = 1
    MaxTime = 3
    MaxDelay = 2
    Causes <- MCCauses
SPECIFICATION Spec
INVARIANTS
    CauseProvenance
    CleanupOwed
    DeadlineNeverExtended
PROPERTIES
    AfterFuncRuns
    DeadlineEnforced
CHECK_DEADLOCK FALSE
