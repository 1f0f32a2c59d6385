\* Nested cancellation, no deadline in the future: chains of three contexts, two
\* listeners or callbacks that re-enter the package.
CONSTANTS
    MaxNode = 3
    MaxReg = 2
    MaxTime = 0
    MaxDelay = 1
    Causes <- MCCauses
SPECIFICATION Spec
INVARIANTS
    PropagationOwed
    OutermostCancelSettlesAll
    AfterFuncOnce
CHECK_DEADLOCK FALSE
