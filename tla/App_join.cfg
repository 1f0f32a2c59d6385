\* A beforeStart hook that calls stop() before it returns.
CONSTANTS
    NumServers = 1
    Endpointers = {}
    HasRegistrar = TRUE
    HookCount <- TwoStartHooks
    BoundedStarts = {FALSE}
    BoundedStops = {FALSE}
    MaxStops = 1
SPECIFICATION Spec
INVARIANTS
    StopJoinsStartup
CHECK_DEADLOCK FALSE
