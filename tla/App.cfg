\* Two servers, one of them an Endpointer; every combination of timeouts, and a stop()
\* called inside another.
CONSTANTS
    NumServers = 2
    Endpointers <- SecondServer
    HasRegistrar = TRUE
    HookCount <- TwoStartHooks
    BoundedStarts = {FALSE, TRUE}
    BoundedStops = {FALSE, TRUE}
    MaxStops = 2
SPECIFICATION Spec
ACTION_CONSTRAINT EnvironmentBound
INVARIANTS
    NoOrphanInstance
    WithdrawnBeforeStop
    EveryServerStopped
    RunOkMeansClean
PROPERTIES
    NoStartBehindStop
    StopSettles
    RegistrationWithdrawn
CHECK_DEADLOCK FALSE
