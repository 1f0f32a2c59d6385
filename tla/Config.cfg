\* Two watched sources, two changes each, two failures anywhere.
CONSTANTS
    NumSources = 2
    Watched <- Both
    MaxVersion = 2
    MaxFailures = 2
SPECIFICATION Spec
INVARIANTS
    ChangeAccountedFor
    DirtyHasOwner
    WatchersReleased
PROPERTIES
    PublicationsOnlyAdvance
    Converges
    CloseSettles
CHECK_DEADLOCK FALSE
