SPECIFICATION Spec
CONSTANTS
    Schema <- MCSchema
    Named <- MCNamed
    MaxDepth = 3
    ManyLimit = 2
    Loads <- MCLoads
    Pool <- MCPool
    Additions <- MCAdditions
    MaxTx = 2
    MaxExcisions = 1
    Allowed = TRUE
    Retired = {12}
    Targets <- MCTargets
    Misread <- MCMisread
    Patterns <- MCPatterns
    Roots <- MCRoots
INVARIANTS
    PullExact
    RecursionReaches
    PullManyIsPull
    ReadsCoverCurrent
    LogReplays
    DiffIsLogged
    StatsNeverAhead
PROPERTIES
    HelperRetractsLive
CHECK_DEADLOCK FALSE
