SPECIFICATION Spec
CONSTANTS
    Scenes <- MCScenes
    MaxProbes = 10
    MaxFailures = 1
INVARIANTS
    OnlyRealFlaws
    FlawsAreFound
    CapHolds
    GravestOriginKept
    SweptOnce
CHECK_DEADLOCK FALSE
