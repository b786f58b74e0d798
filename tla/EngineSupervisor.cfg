CONSTANTS
    Leader = leader
    Kin = {k1, k2}
    MaxCommits = 2
    None = None
SPECIFICATION FairSpec
INVARIANTS
    NoSurvivors
    SuccessIsUndisturbed
PROPERTY StopEndsEngine
CHECK_DEADLOCK FALSE
