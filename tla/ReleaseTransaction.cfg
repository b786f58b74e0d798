CONSTANTS
    Commits = {c1, c2}
    Bodies = {b1, b2}
    Kinds = {}
    None = None
    MaxGenerations = 2
    MaxAttempts <- Tries
    Starters = {s1, s2}
SYMMETRY Symmetry
SPECIFICATION Spec
INVARIANTS
    Loadable
    ChainHolds
    MergeIsAttested
PROPERTY AuditKept
CHECK_DEADLOCK FALSE
