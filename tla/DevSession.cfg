CONSTANTS
    Units <- TwoUnits
    DependsOn <- InARow
    Owns <- OwnPaths
    Paths = {"u1", "u2"}
    UIFree = {1}
    Routings <- TwoRoutes
    Fallible = {"implementation", "qa", "review"}
    Uncommitted = {"intake", "workspace"}
    Recertified <- Together
    MaxCommit = 2
    MaxResults = 7
    MaxRuns = 2
SPECIFICATION SessionSpec
INVARIANTS
    SessionTypeOK
    CompleteIsCurrent
    RetryBudget
    FreshAttempts
    QaLedgerAgrees
    UnitsSafe
CHECK_DEADLOCK FALSE
