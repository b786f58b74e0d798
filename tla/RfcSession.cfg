CONSTANTS
    plain = plain
    amended = amended
    Runs = {r1, r2, r3}
    Designs = {plain, amended}
    InScope <- MCInScope
    Shown = {"reviewed", "approved"}
    Kinds = {"maintenance", "owns-only"}
    Delegated = TRUE
    Hops = 2
    None = None
SYMMETRY Symmetry
SPECIFICATION RfcSpec
INVARIANTS
    ArchivedIsReviewed
    AmendmentsStayInScope
    AuditIsGenuine
    LatestIsAmended
PROPERTY NothingDiscarded
CHECK_DEADLOCK FALSE
