CONSTANTS
    Procs = {p1, p2, p3}
    Receipts = {a, b}
    MaxTries = 3
    None = None
SYMMETRY Symmetry
SPECIFICATION Spec
INVARIANTS
    OneHolder
    AtMostOnce
    EffectIsJournaled
PROPERTIES
    ReceiptsKept
    EffectSpec
CHECK_DEADLOCK FALSE
