CONSTANTS
    Runs = {r1, r2}
    Cards = {c1}
    Stages = {dev, ship}
    Contents = {parked}
    Parked = parked
    Outcomes = {completed}
    None = None
    Workers = {w1, w2}
    MaxAttempts = 2
    Edits = {parked, None}
    Stops = {}
SYMMETRY WorkerSymmetry
SPECIFICATION Spec
INVARIANTS
    RecoveryMatchesEvent
    OneActiveLease
    LeaseMatchesEvent
PROPERTIES
    CheckpointSurvives
    LifecycleSpec
CHECK_DEADLOCK FALSE
