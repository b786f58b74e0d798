CONSTANTS
    Workers = {w1, w2}
    Runs = {r1, r2}
    Cards = {c1}
    Stages = {dev}
    Contents = {ready, parked}
    Parked = parked
    Eligible = {ready}
    Progress = {parked}
    Outcomes = {completed, failed}
    KeepsCard = {failed}
    None = None
    MaxAttempts = 2
    Edits = {ready, None}
    Stops = {TRUE, FALSE}
    Crashes = TRUE
    Reconciles = TRUE
SYMMETRY Symmetry
SPECIFICATION LoopSpec
INVARIANTS
    OneOpenRun
    OneEngine
    EngineIsRecorded
    EngineIsAnswered
PROPERTY StopHolds
CHECK_DEADLOCK FALSE
