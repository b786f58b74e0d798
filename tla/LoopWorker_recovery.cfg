CONSTANTS
    Workers = {w1, w2}
    Runs = {r1, r2}
    Cards = {c1}
    Stages = {dev}
    Parked = parked
    None = None
    Contents = {ready, parked}
    Eligible = {ready}
    Progress = {parked}
    Outcomes = {completed}
    KeepsCard = {}
    MaxAttempts = 1
    Edits = {}
    Stops = {}
    Crashes = TRUE
    Reconciles = TRUE
SPECIFICATION FairLoopSpec
PROPERTY CheckpointIsFinalized
CHECK_DEADLOCK FALSE
