CONSTANTS
    Clones = {"here", "there"}
    Edits <- ThreeEdits
    Used <- SyncHere
    None = None
SPECIFICATION SyncSpec
INVARIANT MarkersStayLocal
PROPERTIES
    NothingLost
    VerifiedIsPublished
CHECK_DEADLOCK FALSE
