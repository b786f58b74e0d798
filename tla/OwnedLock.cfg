CONSTANTS
    Procs = {p1, p2, p3, p4}
    Mortal = {p1, p2}
    Gone = gone
    Base = base
    None = None
SPECIFICATION FairSpec
INVARIANTS
    OneOwner
PROPERTIES
    LiveLockIsSafe
    AbandonedIsReclaimed
