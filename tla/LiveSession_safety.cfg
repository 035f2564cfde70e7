\* The server may stay refused, or every id be used up.
SPECIFICATION Spec
CONSTANTS
    Live = {l1, l2}
    Offline = {}
    Takes = {k1}
    Handlers = {r1, r2}
    None = None
    MaxStamp = 1
    MaxFrames = 2
    MaxLive = 1
    MaxHistory = 1
    MaxJobs = 0
    MaxFaults = 1
    MaxCrashes = 1
SYMMETRY Symmetry
CHECK_DEADLOCK FALSE
INVARIANTS
    NothingIsOrphaned
    AnsweredIsSaved
    TakesAreSoundIfSaved
PROPERTIES
    TakeHoldsItsFrames
