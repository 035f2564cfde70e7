\* The server may stay refused, or every id be used up.
SPECIFICATION Spec
CONSTANTS
    Live = {l1}
    Offline = {}
    Takes = {k1}
    Handlers = {r1}
    None = None
    MaxStamp = 2
    MaxFrames = 2
    MaxLive = 1
    MaxHistory = 1
    MaxJobs = 0
    MaxFaults = 1
    MaxCrashes = 0
SYMMETRY Symmetry
CHECK_DEADLOCK FALSE
INVARIANTS
    RecordingIsKept
