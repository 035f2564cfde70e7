\* The consumer may leave; requests then wait for ever.
SPECIFICATION FairSpec
CONSTANTS
    Live = {}
    Offline = {o1}
    Takes = {}
    Handlers = {r1, r2, r3}
    None = None
    MaxStamp = 3
    MaxFrames = 2
    MaxLive = 1
    MaxHistory = 1
    MaxJobs = 2
    MaxFaults = 1
    MaxCrashes = 0
CHECK_DEADLOCK FALSE
INVARIANT SavedIsLoadable
PROPERTIES
    JobNotStarved
    EveryFrameAnswered
