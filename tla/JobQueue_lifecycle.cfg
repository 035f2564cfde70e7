\* Identifiers run out and the server may stay down: terminal states exist.
SPECIFICATION FairSpec
CONSTANTS
    j1 = j1
    j2 = j2
    j3 = j3
    c1 = c1
    Ids <- MCIds
    Clients <- MCClients
    None = None
    QueueCap = 2
    MaxJobs = 3
    MaxBoots = 1
    MaxFaults = 0
CHECK_DEADLOCK FALSE
PROPERTIES
    ImplementsLifecycle
    EveryJobEnds
    StopEnds
