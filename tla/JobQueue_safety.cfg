\* Identifiers run out and the server may stay down: terminal states exist.
SPECIFICATION Spec
CONSTANTS
    j1 = j1
    j2 = j2
    j3 = j3
    c1 = c1
    c2 = c2
    Ids <- MCIds
    Clients <- MCClients
    None = None
    QueueCap = 1
    MaxJobs = 3
    MaxBoots = 1
    MaxFaults = 1
SYMMETRY MCSymmetry
CHECK_DEADLOCK FALSE
INVARIANTS
    EachWaitsOnce
    NeverBlocksUnderMu
    DiskFollowsMemory
    CancelHitsItsJob
PROPERTIES
    TerminalIsFinal
