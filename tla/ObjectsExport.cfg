\* The processes that may be started are used up.
SPECIFICATION Spec
CONSTANTS
    None = None
    Checkpoint <- MCCheckpoint
    Requests <- MCRequests
    MaxRuns = 2
CHECK_DEADLOCK FALSE
INVARIANTS
    ResidualsExported
    StoredForGgml
    PolicyKept
