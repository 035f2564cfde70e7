\* The consumer may have left: a terminal state.
SPECIFICATION FairSpec
CONSTANTS
    MaxReq = 3
    Cap = 1
    MaxLines = 1
CHECK_DEADLOCK FALSE
INVARIANTS
    OkMeansWritten
    NoStaleReply
    NoHiddenProcess
PROPERTIES
    EachRequestReturns
    StopReaps
