\* The epochs of the model run out.
SPECIFICATION FairSpec
CONSTANTS
    Handlers = {1, 2}
    MaxEpoch = 5
    MaxSent = 3
CHECK_DEADLOCK FALSE
INVARIANTS
    SessionsEnd
PROPERTIES
    ShownInOrder
    StopReturns
