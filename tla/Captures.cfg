SPECIFICATION Spec
CHECK_DEADLOCK FALSE
CONSTANTS
    p1 = p1
    p2 = p2
    p3 = p3
    Calls = {p1, p2, p3}
    None = None
    MaxLosses = 2
    Report <- MCReport
    Programs <- AllPrograms
    Plans <- MCPlans
INVARIANT ManifestIsOwn
INVARIANT Neutral
INVARIANT Accepted
INVARIANT IdentityHeld
INVARIANT OneCommand
INVARIANT FinishedIsOver
INVARIANT OutputsAreOwn
