\* Tools stop when the starts are used up.
SPECIFICATION PubSpec
CONSTANTS
    Procs = {p1, p2}
    None = None
    Present <- MCPresent
    Editable <- MCEditable
    Elements <- MCElements
    HeaderBytes = 64
    MaxStarts = 4
    MaxEdits = 2
    MaxMoves = 1
SYMMETRY Symmetry
CHECK_DEADLOCK FALSE
INVARIANTS
    NothingPartial
    ContentsArePinned
    RemoteIsApproved
    BundleIsConsistent
PROPERTIES
    NeverOverwritten
