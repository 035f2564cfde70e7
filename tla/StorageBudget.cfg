\* Nothing more fits when the budget is spent.
SPECIFICATION Spec
CONSTANTS
    Budget = 12
    Reserve = 2
    Frame = 2
    Pose = 1
    Cap = 2
CHECK_DEADLOCK FALSE
INVARIANTS
    ReservationKept
    SlipBounded
