\* The search ends at the last block.
SPECIFICATION Spec
CONSTANTS
    Weights <- MCWeights
    Activations = {0, 1, 2}
    Half = 1
    Blocks = 2
    Multipliers <- MCMultipliers
CHECK_DEADLOCK FALSE
INVARIANTS
    ResidualIsOfTheBytes
