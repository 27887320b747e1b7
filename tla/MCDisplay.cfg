CONSTANTS
    NUM_TERMINALS = 2
    MaxNest = 2
SPECIFICATION Spec
INVARIANTS
    Routed
    OwnInk
