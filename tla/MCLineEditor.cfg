CONSTANTS
    Chars = {a, b}
    NUL = NUL
    NL = NL
    MAX_BUFFER_SIZE = 3
    NUM_HISTORY_BUFFERS = 3
    ReadSizes = {3}
    MaxPending = 0
VIEW Observed
SYMMETRY Symmetry
SPECIFICATION Spec
INVARIANTS
    TypeOK
    LineText
    DeliveredLine
    HistoryRing
PROPERTY
    ImplementsEditLine
