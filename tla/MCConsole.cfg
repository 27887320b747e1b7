CONSTANTS
    Chars = {a}
    NUL = NUL
    NL = NL
    NEWLINE = NL
    RETURN = CR
    SPACE = SPACE
    MAX_BUFFER_SIZE = 4
    NUM_HISTORY_BUFFERS = 2
    ReadSizes = {3}
    MaxPending = 0
    NUM_ROWS = 3
    NUM_COLS = 2
    Output = {a, NL, CR}
VIEW NotRead
SPECIFICATION ConsoleSpec
INVARIANTS
    LineOnScreen
    StoresInside
