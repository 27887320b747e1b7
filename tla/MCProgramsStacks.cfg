CONSTANTS
    LibCells = 10
    LibText = 3
    WIDTH = 8
    NUM_TERMINALS = 2
    MAX_PROCESSES = 3
    Executables = {"shell", "fish"}
    Size <- FileSizes
    Arguments <- NoTail
    ARGS_BUFFER_SIZE = 4
    BufferSizes = {1}
    Statuses = {0}
    Vectors = {14}
    MaxRestarts = 1
SPECIFICATION Spec
INVARIANT
    FramesIntact
