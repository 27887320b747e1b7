CONSTANTS
    LibCells = 10
    LibText = 3
    WIDTH = 8
    NUM_TERMINALS = 2
    MAX_PROCESSES = 3
    Executables = {"shell", "sigtest", "fish"}
    Size <- FileSizes
    Arguments <- Tails
    ARGS_BUFFER_SIZE = 4
    BufferSizes = {1, 2}
    Statuses = {0, 255}
    Vectors = {14, 16}
    MaxRestarts = 2
SPECIFICATION Spec
INVARIANTS
    ArgsDelivered
    LibraryWorks
PROPERTY
    OnlyLongPrograms
