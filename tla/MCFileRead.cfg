CONSTANTS
    FILE_SIZE = 3
    Sizes = {0, 1, 3, 5, 6, 8, 9}
    data_blocks <- Scattered
    Lengths = {0, 1, 2, 3, 4, 7, 8, 9}
SPECIFICATION Spec
INVARIANTS
    CopiesFile
    SeenIsPrefix
PROPERTIES
    LoopComputesReadData
