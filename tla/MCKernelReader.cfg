CONSTANTS
    NUM_TERMINALS = 2
    MAX_PROCESSES = 2
    MaxNest = 1
    Followed = {}
SPECIFICATION FairSpec
PROPERTY
    ReaderReturns
