CONSTANTS
    NUM_TERMINALS = 2
    MAX_PROCESSES = 2
    MaxNest = 2
    Followed = {}
SPECIFICATION FairSpec
PROPERTIES
    RoundRobin
    RequestServed
