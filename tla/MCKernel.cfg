CONSTANTS
    NUM_TERMINALS = 3
    MAX_PROCESSES = 3
    MaxNest = 1
    Followed = {}
SPECIFICATION Spec
INVARIANTS
    TypeOK
    Accounting
    InSync
    StackDiscipline
    SavedContexts
    NoHang
    Handshake
    RunningHasShell
