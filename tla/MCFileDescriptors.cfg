CONSTANTS
    MAX_PROCESSES = 2
    FDT_SIZE = 4
    Files = {"shell", "frame0"}
    Programs = {"shell"}
    Size <- FileSizes
    MAX_DIR_ENTRIES = 2
    Entries = {1}
    Lengths = {1, 3}
SPECIFICATION Spec
INVARIANTS
    TypeOK
    SlotMarksAgree
    DirectoryCount
    PositionInFile
PROPERTIES
    OnlyFreeSlotsTaken
