CONSTANTS
    NUM_TERMINALS = 2
    Rates = {1024}
    MaxCount = 1
SPECIFICATION FairSpec
INVARIANTS
    ServiceMatches
    FrequencyAsked
PROPERTIES
    WaitsForInterrupt
    KeyboardAcknowledged
    ReadReturns
