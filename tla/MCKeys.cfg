CONSTANTS
    MAX_CHARACTERS = 2
SPECIFICATION Spec
INVARIANTS
    ModifiersFollow
    CaseTyped
