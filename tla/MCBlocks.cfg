SPECIFICATION Spec
CONSTANTS
    Chunks <- Programs
    MaxOutcomes = 4
INVARIANTS
    OpenListExact
    RunsAsWritten
CHECK_DEADLOCK FALSE
