SPECIFICATION Spec
CONSTANTS
    Chunks <- Programs
    MaxOutcomes = 4
    ChunkSize = 2
    KLimit = 2
    IndexLimit = 256
INVARIANTS
    EvaluatesAsWritten
    RegistersHeld
CHECK_DEADLOCK FALSE
