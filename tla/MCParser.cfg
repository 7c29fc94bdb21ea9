SPECIFICATION Spec
CONSTANTS
    Worlds <- MCWorlds
    Patience = 30
INVARIANTS
    NamesVisible
    Advances
    ReadsAsWritten
    NamesResolved
