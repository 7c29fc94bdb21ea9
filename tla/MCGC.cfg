SPECIFICATION Spec
CONSTANTS
    MainThread = MainThread
    Registry = Registry
    NoObject = NoObject
    a = a
    b = b
    white0 = white0
    white1 = white1
    Whites <- TwoWhites
    Objects <- TwoObjects
    Mixes <- Varied
    MaxFields = 1
    MaxLocals = 2
SYMMETRY EitherWhite
INVARIANTS
    MarksAccounted
    BarriersHold
    CleanSlate
    NothingUsableCollected
PROPERTIES
    FullGCCollectsGarbage
