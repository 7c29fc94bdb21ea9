SPECIFICATION Spec
CONSTANTS
    Main = Main
    None = None
    c1 = c1
    c2 = c2
    c3 = c3
    Coroutines <- ThreeCoroutines
    MaxDepth = 2
    MaxParkWalk = 3
    UsesPcall <- ThreeCoroutines
    ErrCallers <- OnlyMain
    HostCloses = TRUE
SYMMETRY Interchangeable
INVARIANTS
    MutualExclusion
    LockDiscipline
    MessageDiscipline
    ChainBookkeeping
    StatusTruthful
