SPECIFICATION Spec
CONSTANTS
    Main = Main
    None = None
    c1 = c1
    c2 = c2
    c3 = c3
    Coroutines <- TwoCoroutines
    MaxDepth = 2
    MaxParkWalk = 3
    UsesPcall <- OneProtected
    ErrCallers <- OnlyMain
    HostCloses = TRUE
INVARIANT
    NoLuaAfterClose
