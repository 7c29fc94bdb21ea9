SPECIFICATION Spec
CONSTANTS
    nil = nil
    Nil = nil
    MinInt = 0
    MaxInt = 5
    Values <- SomeValues
    Limits <- SomeLimits
    MaxMeddled = 2
    Calls <- SomeCalls
    MaxCaptures = 2
    MaxRecDepth = 5
    MaxStrSize = 8
INVARIANTS
    InRange
    KeepsElements
    DepthLogarithmic
    TablesAsPromised
    CapturesFollowCalls
    AnswersAsDefined
PROPERTIES
    CallsEnd
CHECK_DEADLOCK FALSE
