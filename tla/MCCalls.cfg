SPECIFICATION MCSpec
CONSTANTS
    MinCap = 4
    Functions <- SomeFunctions
    Wants <- SomeWants
    MaxDepth = 4
    MaxSteps = 8
    MaxCells = 1
INVARIANTS
    StackInRange
    CountersBalanced
    OpenUpvalsLive
PROPERTIES
    ImplementsActivations
CHECK_DEADLOCK FALSE
