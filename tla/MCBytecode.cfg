SPECIFICATION Spec
CONSTANTS
    DigitBits = 3
    WordBytes = 2
    Width = 7
    Width64 = 10
    MaxSpan = 4
    Sources <- SomeSources
    Frail <- SomeFrail
    Changes <- AnyChange
INVARIANTS
    RoundTrips
    Settles
    LinesSurvive
CHECK_DEADLOCK FALSE
