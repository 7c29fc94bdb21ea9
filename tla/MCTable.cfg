SPECIFICATION Spec
CONSTANTS
    Nil = Nil
    a = a
    b = b
    v = v
    w = w
    IntKeys <- ToThree
    NameKeys <- TwoNames
    Vals <- TwoValues
    Hash <- Collide
    MaxHint = 2
    Chunk = 1
    Mixed = FALSE
    MaxRehashes = 1
SYMMETRY EitherValue
INVARIANTS
    NodesWhole
    LengthIsBorder
PROPERTIES
    WriteIsRead
    ImplementsMap
