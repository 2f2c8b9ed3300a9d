CONSTANTS
    f1 = f1
    f2 = f2
    f3 = f3
    f4 = f4
    f5 = f5
    a = a
    b = b
    c = c
    Frames <- MCFrames
    Ids <- MCIds
    IdOf <- MCIdOf
    DedupeWindow = 1
    DedupeMaxKeys = 1
    MaxNow = 3
SPECIFICATION Spec
INVARIANTS
    RecordedUntilExpired
    TableJustified
    DenialJustified
PROPERTIES
    OncePerWindow
    TableBounded
SYMMETRY MCSymmetry
