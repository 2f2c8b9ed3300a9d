\* Two days and two starts; the lines of main and of the goroutines.
CONSTANTS
    Lines = {m1, m2, m3, m4, s1, s2}
    MainLines = {m1, m2, m3, m4}
    MaxDay = 2
    NoFile = NoFile
    Longer <- MCLonger
    NoConfig = NoConfig
    Docs <- MCDocs
    NoDoc = NoDoc
    Paths <- MCPaths
SPECIFICATION PSpec
SYMMETRY MCSymmetry
INVARIANTS
    FiledByDay
    LostOnlyByFailure
    ScopeBySegment
PROPERTY
    CleanExitLosesNothing
