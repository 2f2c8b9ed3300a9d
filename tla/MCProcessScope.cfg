\* One day and one start; what the loaded scopes admit.
CONSTANTS
    Lines = {m1, m2, s1}
    MainLines = {m1, m2}
    MaxDay = 1
    NoFile = NoFile
    Longer <- MCLonger
    NoConfig = NoConfig
    Docs <- MCDocs
    NoDoc = NoDoc
    Paths <- MCPaths
SPECIFICATION PSpec
INVARIANT ScopeRespectsBoundary
