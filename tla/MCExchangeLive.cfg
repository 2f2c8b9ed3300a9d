\* A call beside a frame that is ignored and a command that is denied, one slot,
\* one session.
CONSTANTS
    c1 = c1
    c2 = c2
    o1 = o1
    a = a
    Commands = {c1, c2}
    Others = {o1}
    Ids = {a}
    NoId = NoId
    IdOf <- MCNoIdIdOf
    Refused = {}
    Unregistered = {c2}
    NoFrame = NoFrame
    NoLine = NoLine
    MaxConcurrent = 1
    MaxAttempt = 1
    MaxConns = 1
    MaxNow = 0
    DedupeWindow = 0
    DedupeMaxKeys = 0
SPECIFICATION XFairSpec
PROPERTIES
    ShutdownCompletes
    SessionReplaced
    CallsSettle
