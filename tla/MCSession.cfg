\* A command and a later one with its id that the vocabulary denies, side by side or
\* over two sessions, a frame that is ignored, and a window that passes between them.
CONSTANTS
    c1 = c1
    c2 = c2
    a = a
    o1 = o1
    Commands = {c1, c2}
    Others = {o1}
    Ids = {a}
    NoId = NoId
    IdOf <- MCRepeatIdOf
    Refused = {c2}
    NoFrame = NoFrame
    NoLine = NoLine
    MaxConcurrent = 2
    MaxAttempt = 2
    MaxConns = 2
    MaxNow = 1
    DedupeWindow = 0
    DedupeMaxKeys = 1
SPECIFICATION Spec
INVARIANTS
    CountersExact
    QuiescentBetweenSessions
    NoConnectionLeak
    NoHalfDeadSession
    AuditNamesSession
    AuditTrail
    IInv
PROPERTIES
    ImplementsReconnect
    ImplementsHandling
