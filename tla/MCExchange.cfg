\* Two calls with one id over two sessions, one slot; one of them is refused.
CONSTANTS
    c1 = c1
    c2 = c2
    o1 = o1
    a = a
    Commands = {c1, c2}
    Others = {}
    Ids = {a}
    NoId = NoId
    IdOf <- MCRepeatIdOf
    Refused = {c1}
    Unregistered = {}
    NoFrame = NoFrame
    NoLine = NoLine
    MaxConcurrent = 1
    MaxAttempt = 1
    MaxConns = 2
    MaxNow = 1
    DedupeWindow = 0
    DedupeMaxKeys = 1
SPECIFICATION XSpec
INVARIANTS
    AnswersAudited
    DuplicateExplained
    SessionsAgree
    BoundedTools
PROPERTY ImplementsDedupe
