\* PROTOCOL.md:368, one audit line per command whatever the outcome.
CONSTANTS
    c1 = c1
    c2 = c2
    o1 = o1
    a = a
    Commands = {c1, c2}
    Others = {}
    Ids = {a}
    NoId = NoId
    IdOf <- MCRepeatIdOf
    Refused = {}
    NoFrame = NoFrame
    NoLine = NoLine
    MaxConcurrent = 1
    MaxAttempt = 1
    MaxConns = 1
    MaxNow = 0
    DedupeWindow = 0
    DedupeMaxKeys = 0
SPECIFICATION Spec
INVARIANT EveryCommandAudited
