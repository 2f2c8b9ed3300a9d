\* One command; an output of up to 7 bytes under a ceiling of 6.
CONSTANTS
    NotAnObject = NotAnObject
    Verbs <- MCVerbs
    Inputs <- MCInputs
    AskedDeadlines <- MCAskedDeadlines
    AskedBytes <- MCAskedBytes
    AskedFiles = {1, 2}
    HalfRange = 32
    Millisecond = 4
    DefaultDeadline = 6
    MaxDeadline = 24
    DefaultMaxBytes <- MCDefaultMaxBytes
    DefaultMaxFiles = 3
    Ceiling = 6
    MaxOutput = 7
    Changelists <- MCChangelists
SPECIFICATION Spec
INVARIANTS
    UnknownRevealsNothing
    AdmittedIsValid
    LimitsKept
    BudgetKept
    TruncationReported
    WholeOutputOnly
PROPERTY ImplementsHandling
