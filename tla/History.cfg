SPECIFICATION Spec
CONSTANTS
    Windows = {w1,w2}
    Requests = {r1,r2}
    Turns = {1,2}
    CommitLengths = {1,2}
    MaxSessions = 1
    MaxGenerations = 1
    MaxMerge = 2
    MaxSingle = 1
    None = None
SYMMETRY Symmetry
INVARIANTS
    NoResurrection
    AnswersComplete
    ContextWellFormed
