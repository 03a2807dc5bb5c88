SPECIFICATION Spec
CONSTANTS
    Letters = {"n"}
    Uppers = {}
    Puncts = {}
    Quotes = {}
    PageSize = 2
    MaxPinyinBuffer = 2
    MaxDeferred = 1
    MaxPrompt = 1
    MaxChunks = 1
    Answers = {0, 1}
    AnswerDone = {TRUE}
    DuplicateAnswers = TRUE
    LateEvents = TRUE
    None = None
    MaxStreams = 1
    Slots = {s1, s2}
    MaxQueries = 2
    MaxCaptures = 1
    EditsFail = FALSE
    HostEndsInEdit = FALSE
SYMMETRY
    Symmetry
VIEW
    Seen
INVARIANTS
    WindowMatchesKeys
    CompositionMatchesMachine
    WaitsMatchWork
PROPERTIES
    TextUsedOnce
