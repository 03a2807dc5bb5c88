SPECIFICATION Spec
CONSTANTS
    Letters = {"n"}
    Uppers = {}
    Puncts = {}
    Quotes = {}
    PageSize = 2
    MaxPinyinBuffer = 1
    MaxDeferred = 1
    MaxPrompt = 1
    MaxChunks = 1
    Answers = {1}
    AnswerDone = {TRUE}
    DuplicateAnswers = TRUE
    LateEvents = TRUE
    None = None
    Symbols = {" ", "/"}
    MaxPending = 1
    MaxCaptures = 1
VIEW Seen
INVARIANTS
    ModeIsVisible
    MarkedIsOwed
    WaitsAreServed
