SPECIFICATION FairSpec
CONSTANTS
    Letters = {"e"}
    Uppers = {"A", "R"}
    Puncts = {","}
    Quotes = {"q"}
    PageSize = 2
    MaxPinyinBuffer = 2
    MaxDeferred = 2
    MaxPrompt = 1
    MaxChunks = 1
    Answers = {0, 1, 3}
    AnswerDone = {TRUE}
    DuplicateAnswers = FALSE
    LateEvents = TRUE
    None = None
INVARIANTS
    QueueAwaitsAnswer
    PanelMatchesMachine
    OverlaysAgree
    RewritePairing
PROPERTIES
    SpaceCommitsHighlighted
    BlindKeysWait
    SettlingKeepsKeys
    QuotesAlternate
    ImplementsAiSession
    QueuedKeysSettle
