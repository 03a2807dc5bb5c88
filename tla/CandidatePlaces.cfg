SPECIFICATION Spec
CONSTANTS
    Platforms = {"windows", "macos"}
    Monitors <- MCMonitors
    Main <- MCMain
    Carets <- MCCarets
    Corners <- MCCorners
    Lists <- MCLists
    LineCounts = {1, 32}
    Themes <- MCThemes
    Scales = {100, 150}
    CandidatePosRetryTicks = 2
INVARIANTS
    WindowPlaced
    WindowsHighlight
PROPERTIES
    CoarseIsCorrected
