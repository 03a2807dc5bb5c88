SPECIFICATION ButtonSpec
CONSTANTS
    Addresses = {a1, a2}
    Handles = {h1, h2}
    MaxContextSessions = 1
    MaxWindows = 3
    MaxGenerations = 3
    None = None
    FloatRetryTicks = 1
    Helpers = {1, 2}
    MaxActivations = 2
    ButtonWindows = 1
SYMMETRY Symmetry
CHECK_DEADLOCK FALSE
INVARIANTS
    KeyOfOneWindow
    ButtonOfThisActivation
PROPERTIES
    EndSparesLiveWindows
