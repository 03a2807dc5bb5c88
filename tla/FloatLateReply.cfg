SPECIFICATION ButtonSpec
CONSTANTS
    Addresses = {a1}
    Handles = {h1}
    MaxContextSessions = 1
    MaxWindows = 1
    MaxGenerations = 1
    None = None
    FloatRetryTicks = 1
    Helpers = {1}
    MaxActivations = 2
    ButtonWindows = 1
PROPERTIES
    RepliesStayInActivation
CHECK_DEADLOCK FALSE
