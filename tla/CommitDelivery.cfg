SPECIFICATION FairSpec
CONSTANTS
    Daemons = {d1, d2}
    Callers = {ime, helper, panel}
    Panels = {panel}
    Helpers = {helper}
    Old = {d1}
    MaxItems = 3
    MaxPending = 2
    None = None
CHECK_DEADLOCK FALSE
INVARIANTS
    AppliedInOrder
    Accounted
PROPERTIES
    BacklogDrains
