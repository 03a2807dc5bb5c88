SPECIFICATION StoresSpec
CONSTANTS
    Fields = {provider, base_url}
    Values = {"d", "e"}
    Default = "d"
    Bad = "bad"
    Keyed = Keyed
    MaxRequests = 3
    MaxOfKind <- mc_max_of_kind
    MaxCrashes = 1
    HistoryMax = 1
    Absent = Absent
    Empty = Empty
    Torn = Torn
    Nothing = Nothing
SYMMETRY mc_symmetry
VIEW mc_seen
CHECK_DEADLOCK FALSE
INVARIANTS
    NoMixture
    
