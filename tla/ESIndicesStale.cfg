CONSTANTS
    Keys <- MCKeys
    Protected <- MCProtected
    Filters <- MCFilters
    Matches <- MCMatches
    MaxSel = 2
    MaxLoads = 3
    MaxDeletes = 2
SPECIFICATION Spec
PROPERTY NoStaleList
CHECK_DEADLOCK FALSE
