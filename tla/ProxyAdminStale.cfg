CONSTANTS
    Routes <- MCRoutes
    InitRoutes <- MCInitRoutes
    Services <- MCServices
    MaxLists = 3
    MaxWrites = 2
SPECIFICATION Spec
CHECK_DEADLOCK FALSE
PROPERTY NoStaleProxyList
