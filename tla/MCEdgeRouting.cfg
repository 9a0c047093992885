SPECIFICATION FairSpec
CHECK_DEADLOCK FALSE
CONSTANTS
    c1 = c1
    c2 = c2
    a1 = a1
    Clients = {c1, c2}
    Admins = {a1}
    Routes <- MCRoutes
    Configs <- MCConfigs
    Hosts <- MCHosts
    Requests <- MCRequests
    Wildcards = {"*"}
    Covers <- MCCovers
    RoundRobin = 2
    MaxOps = 3
INVARIANTS
    RoutesRight
PROPERTIES
    ChangesApplied
