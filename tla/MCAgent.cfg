SPECIFICATION NodeSpec
CONSTANTS
    a1 = a1
    a2 = a2
    a3 = a3
    LinkApps = {a1, a2}
    SnapshotCalls = {c1, c2}
    SnapshotIds = {s1, s2}
    KeepCounts = {1}
    Apps <- ThreeApps
    SubnetSize = 5
    MaxMicrovms = 1
    FaultKinds <- AllFaults
    MaxFaults = 2
    MaxCommands = 4

    
    
PROPERTIES
    StopsOnlyUnwanted
    ConvergesUnlessStranded
    
CHECK_DEADLOCK FALSE
