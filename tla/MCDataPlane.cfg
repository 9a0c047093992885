SPECIFICATION DPSpec
SYMMETRY Symmetry
CHECK_DEADLOCK FALSE
CONSTANTS
    Apps = {a1, a2, a3, a4, a5, a6}
    SubnetSize = 8
    Clients = {c1, c2}
    NetApps = {a1, a2}
    Taps = {t1}
    Prefixes = {16, 29}
    Images = {i1}
    Containers = {k1}
    Keeps = {0, 1}
    VolumeIds = {v1}
    ttl = 2
    MaxSnaps = 1
    MaxChanges = 3
    MaxNow = 3
    Addresses = {n1}
    MaxRules = 2
    Rates = {1, 2}
    MaxHandles = 3
    batch_size = 2
    capacity = 1
    MaxEntries = 4
    Names = {n1}
    Spans = {s1, s2}
    max_queue_size = 1
    MaxVersion = 2
    MaxStray = 1
    max_idle = 1
    MaxAge = 1
    Conns = 2
    MaxFrames = 3
    Stored = {v1, i1}
    SnapNames = {s1}
    Properties = {n1}
    Contents = {t1}
    LenBytes = 1
    Byte = {0, 1, 2}
    MaxText = 6
    Domains = {a1, a2, a3}
    Lasting = {a3}
    MaxPuts = 3
    MaxLength = 253
INVARIANTS
    UniqueAddresses
    IndexBacked
    StoredIsRead
    
    BlockedIsDropped
    
PROPERTIES
    ImplementsPool
    ImagesSurvive
