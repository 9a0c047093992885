SPECIFICATION CPSpec
CONSTANTS
    Clients = {c1, c2}
    Keys = {k1}
    Rules <- MCRules
    Default <- MCDefault
    Costs = {1}
    Second = 3
    StaleAfter = 3
    MaxTime = 3
    Ids = {i1, i2, i3}
    NoId = NoId
    Names = {n1}
    Probe = p
    MaxPrefix = 1
    MaxVersions = 4
    Usernames = {n1}
    UserIds = {u1, u2}
    Jtis = {t1, t2, t3, t4}
    expiry_secs = 1
    refresh_expiry_secs = 2
    MaxClock = 3
    InstanceIds = {d1}
    Requests <- MCRequests
    BackupIds = {b1, b2}
    BackedUp = {r1}
    Retentions = {0, 1}
    U32 = 16
    MaxDay = 3
    HealthTargets = {h1, h2}
    success_threshold = 2
    failure_threshold = 3
    MaxChecks = 4
    CertClients = {c1, c2, c3}
    CertIds = {x1}
    Regions = {g1, g2}
    Shared = {x1}
    Timeout = 1
    MaxPublished = 1
    MaxFailures = 3
    Apps = {a1}
    MaxEvents = 2
    Builds = {y1, y2, y3}
    Priority <- MCPriority
    ChannelSize = 1
    MaxConcurrent = 2
SYMMETRY Symmetry
INVARIANTS
    GoneStaysGone
    
    RevokedRefused
    OneActiveKey
    TrackedAtRest
    
    StatusIsHysteresis
    RevokedStays
    DeadOnlyIfSilent
    BuildsRegistered
    QueueConsistent
    GrantsBounded
    RetryAfterHonoured
CHECK_DEADLOCK FALSE
