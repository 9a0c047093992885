SPECIFICATION FairSpec
CONSTANTS
    Clients = {c1, c2}
    Restorers = {c1}
    Apps = {a1, a2}
    MaxMicrovms = 1
    FaultKinds = {"validate", "spawn", "configure", "boot", "boot_lost", "api", "die"}
    MaxFaults = 2
INVARIANTS
    NoVmLost

    
    
