SPECIFICATION FairSpec
CONSTANTS
    Callers = {t1}
    Worker = w
    Conns = {"c"}
    Domains = {"d"}
    MaxCerts = 3
    MaxUnusable = 0

    
PROPERTIES
    CallersReturn
    RenewalAttempted
