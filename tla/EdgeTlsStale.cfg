SPECIFICATION Spec
CONSTANTS
    Callers = {t1}
    Worker = w
    Conns = {"c"}
    Domains = {"d"}
    MaxCerts = 3
    MaxUnusable = 1
INVARIANTS
    ResolverCurrent
