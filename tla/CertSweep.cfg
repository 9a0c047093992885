SPECIFICATION CertSpec
CONSTANTS
    Clients = {c1}
    CertIds = {x1}
PROPERTIES
    SweepReturns
CHECK_DEADLOCK FALSE
