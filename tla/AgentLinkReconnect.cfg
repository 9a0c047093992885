SPECIFICATION FairSpec
CONSTANTS
    Apps = {a1, a2}
    MaxCommands = 1
    MaxLosses = 1
PROPERTIES
    ReconnectAttempted
CHECK_DEADLOCK FALSE
