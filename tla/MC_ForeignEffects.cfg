CONSTANTS
    BYTE = 16
    CHUNK = 4
    Codes <- OldCodes
    Hosts <- LaterHosts
SPECIFICATION Spec
INVARIANT EffectsOnAnyHost
CHECK_DEADLOCK FALSE
