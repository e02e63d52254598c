CONSTANTS
    BYTE = 16
    CHUNK = 4
    Codes <- MCCodes
    Hosts <- MCHosts
SPECIFICATION Spec
INVARIANTS ReadAsWritten LinesAreTheSources HandlersAreTheSources EffectsAreTheVersions
CHECK_DEADLOCK FALSE
