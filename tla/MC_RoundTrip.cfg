CONSTANTS
    MaxStatements = 5
    MaxDepth = 3
    MaxAtoms = 4
    Base = 1
    Programs <- MCCompiledAndConditions
    ReadBack <- Comparable
SPECIFICATION RoundSpec
INVARIANTS BlocksNest SameBehaviour
PROPERTY WritesStatements
CHECK_DEADLOCK FALSE
