CONSTANTS
    MaxLength = 5
    Base = 1
    Programs <- MCPrograms
SPECIFICATION Spec
INVARIANTS IndentMatchesBlocks StatementsKept TextParses
PROPERTY Terminates
CHECK_DEADLOCK FALSE
