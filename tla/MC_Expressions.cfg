SPECIFICATION Spec
CONSTANTS
    Programs <- MCPrograms
    Fast <- MCFast
INVARIANTS
    EveryLineParses
    SameBehaviour
    StackIsTheInterpreters
CHECK_DEADLOCK FALSE
