SPECIFICATION Spec
CONSTANT Codes <- Compiled
INVARIANTS SameRun SameHandled
\* A run ends where the function returns or raises.
CHECK_DEADLOCK FALSE
