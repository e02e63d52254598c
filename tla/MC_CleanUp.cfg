CONSTANT Sources <- MCSources
SPECIFICATION Spec
INVARIANTS SameProgram StaysPython Idempotent
PROPERTY PreservesAst
CHECK_DEADLOCK FALSE
