SPECIFICATION Spec
CONSTANTS
    GSPrints = FALSE
INVARIANTS
    ExitForEveryReaped
CHECK_DEADLOCK FALSE
