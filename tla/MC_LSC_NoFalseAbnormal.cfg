SPECIFICATION Spec
CONSTANTS
    GSPrints = FALSE
INVARIANTS
    NoFalseAbnormal
CHECK_DEADLOCK FALSE
