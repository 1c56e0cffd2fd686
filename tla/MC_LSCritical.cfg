SPECIFICATION Spec
CONSTANTS
    GSPrints = TRUE
INVARIANTS
    LatchesSound
PROPERTIES
    CriticalDeathEscalated
CHECK_DEADLOCK FALSE
