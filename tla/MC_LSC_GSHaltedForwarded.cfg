SPECIFICATION Spec
CONSTANTS
    GSPrints = FALSE
PROPERTIES
    GSHaltedForwarded
CHECK_DEADLOCK FALSE
