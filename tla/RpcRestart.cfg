CONSTANTS
    Sources = {"menu", "yield"}
    AutoStart = FALSE
SPECIFICATION Spec
PROPERTY RestartAfterCleanup
CHECK_DEADLOCK FALSE
