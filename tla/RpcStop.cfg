CONSTANTS
    Sources = {"menu", "shell", "term"}
    AutoStart = TRUE
SPECIFICATION FairSpec
INVARIANT TypeOK
PROPERTIES PreTermPublishes ServiceReturns
CHECK_DEADLOCK FALSE
