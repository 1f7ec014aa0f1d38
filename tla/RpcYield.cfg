CONSTANTS
    Sources = {"menu", "yield"}
    AutoStart = FALSE
SPECIFICATION FairSpec
PROPERTIES StopEndsThread YieldEndsThread
CHECK_DEADLOCK FALSE
