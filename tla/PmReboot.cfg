CONSTANTS
    a1 = a1
    b1 = b1
    a2 = a2
    d1 = d1
    d2 = d2
    k1 = k1
    Apps = {a1}
    Applets = {}
    Deps = {d1}
    Kips = {k1}
    Needs <- MCNeedsOne
    Commands = {{"application", "title"}, {"application", "reboot"}}
    MaxLaunches = 1
    MaxDebt = 0
    LoadFails = FALSE
SPECIFICATION FairSpec
PROPERTIES TerminatorReturns EndedIsCleaned
CHECK_DEADLOCK FALSE
