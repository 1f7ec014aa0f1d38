CONSTANTS
    a1 = a1
    b1 = b1
    a2 = a2
    d1 = d1
    d2 = d2
    k1 = k1
    Apps = {a1, a2}
    Applets = {b1}
    Deps = {d1, d2}
    Kips = {}
    Needs <- MCNeeds
    Commands = {{"application", "terminate"}, {"application", "applet", "chain"}, {"applet", "title", "module"}}
    MaxLaunches = 2
    MaxDebt = 2
    LoadFails = TRUE
SPECIFICATION Spec
INVARIANTS TypeOK OneApplication DependencyCount
PROPERTIES CommitWaitsUnlessEarly
CHECK_DEADLOCK FALSE
