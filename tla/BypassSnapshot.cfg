SPECIFICATION Spec
CONSTANTS
    c1 = c1
    c2 = c2
    a1 = a1
    t1 = t1
    t2 = t2
    Blank = Blank
    Configs <- TwoConfigs
    Handlers <- OneHandler
    Slots <- TwoSlots
    MaxSnapshots = 3
    MaxFaults = 1
SYMMETRY Symmetric
INVARIANTS
    BypassTypeOK
    NotTorn
    LatestIsLive
VIEW View
