SPECIFICATION FairDownSpec
CONSTANTS
    h1 = h1
    t1 = t1
    t2 = t2
    a1 = a1
    a2 = a2
    NoHost = NoHost
    NoReq = NoReq
    Hosts <- MCHosts
    Tasks <- OneTask
    Handlers <- OneHandler
    MaxFaults = 2
    MaxOps = 1
    Remote = FALSE
PROPERTY FailedRecovers
