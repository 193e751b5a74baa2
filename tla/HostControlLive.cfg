SPECIFICATION FairUpSpec
CONSTANTS
    h1 = h1
    t1 = t1
    t2 = t2
    a1 = a1
    a2 = a2
    NoHost = NoHost
    NoReq = NoReq
    Hosts <- MCHosts
    Tasks <- MCTasks
    Handlers <- NoHandlers
    MaxFaults = 1
    MaxOps = 0
    Remote = TRUE
PROPERTIES TaskSettles LostContainerNoticed FailedIsRetried
