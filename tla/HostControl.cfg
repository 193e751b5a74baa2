SPECIFICATION AnySpec
CONSTANTS
    h1 = h1
    t1 = t1
    t2 = t2
    a1 = a1
    a2 = a2
    NoHost = NoHost
    NoReq = NoReq
    Hosts <- MCHosts
    Tasks <- MCTasks
    Handlers <- OneHandler
    MaxFaults = 1
    MaxOps = 1
    Remote = FALSE
SYMMETRY TaskSymmetry
VIEW View
INVARIANTS ControlTypeOK
PROPERTY WorkerSteps
