SPECIFICATION Spec
CONSTANTS
    h1 = h1
    t1 = t1
    t2 = t2
    NoHost = NoHost
    Hosts <- MCHosts
    Tasks <- MCTasks
    MaxFaults = 1
    Remote = TRUE
SYMMETRY Symmetry
VIEW View
INVARIANTS TypeOK HaltedIsDown RunningIsUp Agreement
