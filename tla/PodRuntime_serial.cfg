CONSTANTS
    None = None
    Pods = {p1}
    Containers = {c1, c2}
    Callers = {k1}
    Modes = {"cni"}
    MaxPid = 2
    MaxCrashes = 0
    Overlap = FALSE
    SelfExit = TRUE
    NetFaults = FALSE
    SlowAdd = FALSE
    Faulty <- MostFaults
SPECIFICATION FairSpec
INVARIANTS NoNetworkLeak StartedHasNetwork
PROPERTIES   ImplementsLifecycle
           LastingRunAttached NetworkArrives
