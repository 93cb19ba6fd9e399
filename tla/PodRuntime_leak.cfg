CONSTANTS
    None = None
    Pods = {p1}
    Containers = {c1}
    Callers = {k1, k2}
    Modes = {"cni"}
    MaxPid = 1
    MaxCrashes = 0
    Overlap = TRUE
    SelfExit = FALSE
    NetFaults = FALSE
    SlowAdd = FALSE
    Faulty = {}
SPECIFICATION Spec
SYMMETRY Symmetry
INVARIANT NoNetworkLeak
