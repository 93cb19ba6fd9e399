CONSTANTS
    None = None
    Pods = {p1}
    Containers = {c1}
    Callers = {k1, k2}
    Modes = {"node", "cni", "bridged"}
    MaxPid = 1
    MaxCrashes = 1
    Overlap = TRUE
    SelfExit = TRUE
    NetFaults = TRUE
    SlowAdd = TRUE
    Faulty <- AllFaults
SPECIFICATION Spec
SYMMETRY Symmetry
INVARIANT TypeOK
PROPERTIES NotReadyFinal ResultKept
