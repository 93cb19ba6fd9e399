CONSTANTS
    None = None
    Pods = {p1}
    Containers = {c1}
    Callers = {k1}
    Modes = {"cni"}
    MaxPid = 1
    MaxCrashes = 0
    Overlap = FALSE
    SelfExit = FALSE
    NetFaults = FALSE
    SlowAdd = FALSE
    Faulty = {}
SPECIFICATION Spec
SYMMETRY Symmetry
PROPERTY StopReclaimsNetwork
