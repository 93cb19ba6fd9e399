CONSTANTS
    Callers = {k1, k2}
    MaxRuns = 2
    MaxFaults = 0
SPECIFICATION Spec
SYMMETRY Symmetry
PROPERTY MarkStaysOff
