CONSTANTS
    Callers = {k1, k2}
    Names = {n1, n2}
    Hashes = {h1, h2}
    Unknown = {u1}
    Malformed = {m1}
    NoHash = NoHash
    MaxMoves = 1
    MaxFaults = 1
SYMMETRY Symmetry
SPECIFICATION Spec
INVARIANTS TypeOK PulledNameResolves RemoveIdempotent
PROPERTIES RemovedIsGone
