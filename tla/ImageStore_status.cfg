CONSTANTS
    Callers = {k1, k2}
    Names = {n1}
    Hashes = {h1}
    Unknown = {u1}
    Malformed = {m1}
    NoHash = NoHash
    MaxMoves = 0
    MaxFaults = 0
SPECIFICATION Spec
INVARIANTS StatusAbsentIsEmpty
