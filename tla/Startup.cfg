CONSTANTS
    Profiles = {p1}
    Containers = {c1, c2}
    Others <- MCOthers
SYMMETRY Symmetry
SPECIFICATION Spec
INVARIANTS TypeOK MigratedOnce ServedIsVisible
