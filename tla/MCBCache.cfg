CONSTANTS
    Procs = {p1, p2, p3}
    NBUF = 3
    Blocks = {n1, n2, n3, n4}
    None = None
    MaxWrites = 2
SPECIFICATION Spec
SYMMETRY Symmetry
INVARIANTS CacheExact ReadsLatest
CHECK_DEADLOCK FALSE
