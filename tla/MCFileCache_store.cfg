\* Two processes on one directory.
CONSTANTS
    g1 = g1  g2 = g2  g3 = g3  p1 = p1  p2 = p2
    Procs = {p1, p2}
    Clients = {g1, g2, g3}
    ProcOf <- TwoProcs
    Keys = {k1, k2}
    Records = {r1, r2}
    Miss = miss
    MaxOps = 3
SPECIFICATION Spec
INVARIANT NoTempIsLeft
PROPERTIES
    StoreSpec
    WritesAreAtomic
\* The system stops when the operations allowed have been made.
CHECK_DEADLOCK FALSE
