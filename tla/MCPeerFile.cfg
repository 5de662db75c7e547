CONSTANTS
    d1 = d1  d2 = d2  k1 = k1  k2 = k2  k3 = k3
    Device = {d1, d2}
    Key = {k1, k2, k3}
    NoOne = NoOne
    Sizes = {1, 2, 4, 8}
    HandKeys = {k3}
    HandNetworks <- Networks
    MaxPeers = 1
    MaxCuts = 1
SPECIFICATION Spec
INVARIANTS ManagedMatchRows
PROPERTIES HandWrittenKept AllocatesAroundFile
SYMMETRY Interchangeable
CHECK_DEADLOCK FALSE
