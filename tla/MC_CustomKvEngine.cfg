CONSTANTS
    th1 = th1
    th2 = th2
    Threads <- MCThreads
    MaxHandles <- MCMaxHandles
    HasEndpoints = TRUE
SYMMETRY Symmetry
SPECIFICATION Spec
INVARIANTS
    ClientHandleNotLeaked
