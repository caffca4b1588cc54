\* All of queue.h, two threads, three nodes at most in the list.
CONSTANTS
    Cells = {c1, c2, c3}
    Values = {v1, v2}
    Threads = {t1, t2}
    Operations <- AllOperations
    MaxPuts = 3
SYMMETRY CellSymmetry
SPECIFICATION Spec
INVARIANTS ListOK MutexExact
PROPERTIES DequeSpec
