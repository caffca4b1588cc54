\* All of queue.h, fair threads.
CONSTANTS
    Cells = {c1}
    Values = {v1}
    Threads = {t1, t2}
    Operations <- AllOperations
    MaxPuts = 2
SPECIFICATION FairSpec
PROPERTIES CallsReturn
