\* The hundred cycles of main.cc; any call of the start may fail, that for a mutex apart.
CONSTANTS
    Faults = {"cc", "bp", "cond", "queue", "thread"}
    Cycles = 100
CHECK_DEADLOCK FALSE
SPECIFICATION FairSpec
PROPERTIES ClientSpec Ends
