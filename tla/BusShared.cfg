\* Two instances, at the same time or one after the other, or just one.
CONSTANTS
    Threads = {t1, t2}
    MaxSignals = 2
    MaxFilters = 3
    MaxBacklog = 2
CHECK_DEADLOCK FALSE
SPECIFICATION FairSpec
INVARIANTS RefsExact InOrderOnce FirstMissesNothing CleanFindsEmpty StaleTakesTwo
PROPERTIES SignalsArrive
