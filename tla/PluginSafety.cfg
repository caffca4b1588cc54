\* A host that gives every reference back before NPP_Destroy; the channel may fail to
\* be allocated, the thread to be created.
CONSTANTS
    Faults = {"cc", "thread"}
    MaxRefs = 2
    PageOutlives = FALSE
    HostOwns = FALSE
CHECK_DEADLOCK FALSE
SPECIFICATION Spec
INVARIANTS OnlyTheObject WhatIsLeft
PROPERTIES ClientSpec
