\* Every fault: a queue node may fail to be allocated, so that any message may be lost.
CONSTANTS
    PutMayFail = TRUE
    BusMayDrop = TRUE
    MaxOut = 2
    MaxIn = 2
    Commands <- CommandingClient
SPECIFICATION Spec
INVARIANTS OwnershipInv NoUseAfterFree WholeOrNothing
PROPERTIES OwnershipSpec DrainOnly
