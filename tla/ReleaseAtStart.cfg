\* A client that releases before the thread has looked at its first event.
CONSTANTS
    PutMayFail = FALSE
    BusMayDrop = FALSE
    MaxOut = 1
    MaxIn = 1
    Commands <- PollingClient
SPECIFICATION FairSpec
PROPERTIES ReleaseCleans
