\* A client that asks for a new connection after the bus has gone away.
CONSTANTS
    PutMayFail = FALSE
    BusMayDrop = TRUE
    MaxOut = 1
    MaxIn = 1
    Commands <- CommandingClient
SPECIFICATION FairSpec
PROPERTIES WaitReadsCommands
