\* The bus stays; connecting to it may fail.
CONSTANTS
    PutMayFail = FALSE
    BusMayDrop = FALSE
    MaxOut = 2
    MaxIn = 2
    Commands <- CommandingClient
SPECIFICATION FairSpec
PROPERTIES ExitRead ReleaseCompletes WaitReadsCommands
