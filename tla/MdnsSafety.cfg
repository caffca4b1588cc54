\* The bus may go away at any time; no message is lost.
CONSTANTS
    PutMayFail = FALSE
    BusMayDrop = TRUE
    MaxOut = 3
    MaxIn = 2
    Commands <- CommandingClient
SPECIFICATION Spec
INVARIANTS ShutdownInv QueuesDrained ClientMeetsNoMarker ExitedIsLast TrapNotTaken QuitOwnership
PROPERTIES ClientAloneTakes LifeSpec
