\* Every allocation may fail; a host that owns the reference of createobject, and a page
\* whose references outlive NPP_Destroy.
CONSTANTS
    Faults = {"cc", "bp", "cond", "mutex", "queue"}
    MaxRefs = 2
    PageOutlives = TRUE
    HostOwns = TRUE
CHECK_DEADLOCK FALSE
SPECIFICATION Spec
INVARIANTS DestroyReleases NullMeansAThread WildHasCause
PROPERTIES LifeSpec
