\* Commands in any order, failing parses, SIGQUIT.
SPECIFICATION FairSpec
CONSTANTS
    NImage = 3
    NSlot = 2
    LastStep = 2
    Request = {0, 2}
    MaxRequests = 2
    MaxQuit = 1
    MayFail = TRUE
INVARIANTS
    TypeOK
    SlotIsFree
    NoWorkerLeft
PROPERTIES
    ImplementsBarrier
    ParseEnds
CHECK_DEADLOCK FALSE
