\* One image fails in the first of all the steps.
SPECIFICATION Spec
CONSTANTS
    NImage = 2
    NSlot = 2
    LastStep = 3
    Request = {0}
    MaxRequests = 1
    MaxQuit = 0
    MayFail = TRUE
INVARIANTS
    StatusSound
CHECK_DEADLOCK FALSE
