SPECIFICATION Spec
CONSTANTS
    Image <- MCImage
    RfOf <- MCRfOf
    Builtin = 2
    Asm = {5, 7}
    Srcfile <- MCSrcfile
    Programs <- WeakPrograms
    MayForce = {4, 6}
    MaxForced = 0
INVARIANTS
    Resolves
CHECK_DEADLOCK FALSE
