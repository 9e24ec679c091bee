SPECIFICATION Spec
CONSTANTS
    Image <- MCImage
    RfOf <- MCRfOf
    Builtin = 2
    Asm = {5, 7}
    Srcfile <- MCSrcfile
    Programs <- AllPrograms
    MayForce = {4, 6}
    MaxForced = 1
INVARIANTS
    TypeOK
    Resolves
    OnlyTheseStops
    NothingLost
    LiveIsAnalysed
    IdsMatch
    StrongestWins
CHECK_DEADLOCK FALSE
