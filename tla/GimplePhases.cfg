SPECIFICATION FairSpec
CONSTANTS
    ua = ua
    ub = ub
    us = us
    Image = {ua, ub, us}
    Asm = {us}
    CallDepthMax = 3
    SsaNameDepth = 6
    Programs <- AllPrograms
INVARIANTS
    TypeOK
    TypesWhole
    NeverInItself
    FieldsFound
    PathsRight
    CallsComplete
    CallersMatch
    OnlyTheseBugs
    DepthIsDistance
PROPERTIES
    Terminates
CHECK_DEADLOCK FALSE
