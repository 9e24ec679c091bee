SPECIFICATION FairSpec
CONSTANTS
    ua = ua
    ub = ub
    us = us
    Image = {ua, ub, us}
    Asm = {us}
    CallDepthMax = 3
    SsaNameDepth = 6
    Programs <- CodePrograms
CHECK_DEADLOCK FALSE
INVARIANTS
    CondHeadInPath
