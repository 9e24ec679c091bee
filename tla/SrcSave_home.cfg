SPECIFICATION Spec
CONSTANTS
    Id = {kernel, fresh, other}
    NoId = NoId
    Prepared = {kernel}
    Loadable = {kernel}
    Block = 2
    MaxBuf = 6
    SrcLen = 2
    Lens = {1, 3}
    MayFail = FALSE
    MayDie = FALSE
    MaxVersion = 2
INVARIANTS
    ExitSavesAlways
CHECK_DEADLOCK FALSE
