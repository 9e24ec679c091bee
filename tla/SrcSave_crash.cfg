\* Crashes, failing opens, reads and writes, loads of what is left.
SPECIFICATION Spec
CONSTANTS
    Id = {kernel, fresh, other}
    NoId = NoId
    Prepared = {kernel}
    Loadable = {kernel}
    Block = 2
    MaxBuf = 6
    SrcLen = 2
    Lens = {1, 3}
    MayFail = TRUE
    MayDie = TRUE
    MaxVersion = 2
INVARIANTS
    ArenaSound
    HomeExists
    ExitSaves
CHECK_DEADLOCK FALSE
