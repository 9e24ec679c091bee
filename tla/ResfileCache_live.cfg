\* Two threads that contend for one image's worth of room, with the status
\* store of a worker that is done.
SPECIFICATION FairSpec
CONSTANTS
    t1 = t1
    t2 = t2
    t3 = t3
    kernel = kernel
    module1 = module1
    NoThread = NoThread
    Thread = {t1, t2}
    NSibuf = 2
    Size <- MCSize2
    MaxLoaded = 1
    Resfile = {kernel, module1}
    RfOf <- MCRfOf2
    InWorkdir = {kernel}
    MaxDepth = 1
    MaxCalls = 3
    MayENOMEM = FALSE
    MayTouch = FALSE
    SplitStore = TRUE
PROPERTIES
    HoldsReturn
    UnmapsOnlyUnused
