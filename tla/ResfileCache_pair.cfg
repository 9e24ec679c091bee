\* Two threads, nested holds, images of different sizes, room for some of them.
SPECIFICATION Spec
CONSTANTS
    t1 = t1
    t2 = t2
    t3 = t3
    kernel = kernel
    module1 = module1
    NoThread = NoThread
    Thread = {t1, t2}
    NSibuf = 3
    Size <- MCSize3
    MaxLoaded = 3
    Resfile = {kernel, module1}
    RfOf <- MCRfOf3
    InWorkdir = {kernel}
    MaxDepth = 2
    MaxCalls = 3
    MayENOMEM = TRUE
    MayTouch = TRUE
    SplitStore = FALSE
SYMMETRY Symmetry
INVARIANTS
    TypeOK
    HeldIsMapped
    UsersAreHolders
    WithinLimit
PROPERTIES
    ImplementsLease
