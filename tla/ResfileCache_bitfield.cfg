\* A worker stores its status while another thread collects: hold what is not mapped.
SPECIFICATION Spec
CONSTANTS
    t1 = t1
    t2 = t2
    t3 = t3
    kernel = kernel
    module1 = module1
    NoThread = NoThread
    Thread = {t1, t2}
    NSibuf = 2
    Size <- MCSize2
    MaxLoaded = 1
    Resfile = {kernel, module1}
    RfOf <- MCRfOf2
    InWorkdir = {kernel}
    MaxDepth = 1
    MaxCalls = 2
    MayENOMEM = FALSE
    MayTouch = TRUE
    SplitStore = TRUE
SYMMETRY Symmetry
INVARIANTS
    HeldIsMapped
