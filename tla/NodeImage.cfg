SPECIFICATION Spec
CONSTANTS
    Collects <- MCCollects
    Adjusts <- MCAdjusts
    CollectOf <- MCCollectOf
    AdjustOf <- MCAdjustOf
    Pointees <- CollectPointees
    Fresh = {"BLOCK", "GIMPLE_NOP"}
    Roots <- EveryWalk
    Bounds <- MCBounds
INVARIANTS
    TypeOK
    Faithful
    NeverBug
    NoStale
    NoReentry
    InStep
    MadeAlike
