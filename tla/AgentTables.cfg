CONSTANTS
    Name <- AB
    Listing <- ListingAB
    MaxDepth = 2
    Block = {1}
    MaxSize = 0
    ReadOnly = FALSE
    CanonicalRoot = TRUE
    RootAdmitted = FALSE
    HostEdits = FALSE
    InitFs <- FsDeep
    MaxIno = 3
    MaxFh = 1
    MaxFlight = 1
    None = None
SPECIFICATION Spec
INVARIANTS TypeOK TablesInverse KernelView
PROPERTY NumbersStableAlways
