CONSTANTS
    Name <- AB
    Listing <- ListingAB
    MaxDepth = 1
    Block = {1}
    MaxSize = 1
    ReadOnly = FALSE
    CanonicalRoot = TRUE
    RootAdmitted = TRUE
    HostEdits = TRUE
    InitFs <- FsFlat
    MaxIno = 3
    MaxFh = 1
    MaxFlight = 1
    None = None
SPECIFICATION Spec
INVARIANT ScanExact
PROPERTIES SetattrReportsAlways FailureLeavesNoTraceAlways
