CONSTANTS
    Name <- B
    Listing <- ListingB
    MaxDepth = 1
    Block = {1}
    MaxSize = 1
    ReadOnly = FALSE
    CanonicalRoot = TRUE
    RootAdmitted = FALSE
    HostEdits = FALSE
    InitFs <- FsFlat
    MaxIno = 2
    MaxFh = 1
    MaxFlight = 1
    None = None
SPECIFICATION Spec
PROPERTY OwnPathsAdmitted
