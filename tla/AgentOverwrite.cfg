CONSTANTS
    Name <- B
    Listing <- ListingB
    MaxDepth = 1
    Block = {1}
    MaxSize = 2
    ReadOnly = FALSE
    CanonicalRoot = TRUE
    RootAdmitted = TRUE
    HostEdits = FALSE
    InitFs <- FsLong
    MaxIno = 2
    MaxFh = 1
    MaxFlight = 1
    None = None
SPECIFICATION Spec
PROPERTY WriteKeepsRestAlways
