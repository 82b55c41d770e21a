CONSTANTS
    NMounts = 1
    MayCancel = FALSE
    MayExit = TRUE
    MayHang = FALSE
SPECIFICATION Spec
INVARIANT ForceStopStops
