CONSTANTS
    NMounts = 3
    MayCancel = TRUE
    MayHang = TRUE
SPECIFICATION FairSpec
INVARIANTS TypeOK StoppedMeansExited
PROPERTIES StopReleasesAlways StopEnds LifecycleSpec
