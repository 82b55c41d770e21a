CONSTANTS
    NMounts = 3
    MaxCalls = 3
    MayCancel = TRUE
    MayPanic = TRUE
    MayHang = TRUE
SPECIFICATION FairSpec
INVARIANTS TypeOK StoppedMeansGone
PROPERTIES StopReleasesAlways MethodsReturn DropReleases LifecycleSpec
