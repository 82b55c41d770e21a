CONSTANTS
    NMounts = 3
    MayCancel = FALSE
    MayExit = FALSE
    MayHang = TRUE
SPECIFICATION FairSpec
INVARIANTS TypeOK RunningMeansUp TasksOwned StoppedMeansGone
PROPERTIES StopReleasesAlways DropReleases MethodsReturn DeadlinesHold
