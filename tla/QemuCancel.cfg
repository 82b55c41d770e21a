CONSTANTS
    NMounts = 2
    MayCancel = TRUE
    MayExit = TRUE
    MayHang = TRUE
SPECIFICATION Spec
INVARIANT QemuOwned
PROPERTY LifecycleSpec
