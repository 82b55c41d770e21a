CONSTANTS
    NMounts = 2
    MayCancel = TRUE
    MayHang = FALSE
SPECIFICATION Spec
PROPERTIES WaitBlocks
