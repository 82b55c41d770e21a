CONSTANTS
    c1 = c1
    c2 = c2
    a = a
    b = b
    empty = empty
    ok = ok
    exists = exists
    None = None
    Err = Err
    Caller <- Callers2
    FsRequest <- MCRequest
    Vfs <- MCVfs
    InitVfs = empty
    Value <- MCValue
    Answer <- MCAnswer
    Effect <- MCEffect
    Version = {"v1", "v2"}
    MyVersion = "v1"
    Unencodable <- MCUnencodable
    Oversize <- Nothing
    Cap = 2
    Reconnects = "settled"
SPECIFICATION FairSpec
INVARIANT Lockstep
PROPERTIES ReplyMatchesAlways FailureIsOwnAlways ServiceSpec CallsReturn
