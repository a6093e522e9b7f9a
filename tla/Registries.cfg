SPECIFICATION MCSpec
CONSTANTS
    GoReq = {a, b, c}
    GoVersion = {1}
    GoPre = {}
    GoCommit = {x, y}
    GoHead = GoHead
    GoStatus = {404}
    GoNone = GoNone
    MaxGoMoves = 1
    BlobBody = {x, y}
    BlobPut = {a, b, c}
    BlobSize = 1
    TempMaxAge = 1
    NoBlob = NoBlob
    MaxBlobTime = 2
    LockJob = {a, b, c}
    LockValue = {u, w}
    NoLock = NoLock
    LockLifetime = 1
    MaxLockTime = 4
SYMMETRY Symmetry
INVARIANTS FlightsLand RowsAreOfOneCommit StoredBlobsRead
PROPERTIES ZipsStayCached LockIsWriteOnce
CHECK_DEADLOCK FALSE
