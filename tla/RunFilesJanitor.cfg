SPECIFICATION MCSpec
CONSTANTS
    Run = {r1}
    Name = {n1}
    Process = {p, q}
    NoRun = NoRun
    NoTime = NoTime
    Keep = 2
    CheckInterval = 1
    MaxRunLifetime = 3
    MaxTime = 3
    CacheJob = {p, q}
    CacheRef = {main, dev}
    DefaultRef = main
    CacheKey = {1}
    CacheBody = {x, y}
    NoEntry = NoEntry
    CacheKeep = 2
    PressureGrace = 1
    MaxCacheTime = 2
    Repo = {1, 2}
    Owner = {x, y}
    Root = {a, b}
    Child = {b}
    Branch = {main}
    Caller = {p, q}
    None = None
    MaxProjects = 2
    MaxReleases = 2
    MaxMoves = 1
    MaxCalls = 3
SYMMETRY Symmetry
INVARIANTS StrayFilesRaced RestoresWhatWasFound 
PROPERTIES FilesGoWhenDone  PinsStick
CHECK_DEADLOCK FALSE
