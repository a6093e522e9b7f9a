SPECIFICATION Spec
CONSTANTS
    Process = {p1}
    Project = {repo}
    Branch = {main}
    DefaultBranch = main
    NoBranch = NoBranch
    Tag = {t1}
    Ops = {"create", "upload", "publish", "sweep", "download"}
    Named = {}
    UploadKinds = {"binary"}
    KeepN = 1
    EvictBatchSize = 25
    DockerTries = 5
    Faults = FALSE
    MaxReleases = 2
    MaxNum = 3
SYMMETRY Symmetry
PROPERTY EvictionIsTotal
