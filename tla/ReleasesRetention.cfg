SPECIFICATION Spec
CONSTANTS
    Process = {p1, p2}
    Project = {repo}
    Branch = {main, dev}
    DefaultBranch = main
    NoBranch = NoBranch
    Tag = {t1}
    Ops = {"create", "draft", "docker", "upload", "publish", "gc", "branches", "download"}
    Named = {}
    UploadKinds = {"binary"}
    KeepN = 0
    EvictBatchSize = 1
    DockerTries = 2
    Faults = TRUE
    MaxReleases = 2
    MaxNum = 3
SYMMETRY Symmetry
INVARIANTS TypeOK
PROPERTIES  OwnersBuildsAreKept
