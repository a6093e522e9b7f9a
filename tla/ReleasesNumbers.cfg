SPECIFICATION MCSpec
CONSTANTS
    Process = {p1}
    Project = {repo, bin}
    Branch = {main}
    DefaultBranch = main
    NoBranch = NoBranch
    Tag = {t1}
    Ops = {"create", "draft", "docker", "upload", "publish", "gc"}
    Named = {1}
    UploadKinds = {"binary"}
    KeepN = 2
    EvictBatchSize = 2
    DockerTries = 2
    Faults = FALSE
    MaxReleases = 3
    MaxNum = 3
    Pull = {q1, q2}
    Digest = {x, y}
    NoDigest = NoDigest
    TagTTL = 1
    LookupTime = 1
    MaxMirrorTime = 2
SYMMETRY Symmetry
INVARIANTS  HoldsMatchPlan TagsAreRecent 
