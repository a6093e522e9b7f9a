SPECIFICATION MCFairSpec
CONSTANTS
    OciSize = 3
    OciTries = 2
    OciSession = {1, 2}
    OciSlot = {1}
    NoOci = NoOci
    PubJob = {1, 2}
    PubSlot = {1, 2, 3}
    PubBody = {"big", "small"}
    LargeBody = {"big"}
    DraftJob = {}
    Manifest <- Manifests
    PubSize = 3
    PubChunk = 2
    PubTries = 3
    NoPub = NoPub
    SiteUpload = {u1, u2}
    SiteBranch = {b1}
    MaxBlocks = 2
    NoSite = NoSite
    Tab = {t1, t2}
    NoTab = NoTab
    MaxRevokes = 1
    MaxRestarts = 1
    MaxVisits = 3
    Packument = {r1, r2}
    NpmArtifact = {1, 2, 3}
    NpmBlob = {1, 2}
    NpmKey <- Tarballs
    FillWorkers = 2
    BudgetFills = 1
    NoFields = NoFields
INVARIANT SitesAreLastPublished
PROPERTIES VisitsEnd UploadsEnd NpmConverges
CHECK_DEADLOCK FALSE
