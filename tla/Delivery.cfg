SPECIFICATION MCSpec
CONSTANTS
    VProject = {p1, p2}
    VSegment = {x}
    VCaller = {v1, v2}
    NoRow = NoRow
    MaxVisCalls = 2
    Asker = {c1, c2}
    TTL = 3
    NegTTL = 1
    Budget = 1
    Buffer = 1
    TokenLife = 3
    Nothing = Nothing
    MaxTime = 6
    SiteSegment = {1, 2, 3}
    CommitSegment = {3}
    SiteName <- Names
    SiteRef <- Refs
    MainRef <- Main
    LatestRef <- Tip
    PathLength = 3
    MaxSites = 2
    Layer = {l1}
    ImageDoc = {m}
    IndexDoc = {i}
    ImageTag = {t1, t2}
    ImagePush = {p, q}
    ImageRelease = {1, 2}
    NoImage = NoImage
    SmartClient = {c1}
    DumbClient = {d1}
    TapReleases = 2
    MaxRefreshes = 2
    MaxTapCrashes = 1
INVARIANTS  LookupsAreCurrent TaggedImagesPull 
  
CHECK_DEADLOCK FALSE
