SPECIFICATION Spec
CONSTANTS
    Key = {k1}
    Process = {p1, p2}
    Release = {r1}
    RunFile = {f1}
    CacheEntry = {c1}
    Site = {s1}
    GoVersion = {v1}
    Ops = {"upload", "hashref", "runfile", "cache", "site", "unsite", "ocipush", "ocilink", "mirror", "gozip", "package", "digest", "retention", "runJanitor", "cacheJanitor", "mirrorJanitor", "gc"}
    MaxActive = 2
    EvictBatchSize = 1
    NoKey = NoKey
SYMMETRY Symmetry
INVARIANTS LostOnlyByOverlap
