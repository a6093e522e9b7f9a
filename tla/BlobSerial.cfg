SPECIFICATION Spec
CONSTANTS
    Key = {k1, k2}
    Process = {p1}
    Release = {r1, r2}
    RunFile = {f1}
    CacheEntry = {}
    Site = {s1}
    GoVersion = {}
    Ops = {"upload", "hashref", "runfile", "site", "unsite", "ocipush", "ocilink", "mirror", "package", "digest", "retention", "runJanitor", "mirrorJanitor", "gc"}
    MaxActive = 1
    EvictBatchSize = 1
    NoKey = NoKey
SYMMETRY Symmetry
INVARIANTS RowsHaveBlobs GarbageIsExplained InventoryIsExact
PROPERTY BatchesFreeThePlan
