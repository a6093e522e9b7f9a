SPECIFICATION MCSpec
CONSTANTS
    Session = {s1}
    Handler = {h1, h2, h3}
    FileSize = 2
    MaxSize = 3
    MaxChunk = 2
    None = None
    OciSize = 3
    OciTries = 2
    OciSession = {1, 2}
    OciSlot = {1, 2}
    NoOci = NoOci
    PubJob = {1, 2, 3}
    PubSlot = {1, 2, 3}
    PubBody = {"big", "small"}
    LargeBody = {"big"}
    DraftJob = {3}
    Manifest <- Manifests
    PubSize = 3
    PubChunk = 2
    PubTries = 3
    NoPub = NoPub
INVARIANTS SpoolIsPrefix SessionIsPrefix VerifiedIsFile NoSpoolLeak SuccessIsShipped FinalizesWhole
CHECK_DEADLOCK FALSE
