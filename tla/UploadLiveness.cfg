SPECIFICATION FairSpec
CONSTANTS
    Session = {s1}
    Handler = {h1, h2, h3}
    FileSize = 1
    MaxSize = 1
    MaxChunk = 1
    None = None
PROPERTIES HandlersFinish
