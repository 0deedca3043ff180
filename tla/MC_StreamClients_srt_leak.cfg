CONSTANTS
    Clients = {"conn"}
    Codecs = {"Opus"}
    Hdrs = {1, 2}
    MaxRestarts = 2
    NoHdr = NoHdr
    VP9Sizes <- SquareSizes
    Protos = {"SRT"}
SPECIFICATION Spec
INVARIANTS
    ConnStreamReleasedOnClose
CHECK_DEADLOCK FALSE
