CONSTANTS
    Clients = {"recorder"}
    Codecs = {"VP9"}
    Hdrs = {1, 2}
    MaxRestarts = 2
    NoHdr = NoHdr
    VP9Sizes <- AllSizes
    Protos = {"RTMP"}
SPECIFICATION Spec
INVARIANTS
    SamplesSinceInitMatch
CHECK_DEADLOCK FALSE
