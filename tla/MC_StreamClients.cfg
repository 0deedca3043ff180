CONSTANTS
    Clients = {"recorder", "conn", "rtmpReader", "processors"}
    Codecs <- MCCodecs
    Hdrs = {1, 2}
    MaxRestarts = 2
    NoHdr = NoHdr
    VP9Sizes <- SquareSizes
    Protos = {"RTMP", "SRT"}
SPECIFICATION Spec
INVARIANTS
    TypeOK
    SamplesSinceInitMatch
    ClosedOnReturn
    ConnReleasedOnClose
    ReaderWritesFromFirstIDR
    H264RemuxMatchesReference
    H264ReencodeOnceStarted
    H264KeyFrameCarriesParams
    H265RemuxMatchesReference
    H265ReencodeOnceStarted
    MPEG4ConfigBeforeGOV
    PassthroughFrameMatchesRouted
PROPERTIES
    CloseReturns
    ConnWindsDown
    H265ParamsMonotone
CHECK_DEADLOCK FALSE
