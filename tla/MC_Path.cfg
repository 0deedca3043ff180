CONSTANTS
    Readers = {r1, r2}
    Publishers = {p1, p2}
    MaxStreams = 3
    Confs <- AllConfs
SPECIFICATION Spec
INVARIANTS
    TypeOK
    ReaderOnLiveStream
    StreamHasLiveSource
    CloseTimerSparesReaders
    NoHeldWhileReady
PROPERTIES
    StreamNotReplaced
    SourceNotReadyAnswered
    OnDemandIdleStops
    OnDemandRefinement
