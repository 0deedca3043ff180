CONSTANTS
    Readers = {r1, r2}
    Publishers = {p1}
    MaxStreams = 2
    Confs <- OnDemandPublisherConfs
SPECIFICATION Spec
PROPERTIES
    HeldRequestAnswered
