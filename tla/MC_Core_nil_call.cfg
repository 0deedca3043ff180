CONSTANTS
    Confs <- MCConfs
    MaxReloads = 2
    NoConf = NoConf
SPECIFICATION Spec
INVARIANT
    NoNilResourceCall
CHECK_DEADLOCK FALSE
