CONSTANTS
    Confs <- MCConfs
    MaxReloads = 2
    NoConf = NoConf
SPECIFICATION Spec
INVARIANT
    NoStaleReference
CHECK_DEADLOCK FALSE
