CONSTANTS
    Confs <- MCConfs
    MaxReloads = 2
    NoConf = NoConf
SPECIFICATION Spec
INVARIANTS
    TypeOK
    LoggerOutlivesUsers
    PathManagerConfCurrent
    ApiConfCurrent
    MetricsKnowsPathManager
    AllClosedOnExit
CHECK_DEADLOCK FALSE
