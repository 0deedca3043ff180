CONSTANTS
    n1 = n1
    n2 = n2
    re = re
    r1 = r1
    r2 = r2
    p1 = p1
    p2 = p2
    Names <- MCNames
    Readers = {r1}
    Publishers = {p1}
    ConfSets <- ReloadConfs
    MaxPaths = 3
SPECIFICATION SetupsSpec
INVARIANTS
    PMTypeOK
    PMRegistryConsistent
    PMRoutesToLivePath
    PMOneLivePathPerName
PROPERTIES
    PMClientRequestAnswered
    PMReloadCompletes
