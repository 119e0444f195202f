SPECIFICATION HookSpec
CONSTANTS
    object = object
    b1 = b1
    b2 = b2
    p1 = p1
    p2 = p2
    Object = object
    Builds = {b1, b2}
    Kinds = {"Pod", "DaemonSet", "BuildConfig", "Other"}
    Timeout = 3
    Pods = {p1, p2}
    HasAppLabel = TRUE
    Pattern = 20
    Writes = {40, 81}
    MaxLog = 121
    MaxRestarts = 1
CHECK_DEADLOCK FALSE
INVARIANTS
    TypeOK
    NilMeansComplete
    ReadyMeansLogged
PROPERTIES
    GivesUpLate
    Returns
    EventuallyReady
