CONSTANTS
    i1 = i1
    f1 = f1
    f2 = f2
    s1 = s1
    s2 = s2
    Tasks = {i1, f1, f2}
    FullScans = {f1, f2}
    Servers = {s1, s2}
    None = None
    MaxRetries = 0
    MaxCrashes = 1
SPECIFICATION FairSpec
CHECK_DEADLOCK FALSE
PROPERTIES
    EveryTaskIsServed
    InversionEnds
