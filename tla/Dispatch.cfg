CONSTANTS
    i1 = i1
    i2 = i2
    f1 = f1
    s1 = s1
    s2 = s2
    Tasks = {i1, i2, f1}
    FullScans = {f1}
    Servers = {s1, s2}
    None = None
    MaxRetries = 1
    MaxCrashes = 1
SPECIFICATION Spec
CHECK_DEADLOCK FALSE
INVARIANTS
    DispatchInv
PROPERTIES
    ClaimIsFirst
    ClaimIsDue
    ImplementsTaskQueue
