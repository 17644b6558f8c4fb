\* One server and one trigger, with the default retry limit.
CONSTANTS
    Servers = {s1}
    Runs = {r1, r2}
    Triggers = {t1}
    None = None
    MaxRetries = 3
    TokenBudget = FALSE
    Faults = 0
    FaultKinds = {}
SPECIFICATION Spec
CHECK_DEADLOCK FALSE
PROPERTIES
    FailuresUpToTheLimitAreRetried
