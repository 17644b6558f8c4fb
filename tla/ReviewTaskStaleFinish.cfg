\* One server, one run, and a trigger that comes while it finishes.
CONSTANTS
    Servers = {s1}
    Runs = {r1, r2}
    Triggers = {t1, t2}
    None = None
    MaxRetries = 1
    TokenBudget = FALSE
    Faults = 0
    FaultKinds = {}
SPECIFICATION Spec
CHECK_DEADLOCK FALSE
PROPERTIES
    FinishKeepsNewerTrigger
