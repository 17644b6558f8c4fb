\* One server, two triggers, one disturbance.
CONSTANTS
    Servers = {s1}
    Runs = {r1, r2}
    Triggers = {t1, t2}
    None = None
    MaxRetries = 1
    TokenBudget = FALSE
    Faults = 1
    FaultKinds = {"preempt", "shutdown", "crash", "stall", "retry", "late_error"}
SPECIFICATION FairSpec
CHECK_DEADLOCK FALSE
PROPERTIES
    TaskSettles
