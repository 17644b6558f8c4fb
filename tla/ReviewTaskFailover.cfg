\* Two servers, one trigger, one disturbance, and room for one retry.
CONSTANTS
    Servers = {s1, s2}
    Runs = {r1, r2}
    Triggers = {t1}
    None = None
    MaxRetries = 2
    TokenBudget = TRUE
    Faults = 1
    FaultKinds = {"preempt", "shutdown", "crash", "stall", "retry", "late_error"}
SPECIFICATION FairSpec
CHECK_DEADLOCK FALSE
PROPERTIES
    TaskSettles
