\* Two servers, one trigger, two disturbances, and room for one retry.
CONSTANTS
    Servers = {s1, s2}
    Runs = {r1, r2}
    Triggers = {t1}
    None = None
    MaxRetries = 2
    TokenBudget = TRUE
    Faults = 2
    FaultKinds = {"preempt", "shutdown", "crash", "stall", "trigger_crash", "retry", "late_error"}
SPECIFICATION Spec
SYMMETRY Symmetric
CHECK_DEADLOCK FALSE
INVARIANTS
    TaskInv
