\* One server, and a trigger that comes while a retry is being requested.
CONSTANTS
    Servers = {s1}
    Runs = {r1, r2}
    Triggers = {t1, t2}
    None = None
    MaxRetries = 1
    TokenBudget = FALSE
    Faults = 1
    FaultKinds = {"retry"}
SPECIFICATION Spec
SYMMETRY Symmetric
CHECK_DEADLOCK FALSE
INVARIANTS
    RetryLeavesNothingOpen
