\* Two triggers that overlap, and no disturbance at all.
CONSTANTS
    Servers = {s1, s2}
    Runs = {r1, r2}
    Triggers = {t1, t2}
    None = None
    MaxRetries = 1
    TokenBudget = FALSE
    Faults = 0
    FaultKinds = {}
SPECIFICATION Spec
SYMMETRY Symmetric
CHECK_DEADLOCK FALSE
INVARIANTS
    NoDuplicateExecution
