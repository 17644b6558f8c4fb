\* One trigger, and one server that is shut down in an orderly way.
CONSTANTS
    Servers = {s1, s2}
    Runs = {r1, r2}
    Triggers = {t1}
    None = None
    MaxRetries = 1
    TokenBudget = FALSE
    Faults = 1
    FaultKinds = {"shutdown"}
SPECIFICATION Spec
SYMMETRY Symmetric
CHECK_DEADLOCK FALSE
INVARIANTS
    NoDuplicateExecution
