\* Two servers, two triggers, one disturbance of any kind.
CONSTANTS
    Servers = {s1, s2}
    Runs = {r1, r2}
    Triggers = {t1, t2}
    None = None
    MaxRetries = 1
    TokenBudget = FALSE
    Faults = 1
    FaultKinds = {"preempt", "shutdown", "crash", "stall", "trigger_crash", "retry", "late_error"}
SPECIFICATION Spec
SYMMETRY Symmetric
CHECK_DEADLOCK FALSE
INVARIANTS
    TaskInv
    LeaseExclusion
    LeaseHasHolder
    DetachedOwnsNothing
    CompletedIsComplete
    RunningIsLeased
    RevisionsUnique
PROPERTIES
    CompletedIsFinal
