\* Two further triggers, one disturbance of any kind.
CONSTANTS
    Triggers = {t1, t2}
    Worker = Worker
    None = None
    a = a
    b = b
    c = c
    f = f
    g = g
    Files = {f, g}
    Blocks = {a, b, c}
    FileOf <- MCFileOf
    Trees <- MCTrees
    FirstTree <- MCFirstTree
    Faults = 1
    FaultKinds = {"retry", "preempt", "crash", "raise", "trigger_fail"}
SPECIFICATION Spec
SYMMETRY Symmetric
CHECK_DEADLOCK FALSE
INVARIANTS
    SnapInv
    RevisionIsFree
    OpenSnapshotIsCurrent
    CompletedTaskSettlesSnapshot
    CompletedSnapshotIsWhole
PROPERTIES
    SettledSnapshotStays
