\* Two further triggers, the second of which takes a block back.
CONSTANTS
    Triggers = {t1, t2}
    Worker = Worker
    None = None
    a = a
    b = b
    c = c
    f = f
    g = g
    Files = {f, g}
    Blocks = {a, b, c}
    FileOf <- MCFileOf
    Trees <- MCTrees
    FirstTree <- MCFirstTree
    Faults = 0
    FaultKinds = {}
SPECIFICATION Spec
SYMMETRY Symmetric
CHECK_DEADLOCK FALSE
INVARIANTS
    NewerCodeSupersedes
