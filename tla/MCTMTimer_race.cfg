\* EMT sets and stops three timers, another thread stops them at any time.
CONSTANTS
    t1 = t1
    t2 = t2
    t3 = t3
    Timers = {t1, t2, t3}
    EMT = EMT
    T1 = T1
    Others = {T1}
    Nil = Nil
    EmtOps = {"Set", "Stop"}
    OtherOps = {"Stop"}
    Serialised = FALSE
    Avoided = {}
    MaxTime = 2
    MaxCalls = 4
    MaxRetries = 1
SPECIFICATION Spec
INVARIANTS TypeOK LinkedOnce Sorted
SYMMETRY Symmetry
CHECK_DEADLOCK FALSE
