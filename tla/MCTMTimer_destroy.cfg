\* Set, stop and destroy a timer before EMT has scheduled it.
CONSTANTS
    t1 = t1
    t2 = t2
    T1 = T1
    Timers = {t1, t2}
    EMT = EMT
    Others = {T1}
    Nil = Nil
    EmtOps = {"Set"}
    OtherOps = {"Set", "Stop", "Destroy"}
    Serialised = FALSE
    Avoided = {}
    MaxTime = 0
    MaxCalls = 4
    MaxRetries = 1
SPECIFICATION Spec
INVARIANTS ActiveTimersListed
SYMMETRY Symmetry
CHECK_DEADLOCK FALSE
