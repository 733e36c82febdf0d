\* EMT and one other thread; one call on a timer at a time.
CONSTANTS
    t1 = t1
    t2 = t2
    Timers = {t1, t2}
    EMT = EMT
    T1 = T1
    Others = {T1}
    Nil = Nil
    EmtOps = {"Set", "Stop", "Destroy"}
    OtherOps = {"Set", "Stop"}
    Serialised = TRUE
    Avoided = {"Overtake", "DestroyStopped"}
    MaxTime = 1
    MaxCalls = 3
    MaxRetries = 3
SPECIFICATION FairSpec
INVARIANTS PendingFound ActiveLinked ActiveByState HeadCached
PROPERTIES ServiceSpec ArmedFires
CHECK_DEADLOCK FALSE
