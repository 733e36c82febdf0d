\* Two threads; the waits of every call may run out.
CONSTANTS
    t1 = t1
    t2 = t2
    Threads = {t1, t2}
    Nil = Nil
    Slow = {"Create", "Suspend", "Resume", "Destroy"}
SPECIFICATION FairSpec
INVARIANTS TypeOK SuspendedStays NoUseAfterFree SignalIsAnswer
PROPERTIES NotRevived CallsReturn Terminates
