\* Three clients of a machine that two others uninitialise.
CONSTANTS
    c1 = c1
    c2 = c2
    c3 = c3
    u1 = u1
    u2 = u2
    Owner = Owner
    Nil = Nil
    Clients = {c1, c2, c3}
    Closers = {u1, u2}
    MaxCalls = 2
    Avoided = {"ReleaseInSpan", "UninitInSpan"}
SPECIFICATION FairSpec
INVARIANTS CountsAreTrue UninitAlone
PROPERTIES WaitsEnd
CHECK_DEADLOCK FALSE
