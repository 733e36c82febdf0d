\* One caller, that waits or does not.
CONSTANTS
    p1 = p1
    p2 = p2
    p3 = p3
    r1 = r1
    Packets = {p1, p2, p3}
    Requesters = {r1}
    EMT = EMT
    Nil = Nil
    Modes = {"wait", "noWait"}
    Inline = FALSE
    PoolMax = 3
    MaxCalls = 3
    MaxPolls = 0
SPECIFICATION FairSpec
PROPERTIES CallsReturn PacketsReturn
