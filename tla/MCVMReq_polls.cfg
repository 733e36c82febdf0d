\* Two calls that poll first.
CONSTANTS
    p1 = p1
    p2 = p2
    r1 = r1
    r2 = r2
    Packets = {p1, p2}
    Requesters = {r1, r2}
    EMT = EMT
    Nil = Nil
    Modes = {"poll"}
    Inline = FALSE
    PoolMax = 2
    MaxCalls = 3
    MaxPolls = 3
SPECIFICATION Spec
INVARIANTS SuccessIsCompletion
