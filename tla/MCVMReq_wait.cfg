\* Two callers and EMT wait without a timeout, but for one call that polls
\* first; the free lists hold one packet.
CONSTANTS
    p1 = p1
    p2 = p2
    p3 = p3
    r1 = r1
    r2 = r2
    Packets = {p1, p2, p3}
    Requesters = {r1, r2}
    EMT = EMT
    Nil = Nil
    Modes = {"wait", "poll"}
    Inline = TRUE
    PoolMax = 1
    MaxCalls = 4
    MaxPolls = 1
SPECIFICATION Spec
INVARIANTS TypeOK OneHolder SuccessIsCompletion
PROPERTIES ServiceSpec
SYMMETRY Symmetry
