\* EMT and two other threads on two sections.
CONSTANTS
    Sects = {1, 2}
    EMT = EMT
    T1 = T1
    T2 = T2
    Others = {T1, T2}
    Nil = Nil
    Arrays <- BothOrders
    MaxHold = 2
SPECIFICATION Spec
INVARIANTS TypeOK OneKeeper WaitsEmptyHanded QueuedIsOwned
SYMMETRY Symmetry
