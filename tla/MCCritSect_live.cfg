\* EMT and two other threads on one section.
CONSTANTS
    Sects = {1}
    EMT = EMT
    T1 = T1
    T2 = T2
    Others = {T1, T2}
    Nil = Nil
    Arrays = {}
    MaxHold = 2
SPECIFICATION FairSpec
PROPERTIES WaitEnds
