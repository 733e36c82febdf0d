\* The queue of a network card and that of a keyboard, with two threads.
CONSTANTS
    net = net
    kbd = kbd
    T1 = T1
    EMT = EMT
    Nil = Nil
    Others = {T1}
    Queues <- NetKbd
    cItems <- OneAndTwo
    Producers <- Users
    Slack = 1
    GCEnabled = {net}
    Refusing = {kbd}
    MayLap = FALSE
SPECIFICATION FairSpec
INVARIANTS OnePlace PendingIsFlagged
PROPERTIES ServiceSpec Served
