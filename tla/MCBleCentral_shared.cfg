CONSTANTS
    n1 = n1
    n2 = n2
    n3 = n3
    NoPeer = NoPeer
    Bda = {n1, n2, n3}
    MaxLinks = 2
    NODE_MAX_COUNT = 2
    MAX_CONNS = 1
    QUEUE_MAX = 2
    Kinds = {"info", "endstop", "other", "junk"}
SPECIFICATION FairSpec
INVARIANTS IInv HostViewSound
PROPERTIES SessionSpec LossReported
CHECK_DEADLOCK FALSE
