CONSTANTS
    n1 = n1
    n2 = n2
    n3 = n3
    NoPeer = NoPeer
    Bda = {n1, n2}
    MaxLinks = 2
    NODE_MAX_COUNT = 3
    MAX_CONNS = 2
    QUEUE_MAX = 2
    Kinds = {"other"}
SPECIFICATION Spec
INVARIANTS IndexStable
CHECK_DEADLOCK FALSE
