CONSTANTS
    n1 = n1
    n2 = n2
    n3 = n3
    NoPeer = NoPeer
    Bda = {n1, n2}
    MaxLinks = 2
    NODE_MAX_COUNT = 2
    MAX_CONNS = 2
    QUEUE_MAX = 3
    Kinds = {"other"}
SPECIFICATION AnsweringSpec
PROPERTIES EveryNodeLinked
CHECK_DEADLOCK FALSE
