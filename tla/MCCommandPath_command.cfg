CONSTANTS
    n1 = n1
    n2 = n2
    NoPeer = NoPeer
    Bda = {n1, n2}
    MaxLinks = 2
    NODE_MAX_COUNT = 2
    MAX_CONNS = 2
    QUEUE_MAX = 2
    Kinds = {"junk"}
SYMMETRY Alike
SPECIFICATION PathSpec
INVARIANTS ConnTableSound EntryOwn
PROPERTIES LinkIdStable DroppedOnlyIfGone CommandReachesSession
