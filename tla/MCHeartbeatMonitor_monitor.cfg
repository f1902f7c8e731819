CONSTANTS
    Node = {n1, n2}
    HEARTBEAT_TIMEOUT = 2
    MACRO_TIMEOUT = 2
    AGE_MAX = 10
SPECIFICATION Spec
INVARIANTS AlarmInTime StillWatched
