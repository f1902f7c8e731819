CONSTANTS
    n1 = n1
    n2 = n2
    Bda = {n1, n2}
    device_name <- TwoNames
    Long = {n1}
    Wanted = {"tool"}
    Thread = {t1, t2}
    Zone = {on}
    NoZone = NoZone
    UP_MAX = 2
    DOWN_MAX = 1
    MAX_RESTARTS = 1
SPECIFICATION FairSpec
INVARIANTS ViewFollows  
 
