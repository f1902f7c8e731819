CONSTANTS
    fact = fact
    app = app
    app2 = app2
    raw = raw
    u1 = u1
    u2 = u2
    u3 = u3
    Images = {fact, app, app2, raw}
    Apps = {fact, app, app2}
    ZeroCrc = {}
    Size <- Sizes
    Factory = fact
    SLOT_SIZE = 2
    Noise = Noise
    Uploads = {u1, u2}
    Image <- TwoApps
    Faults = FALSE
    Concurrent = TRUE
    Late = FALSE
    DOWN_MAX = 3
    UP_MAX = 2
SPECIFICATION Spec
INVARIANTS SuccessReturned
CHECK_DEADLOCK FALSE
