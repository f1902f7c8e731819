CONSTANTS
    Central = {c1, c2}
    NoPeer = NoPeer
    MaxLinks = 2
    QUEUE_MAX = 3
SPECIFICATION FairSpec
INVARIANTS Findable RepliesToAsker OffSticks
PROPERTIES OffWhenLost
