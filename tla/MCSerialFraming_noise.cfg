CONSTANTS
    BYTE = 8
    MAGIC_LO = 6
    MAGIC_HI = 7
    Ids = {0, 3}
    Payloads <- ShortPayloads
    Noise = {5, 6}
    MAX_PACKET = 6
    MAX_LINE = 7
    MAX_FRAMES = 5
    MAX_NOISE = 2
    MAX_LOST = 1
    LOSSY = 1
    RESYNC = 3
SPECIFICATION Spec
INVARIANTS TypeOK HostExact RouterKeepsPackets Resync
CHECK_DEADLOCK FALSE
ACTION_CONSTRAINT ParsedFirst
