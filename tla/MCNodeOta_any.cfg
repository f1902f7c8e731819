CONSTANTS
    fact = fact
    app = app
    zero = zero
    raw = raw
    Images = {fact, app, zero, raw}
    Apps = {fact, app, zero}
    ZeroCrc = {zero}
    Size <- Sizes
    Factory = fact
    SLOT_SIZE = 2
    Noise = Noise
SPECIFICATION OtaSpec
INVARIANTS OtaIInv AlwaysBoots
PROPERTIES NewBootVerified BootPreserved
