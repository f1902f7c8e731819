CONSTANTS
    off = off
    red = red
    LED_MAX_ZONES = 2
    LEDS = 2
    Colours <- OneColour
    Off = off
    Hues <- Rainbow
    Configs <- SomeConfigs
    Writes <- SomeWrites
    TICKS = 4
    MAX_COMMANDS = 3
SPECIFICATION FairSpec
INVARIANTS LedIInv WipedStaysOff DarkStaysOff
PROPERTIES SolidShown Blinks
