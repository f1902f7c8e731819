---------------------------- MODULE MCLedEffects ----------------------------
(***************************************************************************)
(* Instances of LedEffects for TLC: a strip of two pixels.                 *)
(***************************************************************************)
EXTENDS LedEffects

CONSTANTS off, red

OneColour == {off, red}
Rainbow == <<red, off>>

Cfg(effect, start, count, color, color2, speed) ==
    [effect |-> effect, start |-> start, count |-> count, color |-> color,
     color2 |-> color2, speed |-> speed]

\* Every effect: zones that overlap, one that is longer than the strip, and one
\* without pixels.
SomeConfigs ==
    {Cfg("SOLID", 0, 2, red, off, 255), Cfg("BLINK", 1, 1, red, off, 245),
     Cfg("CHASE", 0, 2, red, off, 255), Cfg("WIPE", 0, 3, red, off, 245),
     Cfg("BREATHE", 1, 1, red, off, 255), Cfg("RAINBOW", 0, 2, red, off, 255),
     Cfg("TWINKLE", 1, 0, red, off, 255)}

SomeWrites == {[first |-> 0, count |-> 2, color |-> red]}
=============================================================================
