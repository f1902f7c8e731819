----------------------------- MODULE LedEffects -----------------------------
(***************************************************************************)
(* The LED strips of a node.  Two tasks write to them.  effects_task       *)
(* renders every active zone into the pixel buffer, 50 times a second, and *)
(* flushes the buffer to the strip; the Bluetooth task carries out the     *)
(* commands of the host: it sets and clears zones, and writes pixels       *)
(* directly.  The zones are guarded by s_mutex, which effects_task holds   *)
(* while it renders but not while it flushes, and clear_zone while it does *)
(* both; the direct commands do not take it.                               *)
(*                                                                         *)
(* led_strip_refresh sends the buffer over an RMT channel and waits until  *)
(* it is sent.  A refresh that finds the channel busy returns an error,    *)
(* which nobody looks at.                                                  *)
(*                                                                         *)
(* One strip is modelled: strips share nothing but the mutex.  Colours are *)
(* those that dim has already dimmed.                                      *)
(***************************************************************************)
EXTENDS Naturals, Sequences, FiniteSets

CONSTANTS
    LED_MAX_ZONES,
    LEDS,           \* the pixels of the strip
    Colours, Off,
    Hues,           \* the colours of the rainbow, in order
    Configs,        \* the zones a LED_ZONE_SET asks for
    Writes,         \* what the direct commands write: [first, count, colour]
    TICKS,          \* tick wraps at TICKS (2^32)
    MAX_COMMANDS    \* bound of the commands

ASSUME LedAssumption ==
    /\ LED_MAX_ZONES \in Nat \ {0}
    /\ LEDS \in Nat \ {0}
    /\ TICKS \in Nat \ {0}
    /\ MAX_COMMANDS \in Nat
    /\ Off \in Colours
    /\ Hues \in Seq(Colours) /\ Hues # <<>>
    /\ Configs \subseteq [effect : STRING, start : 0..255, count : 0..255,
                          color : Colours, color2 : Colours, speed : 0..255]
    /\ Writes \subseteq [first : 0..255, count : 0..255, color : Colours]

VARIABLES
    zones,      \* s_zones
    mutex,      \* s_mutex: who holds it
    pixels,     \* the pixel buffer of the strip
    channel,    \* the RMT channel: who sends
    sending,    \* the pixels when the sending began
    shown,      \* what the strip shows
    fx,         \* effects_task: pc, the zone it renders next, dirty
    bt,         \* the Bluetooth task: pc, the zone it clears, whether its flush was sent
    commands,   \* the commands so far
    wiped,      \* the pixels a clear switched off in the buffer,
    dark        \* and on the strip, and that nobody was told to light since

vars == <<zones, mutex, pixels, channel, sending, shown, fx, bt, commands, wiped, dark>>

Zone == 0..(LED_MAX_ZONES - 1)
Pixel == 0..(LEDS - 1)
Strip == [Pixel -> Colours]
Blank == [p \in Pixel |-> Off]

\* A zone after memset, and one that is set.
NoZone == [active |-> FALSE]
NewZone(cfg) == [active |-> TRUE, cfg |-> cfg, tick |-> 0]

ActiveZone == [active : {TRUE}, cfg : Configs, tick : 0..(TICKS - 1)]

NoTask == "none"

FxIdle == [pc |-> "delay", next |-> 0, dirty |-> FALSE]
BtIdle == [pc |-> "idle", zone |-> 0, sent |-> FALSE]

\* The Bluetooth task is in led_effects_clear_zone.
Clearing == bt.pc \in {"clear", "wait clear", "cleared"}

\* The types of the variables; the mutex and the channel have one holder, the
\* task whose place in the code says so.
TypeOK ==
    /\ zones \in [Zone -> {NoZone} \cup ActiveZone]
    /\ pixels \in Strip /\ sending \in Strip /\ shown \in Strip
    /\ fx \in [pc : {"delay", "render", "flush", "wait"}, next : 0..LED_MAX_ZONES, dirty : BOOLEAN]
    /\ bt \in [pc : {"idle", "clear", "wait clear", "cleared", "write", "wait write"},
               zone : Zone, sent : BOOLEAN]
    /\ mutex \in {NoTask, "fx", "bt"}
    /\ mutex = "fx" <=> fx.pc = "render"
    /\ mutex = "bt" <=> Clearing
    /\ channel \in {NoTask, "fx", "bt"}
    /\ channel = "fx" <=> fx.pc = "wait"
    /\ channel = "bt" <=> bt.pc \in {"wait clear", "wait write"}
    /\ commands \in 0..MAX_COMMANDS
    /\ dark \subseteq Pixel /\ wiped \subseteq Pixel

\* led_effects_init, and neopixel_init, which clears the strip
Init ==
    /\ zones = [z \in Zone |-> NoZone]
    /\ mutex = NoTask
    /\ pixels = Blank
    /\ channel = NoTask
    /\ sending = Blank
    /\ shown = Blank
    /\ fx = FxIdle
    /\ bt = BtIdle
    /\ commands = 0
    /\ wiped = {}
    /\ dark = {}

-----------------------------------------------------------------------------
(***************************************************************************)
(* The strip.                                                              *)
(***************************************************************************)
\* led_strip_refresh: the sending begins, and ends.  What is written to the
\* buffer meanwhile may be sent, or not.
Refresh(task) ==
    /\ channel = NoTask
    /\ channel' = task
    /\ sending' = pixels

Sent ==
    /\ channel' = NoTask
    /\ shown' \in {s \in Strip : \A p \in Pixel : s[p] \in {sending[p], pixels[p]}}
    /\ sending' = Blank

Painted(strip, P, c) == [p \in Pixel |-> IF p \in P THEN c ELSE strip[p]]

\* The pixels from start on that neopixel_set_pixel does not refuse.
PixelRange(start, count) == {p \in Pixel : start <= p /\ p < start + count}

-----------------------------------------------------------------------------
(***************************************************************************)
(* What render_zone does to the buffer.  pos, hue and level depend on tick *)
(* and on the period in ticks that speed stands for.                       *)
(***************************************************************************)
speed_period(speed) == 1 + ((255 - speed) * 49) \div 255

\* color[i] is the colour of the zone's pixel i.
ZonePainted(cfg, strip, color) ==
    [p \in Pixel |-> IF p \in PixelRange(cfg.start, cfg.count)
                     THEN color[p - cfg.start] ELSE strip[p]]

Effects == {"SOLID", "BLINK", "BREATHE", "RAINBOW", "CHASE", "WIPE", "TWINKLE"}

\* A position is taken modulo count.  Where the division does not trap its
\* result is not used, but by TWINKLE.
Undefined(cfg) == cfg.count = 0 /\ cfg.effect \in {"CHASE", "WIPE", "TWINKLE"}

\* The colours of a zone's pixels.
ZoneColors(zone) ==
    LET cfg == zone.cfg
        n == cfg.count
        I == 0..(n - 1)
        phase == zone.tick \div speed_period(cfg.speed)
        lit(S) == [i \in I |-> IF i \in S THEN cfg.color ELSE Off]
    IN  CASE cfg.effect = "SOLID" -> {lit(I)}
          [] cfg.effect = "BLINK" -> {IF phase % 2 = 0 THEN lit(I) ELSE lit({})}
          [] cfg.effect = "BREATHE" -> {lit(I), lit({})}
          [] cfg.effect = "RAINBOW" ->
                {[i \in I |-> Hues[((phase + (i * Len(Hues)) \div n) % Len(Hues)) + 1]]}
          [] cfg.effect = "CHASE" ->
                {[i \in I |-> IF i = phase % n THEN cfg.color ELSE cfg.color2]}
          [] cfg.effect = "WIPE" ->
                LET pos == phase % (2 * n)
                IN  {lit({i \in I : IF pos < n THEN i <= pos ELSE i > pos - n})}

\* A zone twinkles in the ticks that begin a period: one of its pixels takes
\* one of its colours.  (Without pixels, it is any pixel after its start.)
Twinkled(zone, strip) ==
    LET cfg == zone.cfg
        count == IF cfg.count = 0 THEN LEDS + 1 ELSE cfg.count
    IN  IF zone.tick % speed_period(cfg.speed) # 0 THEN {strip}
        ELSE {Painted(strip, {cfg.start + i}, c) :
                 i \in 0..(count - 1), c \in {cfg.color, cfg.color2}}

render_zone(zone, strip) ==
    IF zone.cfg.effect = "TWINKLE" THEN Twinkled(zone, strip)
    ELSE IF zone.cfg.count = 0 \/ zone.cfg.effect \notin Effects THEN {strip}
    ELSE {ZonePainted(zone.cfg, strip, color) : color \in ZoneColors(zone)}

\* Mutant of Ticked: no tick is counted.
TickedNever(zone) == zone

Ticked(zone) ==
    IF zone.cfg.effect = "SOLID" \/ zone.cfg.effect \notin Effects THEN zone
    ELSE [zone EXCEPT !.tick = (@ + 1) % TICKS]

-----------------------------------------------------------------------------
(***************************************************************************)
(* effects_task.                                                           *)
(***************************************************************************)
\* Mutant of FxLock: the mutex is not taken.
FxLockNot ==
    /\ fx.pc = "delay"
    /\ fx' = [FxIdle EXCEPT !.pc = "render"]
    /\ UNCHANGED <<zones, mutex, pixels, channel, sending, shown, bt, commands, wiped, dark>>

FxLock ==
    /\ fx.pc = "delay"
    /\ mutex = NoTask
    /\ mutex' = "fx"
    /\ fx' = [FxIdle EXCEPT !.pc = "render"]
    /\ UNCHANGED <<zones, pixels, channel, sending, shown, bt, commands, wiped, dark>>

\* Mutant of NeedsFlush: a zone that does not move is not flushed.
NeedsFlushMoving(zone) == zone.active /\ zone.cfg.effect # "SOLID"

\* dirty
NeedsFlush(zone) == zone.active

FxRender ==
    /\ fx.pc = "render"
    /\ fx.next < LED_MAX_ZONES
    /\ LET zone == zones[fx.next]
       IN  IF zone.active
           THEN /\ pixels' \in render_zone(zone, pixels)
                /\ zones' = [zones EXCEPT ![fx.next] = Ticked(zone)]
                /\ fx' = [fx EXCEPT !.next = @ + 1, !.dirty = @ \/ NeedsFlush(zone)]
           ELSE /\ fx' = [fx EXCEPT !.next = @ + 1]
                /\ UNCHANGED <<zones, pixels>>
    /\ UNCHANGED <<mutex, channel, sending, shown, bt, commands, wiped, dark>>

FxUnlock ==
    /\ fx.pc = "render"
    /\ fx.next = LED_MAX_ZONES
    /\ mutex' = NoTask
    /\ fx' = IF fx.dirty THEN [FxIdle EXCEPT !.pc = "flush"] ELSE FxIdle
    /\ UNCHANGED <<zones, pixels, channel, sending, shown, bt, commands, wiped, dark>>

FxFlush ==
    /\ fx.pc = "flush"
    /\ Refresh("fx")
    /\ fx' = [fx EXCEPT !.pc = "wait"]
    /\ UNCHANGED <<zones, mutex, pixels, shown, bt, commands, wiped, dark>>

\* The channel is busy: the error is not looked at.
FxFlushFails ==
    /\ fx.pc = "flush"
    /\ channel # NoTask
    /\ fx' = FxIdle
    /\ UNCHANGED <<zones, mutex, pixels, channel, sending, shown, bt, commands, wiped, dark>>

FxSent ==
    /\ fx.pc = "wait"
    /\ Sent
    /\ fx' = FxIdle
    /\ UNCHANGED <<zones, mutex, pixels, bt, commands, wiped, dark>>

-----------------------------------------------------------------------------
(***************************************************************************)
(* The commands of the host, in the Bluetooth task (dispatch_packet).      *)
(***************************************************************************)
Command ==
    /\ bt.pc = "idle"
    /\ commands < MAX_COMMANDS
    /\ commands' = commands + 1

\* The pixels that a zone may light.
Reach(zone) ==
    IF ~zone.active THEN {}
    ELSE PixelRange(zone.cfg.start, IF Undefined(zone.cfg) THEN LEDS ELSE zone.cfg.count)

\* From now on the pixels of P may be lit.
Lighted(P) ==
    /\ wiped' = wiped \ P
    /\ dark' = dark \ P

led_effects_set_zone(z, cfg) ==
    /\ Command
    /\ mutex = NoTask
    /\ zones' = [zones EXCEPT ![z] = NewZone(cfg)]
    /\ Lighted(Reach(zones[z]) \cup Reach(NewZone(cfg)))
    /\ UNCHANGED <<mutex, pixels, channel, sending, shown, fx, bt>>

Cleared(zone, strip) == Painted(strip, PixelRange(zone.cfg.start, zone.cfg.count), Off)

\* The mutex is held until the zone is removed.  (Nothing comes of clearing a
\* zone that is not active.)
led_effects_clear_zone(z) ==
    /\ Command
    /\ mutex = NoTask
    /\ zones[z].active
    /\ mutex' = "bt"
    /\ pixels' = Cleared(zones[z], pixels)
    /\ bt' = [BtIdle EXCEPT !.pc = "clear", !.zone = z]
    /\ UNCHANGED <<zones, channel, sending, shown, fx, wiped, dark>>

ClearFlush ==
    /\ bt.pc = "clear"
    /\ Refresh("bt")
    /\ bt' = [bt EXCEPT !.pc = "wait clear"]
    /\ UNCHANGED <<zones, mutex, pixels, shown, fx, commands, wiped, dark>>

\* Mutant of ClearFlushFails: a busy channel is taken for success.
ClearFlushIgnored ==
    /\ bt.pc = "clear"
    /\ channel # NoTask
    /\ bt' = [bt EXCEPT !.pc = "cleared", !.sent = TRUE]
    /\ UNCHANGED <<zones, mutex, pixels, channel, sending, shown, fx, commands, wiped, dark>>

\* The channel is busy: the error is not looked at, the zone is removed all
\* the same.
ClearFlushFails ==
    /\ bt.pc = "clear"
    /\ channel # NoTask
    /\ bt' = [bt EXCEPT !.pc = "cleared"]
    /\ UNCHANGED <<zones, mutex, pixels, channel, sending, shown, fx, commands, wiped, dark>>

ClearSent ==
    /\ bt.pc = "wait clear"
    /\ Sent
    /\ bt' = [bt EXCEPT !.pc = "cleared", !.sent = TRUE]
    /\ UNCHANGED <<zones, mutex, pixels, fx, commands, wiped, dark>>

ClearDone ==
    /\ bt.pc = "cleared"
    /\ LET zone == zones[bt.zone]
           P == PixelRange(zone.cfg.start, zone.cfg.count)
       IN  /\ wiped' = (wiped \ Reach(zone)) \cup P
           /\ dark' = (dark \ Reach(zone)) \cup (IF bt.sent THEN P ELSE {})
    /\ zones' = [zones EXCEPT ![bt.zone] = NoZone]
    /\ mutex' = NoTask
    /\ bt' = BtIdle
    /\ UNCHANGED <<pixels, channel, sending, shown, fx, commands>>

\* neopixel_set, neopixel_set_all, neopixel_set_range: without the mutex.  What
\* begins outside the strip is refused.
DirectWrite(w) ==
    /\ Command
    /\ w.first \in Pixel
    /\ pixels' = Painted(pixels, PixelRange(w.first, w.count), w.color)
    /\ Lighted(PixelRange(w.first, w.count))
    /\ bt' = [BtIdle EXCEPT !.pc = "write"]
    /\ UNCHANGED <<zones, mutex, channel, sending, shown, fx>>

WriteFlush ==
    /\ bt.pc = "write"
    /\ Refresh("bt")
    /\ bt' = [bt EXCEPT !.pc = "wait write"]
    /\ UNCHANGED <<zones, mutex, pixels, shown, fx, commands, wiped, dark>>

WriteFlushFails ==
    /\ bt.pc = "write"
    /\ channel # NoTask
    /\ bt' = BtIdle
    /\ UNCHANGED <<zones, mutex, pixels, channel, sending, shown, fx, commands, wiped, dark>>

WriteSent ==
    /\ bt.pc = "wait write"
    /\ Sent
    /\ bt' = BtIdle
    /\ UNCHANGED <<zones, mutex, pixels, fx, commands, wiped, dark>>

-----------------------------------------------------------------------------
\* A restart: the zones are lost, the strip is cleared.
Restart ==
    /\ zones' = [z \in Zone |-> NoZone]
    /\ mutex' = NoTask
    /\ pixels' = Blank
    /\ channel' = NoTask
    /\ sending' = Blank
    /\ shown' = Blank
    /\ fx' = FxIdle
    /\ bt' = BtIdle
    /\ UNCHANGED commands
    /\ wiped' = {}
    /\ dark' = {}

\* The division by zero traps.
FxTrap ==
    /\ fx.pc = "render"
    /\ fx.next < LED_MAX_ZONES
    /\ zones[fx.next].active /\ Undefined(zones[fx.next].cfg)
    /\ Restart

FxNext == FxLock \/ FxRender \/ FxUnlock \/ FxFlush \/ FxFlushFails \/ FxSent
BtNext == \/ ClearFlush \/ ClearFlushFails \/ ClearSent \/ ClearDone
          \/ WriteFlush \/ WriteFlushFails \/ WriteSent

Next ==
    \/ FxNext
    \/ BtNext
    \/ \E z \in Zone, cfg \in Configs : led_effects_set_zone(z, cfg)
    \/ \E z \in Zone : led_effects_clear_zone(z)
    \/ \E w \in Writes : DirectWrite(w)
    \/ FxTrap
    \/ Restart

\* Both tasks run on; the host need not send anything.
Fairness == WF_vars(FxNext) /\ WF_vars(BtNext)

Spec == Init /\ [][Next]_vars
FairSpec == Spec /\ Fairness

-----------------------------------------------------------------------------
(***************************************************************************)
(* Properties.                                                             *)
(***************************************************************************)
Covered(p) == \E z \in Zone : p \in Reach(zones[z])

\* What a clear wiped stays off in the buffer until a zone or a command lights
\* it: effects_task does not render a zone that is being cleared.
WipedStaysOff == \A p \in wiped : ~Covered(p) => pixels[p] = Off

\* If the flush of led_effects_clear_zone got the channel, the pixels of the zone are
\* dark and stay dark, whatever effects_task was about to flush.  (If it did not
\* they stay lit until something else is flushed.)
DarkStaysOff == \A p \in dark : ~Covered(p) => shown[p] = Off

-----------------------------------------------------------------------------
(***************************************************************************)
(* The inductive invariant.  While a zone is cleared its pixels are off in *)
(* the buffer, since the mutex keeps effects_task from rendering, and what *)
(* is being sent, or was sent, of them is off as well.                     *)
(***************************************************************************)
ShowsOff(p) == shown[p] = Off /\ (channel # NoTask => sending[p] = Off)

ClearInv ==
    Clearing =>
       /\ zones[bt.zone].active
       /\ \A p \in PixelRange(zones[bt.zone].cfg.start, zones[bt.zone].cfg.count) :
             /\ pixels[p] = Off
             /\ bt.pc = "wait clear" => sending[p] = Off
             /\ bt.sent => ShowsOff(p)

DarkInv == \A p \in dark : ~Covered(p) => pixels[p] = Off /\ ShowsOff(p)

LedIInv == TypeOK /\ ClearInv /\ WipedStaysOff /\ DarkInv

-----------------------------------------------------------------------------
(***************************************************************************)
(* Liveness.                                                               *)
(***************************************************************************)
\* Zone z alone decides on pixel p.
Drives(z, p) ==
    /\ p \in Reach(zones[z])
    /\ \A y \in Zone \ {z} : p \notin Reach(zones[y])

DrivesWith(z, p, effect, color) ==
    Drives(z, p) /\ zones[z].cfg.effect = effect /\ zones[z].cfg.color = color

\* A solid zone that stays is shown, whichever flushes are lost and whatever is
\* written to its pixels: effects_task renders and flushes it again.
SolidShown ==
    \A z \in Zone, p \in Pixel, c \in Colours :
       <>[]DrivesWith(z, p, "SOLID", c) => <>[](shown[p] = c)

\* A zone that stays and blinks is shown on and off again and again.
Blinks ==
    \A z \in Zone, p \in Pixel, c \in Colours :
       <>[]DrivesWith(z, p, "BLINK", c) => []<>(shown[p] = c) /\ []<>(shown[p] = Off)
=============================================================================
