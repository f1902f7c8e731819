-------------------------- MODULE LedEffectsProofs --------------------------
(***************************************************************************)
(* Proofs about LedEffects, for any number of zones, pixels and commands:  *)
(* the inductive invariant, and that what a clear wiped stays off.         *)
(***************************************************************************)
EXTENDS LedEffects, TLAPS

-----------------------------------------------------------------------------
(***************************************************************************)
(* What a zone renders.                                                    *)
(***************************************************************************)

\* The period of an effect is at least one tick: no division by it traps.
LEMMA PeriodPositive ==
    ASSUME NEW speed \in 0..255
    PROVE  speed_period(speed) \in Nat \ {0}
BY DEF speed_period

\* A remainder is below its divisor.
LEMMA Remainder ==
    ASSUME NEW a \in Nat, NEW b \in Nat \ {0}
    PROVE  a % b \in 0..(b - 1) /\ a \div b \in Nat
OBVIOUS

\* The product in the rainbow is a number.
LEMMA Product ==
    ASSUME NEW a \in Nat, NEW b \in Nat
    PROVE  a * b \in Nat
OBVIOUS

Config == [effect : STRING, start : 0..255, count : 0..255,
           color : Colours, color2 : Colours, speed : 0..255]

\* What is assumed of the constants, one by one.
LEMMA ConstantTypes ==
    /\ LED_MAX_ZONES \in Nat \ {0} /\ LEDS \in Nat \ {0} /\ TICKS \in Nat \ {0}
    /\ MAX_COMMANDS \in Nat
    /\ Off \in Colours
    /\ Configs \subseteq Config
BY LedAssumption DEF Config

\* The rainbow is not empty.
LEMMA HuesTyped ==
    /\ Len(Hues) \in Nat \ {0}
    /\ \A k \in 1..Len(Hues) : Hues[k] \in Colours
<1>1. Hues \in Seq(Colours) /\ Hues # <<>>
  BY LedAssumption
<1> QED
  BY <1>1

\* The fields of a zone that is set.
LEMMA ZoneFields ==
    ASSUME NEW zone \in ActiveZone
    PROVE  /\ zone.active
           /\ zone.cfg \in Configs
           /\ zone.tick \in Nat
           /\ zone.cfg.start \in Nat /\ zone.cfg.count \in Nat
           /\ zone.cfg.color \in Colours /\ zone.cfg.color2 \in Colours
           /\ speed_period(zone.cfg.speed) \in Nat \ {0}
<1>1. zone.cfg \in Configs /\ zone.tick \in Nat
  BY DEF ActiveZone
<1>2. zone.active
  BY DEF ActiveZone
<1>3. zone.cfg \in Config
  BY <1>1, ConstantTypes
<1>4. /\ zone.cfg.start \in 0..255 /\ zone.cfg.count \in 0..255
      /\ zone.cfg.color \in Colours /\ zone.cfg.color2 \in Colours
      /\ zone.cfg.speed \in 0..255
  BY <1>3 DEF Config
<1>5. speed_period(zone.cfg.speed) \in Nat \ {0}
  BY <1>4, PeriodPositive
<1>6. \A k \in 0..255 : k \in Nat
  OBVIOUS
<1>7. zone.cfg.start \in Nat /\ zone.cfg.count \in Nat
  BY <1>4, <1>6
<1>8. zone.cfg.color \in Colours /\ zone.cfg.color2 \in Colours
  BY <1>4
<1> QED
  BY <1>1, <1>2, <1>5, <1>7, <1>8

\* Every effect gives each pixel of the zone a colour.
LEMMA ZoneColorsTyped ==
    ASSUME NEW zone \in ActiveZone, zone.cfg.count # 0,
           zone.cfg.effect \in Effects, zone.cfg.effect # "TWINKLE"
    PROVE  ZoneColors(zone) \subseteq [0..(zone.cfg.count - 1) -> Colours]
<1> DEFINE cfg == zone.cfg
           n == cfg.count
           I == 0..(n - 1)
           phase == zone.tick \div speed_period(cfg.speed)
           lit(S) == [i \in I |-> IF i \in S THEN cfg.color ELSE Off]
           hue(i) == ((phase + (i * Len(Hues)) \div n) % Len(Hues)) + 1
           rainbow == [i \in I |-> Hues[hue(i)]]
           chase == [i \in I |-> IF i = phase % n THEN cfg.color ELSE cfg.color2]
           pos == phase % (2 * n)
           wiped_(k) == lit({i \in I : IF k < n THEN i <= k ELSE i > k - n})
<1>1. n \in Nat \ {0} /\ cfg.color \in Colours /\ cfg.color2 \in Colours /\ Off \in Colours
  BY ZoneFields, LedAssumption
<1>2. phase \in Nat
  BY ZoneFields, Remainder
<1> HIDE DEF phase
<1>3. \A S : lit(S) \in [I -> Colours]
  BY <1>1
<1>4. chase \in [I -> Colours]
  BY <1>1
<1>5. rainbow \in [I -> Colours]
  <2>1. ASSUME NEW i \in I
        PROVE  Hues[hue(i)] \in Colours
    <3> DEFINE m == (i * Len(Hues)) \div n
               k == phase + m
    <3>1. i * Len(Hues) \in Nat
      BY <1>1, HuesTyped, Product
    <3>2. m \in Nat
      BY <1>1, <3>1, Remainder
    <3> HIDE DEF m
    <3>3. k \in Nat
      BY <1>2, <3>2
    <3> HIDE DEF k
    <3>4. k % Len(Hues) \in 0..(Len(Hues) - 1)
      BY <3>3, HuesTyped, Remainder
    <3>5. (k % Len(Hues)) + 1 \in 1..Len(Hues)
      BY <3>4, HuesTyped
    <3>6. hue(i) \in 1..Len(Hues)
      BY <3>5 DEF k, m
    <3> QED
      BY <3>6, HuesTyped
  <2> QED
    BY <2>1
<1> HIDE DEF rainbow
<1>6. ZoneColors(zone) \subseteq {lit(I), lit({}), rainbow, chase, wiped_(pos)}
  BY DEF ZoneColors, Effects, phase, rainbow
<1>7. wiped_(pos) \in [I -> Colours]
  BY <1>3
<1> HIDE DEF lit, chase, wiped_, pos
<1>8. lit(I) \in [I -> Colours] /\ lit({}) \in [I -> Colours]
  BY <1>3
<1> QED
  BY <1>4, <1>5, <1>6, <1>7, <1>8

\* Rendering a zone colours pixels of its reach and leaves all others.
LEMMA RenderZone ==
    ASSUME NEW zone \in ActiveZone, NEW strip \in Strip,
           NEW after \in render_zone(zone, strip)
    PROVE  /\ after \in Strip
           /\ \A p \in Pixel \ Reach(zone) : after[p] = strip[p]
<1> DEFINE cfg == zone.cfg
           P == PixelRange(cfg.start, cfg.count)
<1>1. /\ cfg.start \in Nat /\ cfg.count \in Nat
      /\ cfg.color \in Colours /\ cfg.color2 \in Colours
      /\ zone.active
  BY ZoneFields
<1>2. LEDS \in Nat /\ \A p \in Pixel : p \in Nat /\ p < LEDS
  BY ConstantTypes DEF Pixel
<1>3. P \subseteq Reach(zone)
  BY <1>1, <1>2 DEF Reach, Undefined, PixelRange
<1>4. CASE cfg.effect = "TWINKLE"
  <2>1. after \in Twinkled(zone, strip)
    BY <1>4 DEF render_zone
  <2>2. CASE after = strip
    BY <2>2
  <2>3. CASE after # strip
    <3> DEFINE count == IF cfg.count = 0 THEN LEDS + 1 ELSE cfg.count
    <3>1. PICK i \in 0..(count - 1), c \in {cfg.color, cfg.color2} :
             after = Painted(strip, {cfg.start + i}, c)
      BY <2>1, <2>3 DEF Twinkled
    <3>2. after \in Strip
      BY <3>1, <1>1 DEF Painted, Strip
    <3>3. \A p \in Pixel : p # cfg.start + i => after[p] = strip[p]
      BY <3>1 DEF Painted
    <3>4. cfg.start + i \in Pixel => cfg.start + i \in Reach(zone)
      BY <1>1, <1>2, <1>4 DEF Reach, Undefined, PixelRange
    <3> QED
      BY <3>2, <3>3, <3>4
  <2> QED
    BY <2>2, <2>3
<1>5. CASE cfg.effect # "TWINKLE" /\ (cfg.count = 0 \/ cfg.effect \notin Effects)
  BY <1>5 DEF render_zone
<1>6. CASE cfg.effect # "TWINKLE" /\ cfg.count # 0 /\ cfg.effect \in Effects
  <2>1. PICK color \in ZoneColors(zone) : after = ZonePainted(cfg, strip, color)
    BY <1>6 DEF render_zone
  <2>2. color \in [0..(cfg.count - 1) -> Colours]
    BY <1>6, ZoneColorsTyped
  <2>3. \A p \in P : p - cfg.start \in 0..(cfg.count - 1)
    BY <1>1, <1>2 DEF PixelRange
  <2>4. after \in Strip
    BY <2>1, <2>2, <2>3 DEF ZonePainted, Strip
  <2>5. \A p \in Pixel \ P : after[p] = strip[p]
    BY <2>1 DEF ZonePainted
  <2> QED
    BY <2>4, <2>5, <1>3
<1> QED
  BY <1>4, <1>5, <1>6

\* Counting a tick leaves the zone where it is.
LEMMA TickZone ==
    ASSUME NEW zone \in ActiveZone
    PROVE  /\ Ticked(zone) \in ActiveZone
           /\ Reach(Ticked(zone)) = Reach(zone)
           /\ Ticked(zone).cfg = zone.cfg
           /\ Ticked(zone).active
<1>1. (zone.tick + 1) % TICKS \in 0..(TICKS - 1)
  <2>1. zone.tick + 1 \in Nat /\ TICKS \in Nat \ {0}
    BY ZoneFields, ConstantTypes
  <2> DEFINE t == zone.tick + 1
  <2> HIDE DEF t
  <2>2. t % TICKS \in 0..(TICKS - 1)
    BY <2>1, Remainder DEF t
  <2> QED
    BY <2>2 DEF t
<1> DEFINE ticked == [zone EXCEPT !.tick = (@ + 1) % TICKS]
<1>2. ticked \in ActiveZone
  BY <1>1 DEF ActiveZone
<1>3. ticked.cfg = zone.cfg /\ ticked.active
  BY ZoneFields DEF ActiveZone
<1>4. Ticked(zone) \in {zone, ticked}
  BY DEF Ticked
<1> HIDE DEF ticked
<1>5. Ticked(zone) \in ActiveZone /\ Ticked(zone).cfg = zone.cfg /\ Ticked(zone).active
  BY <1>2, <1>3, <1>4, ZoneFields
<1> QED
  BY <1>5, ZoneFields DEF Reach

-----------------------------------------------------------------------------
(***************************************************************************)
(* Type correctness.                                                       *)
(***************************************************************************)
FxRecord == [pc : {"delay", "render", "flush", "wait"}, next : 0..LED_MAX_ZONES, dirty : BOOLEAN]
BtRecord == [pc : {"idle", "clear", "wait clear", "cleared", "write", "wait write"},
             zone : Zone, sent : BOOLEAN]

\* The tasks at rest, and at the places they go to from there.
LEMMA IdleTasks ==
    /\ FxIdle \in FxRecord /\ FxIdle.pc = "delay"
    /\ \A s \in {"delay", "render", "flush", "wait"} : [FxIdle EXCEPT !.pc = s] \in FxRecord
    /\ BtIdle \in BtRecord /\ BtIdle.pc = "idle"
    /\ \A s \in {"idle", "clear", "write"}, z \in Zone :
          [BtIdle EXCEPT !.pc = s, !.zone = z] \in BtRecord
    /\ \A s \in {"idle", "clear", "write"} : [BtIdle EXCEPT !.pc = s] \in BtRecord
<1>1. 0 \in Zone /\ 0 \in 0..LED_MAX_ZONES
  BY ConstantTypes DEF Zone
<1>2. FxIdle \in FxRecord /\ FxIdle.pc = "delay"
  BY <1>1 DEF FxIdle, FxRecord
<1>3. BtIdle \in BtRecord /\ BtIdle.pc = "idle"
  BY <1>1 DEF BtIdle, BtRecord
<1>4. \A s \in {"delay", "render", "flush", "wait"} : [FxIdle EXCEPT !.pc = s] \in FxRecord
  BY <1>2 DEF FxRecord
<1>5. \A s \in {"idle", "clear", "write"}, z \in Zone :
          [BtIdle EXCEPT !.pc = s, !.zone = z] \in BtRecord
  BY <1>3 DEF BtRecord
<1>6. \A s \in {"idle", "clear", "write"} : [BtIdle EXCEPT !.pc = s] \in BtRecord
  BY <1>3 DEF BtRecord
<1> QED
  BY <1>2, <1>3, <1>4, <1>5, <1>6

\* A command keeps to the bound.
LEMMA CommandCounted == TypeOK /\ Command => commands' \in 0..MAX_COMMANDS
<1> SUFFICES ASSUME TypeOK, Command PROVE commands' \in 0..MAX_COMMANDS
  OBVIOUS
<1>1. commands \in 0..MAX_COMMANDS
  BY DEF TypeOK
<1>2. commands < MAX_COMMANDS /\ commands' = commands + 1
  BY DEF Command
<1> QED
  BY <1>1, <1>2, ConstantTypes

\* The strip after neopixel_init.
LEMMA BlankTyped == Blank \in Strip
BY ConstantTypes DEF Blank, Strip

\* A strip whose pixels are set is a strip.
LEMMA PaintedTyped ==
    ASSUME NEW strip \in Strip, NEW P, NEW c \in Colours
    PROVE  Painted(strip, P, c) \in Strip
BY DEF Painted, Strip

\* A zone of the table that is active is one that was set.
LEMMA ActiveTyped ==
    ASSUME TypeOK, NEW z \in Zone, zones[z].active
    PROVE  zones[z] \in ActiveZone
<1>1. zones[z] \in {NoZone} \cup ActiveZone
  BY DEF TypeOK
<1>2. ~NoZone.active
  BY DEF NoZone
<1> QED
  BY <1>1, <1>2

\* What led_effects_set_zone puts into the table.
LEMMA NewZoneTyped ==
    ASSUME NEW cfg \in Configs
    PROVE  NewZone(cfg) \in ActiveZone
BY ConstantTypes DEF NewZone, ActiveZone

\* The steps of effects_task keep the types.
LEMMA FxTypes == TypeOK /\ FxNext => TypeOK'
<1> SUFFICES ASSUME TypeOK, FxNext PROVE TypeOK'
  OBVIOUS
<1> USE DEF Clearing
<1>1. CASE FxLock
  BY <1>1, IdleTasks DEF TypeOK, FxLock, FxRecord, FxIdle, NoTask
<1>2. CASE FxRender
  <2> DEFINE zone == zones[fx.next]
  <2>1. fx.next \in Zone /\ fx.next + 1 \in 0..LED_MAX_ZONES
    <3>1. fx.next \in 0..LED_MAX_ZONES
      BY DEF TypeOK
    <3>2. fx.next < LED_MAX_ZONES
      BY <1>2 DEF FxRender
    <3> QED
      BY <3>1, <3>2, ConstantTypes DEF Zone
  <2>2. CASE zone.active
    <3>1. zone \in ActiveZone
      BY <2>1, <2>2, ActiveTyped
    <3>2. Ticked(zone) \in ActiveZone
      BY <3>1, TickZone
    <3>3. pixels' \in render_zone(zone, pixels) /\ zones' = [zones EXCEPT ![fx.next] = Ticked(zone)]
      BY <1>2, <2>2 DEF FxRender
    <3>4. pixels' \in Strip
      BY <3>1, <3>3, RenderZone DEF TypeOK
    <3>5. zones' \in [Zone -> {NoZone} \cup ActiveZone]
      BY <3>2, <3>3, <2>1 DEF TypeOK
    <3>6. fx' \in FxRecord /\ fx'.pc = "render"
      <4> DEFINE d == fx.dirty \/ NeedsFlush(zone)
      <4>1. d \in BOOLEAN
        OBVIOUS
      <4>2. fx' = [fx EXCEPT !.next = fx.next + 1, !.dirty = d]
        BY <1>2, <2>2 DEF FxRender
      <4> HIDE DEF d
      <4>3. fx \in FxRecord /\ fx.pc = "render"
        BY <1>2 DEF TypeOK, FxRender, FxRecord
      <4> QED
        BY <2>1, <4>1, <4>2, <4>3 DEF FxRecord
    <3> QED
      BY <1>2, <3>4, <3>5, <3>6 DEF TypeOK, FxRender, FxRecord
  <2>3. CASE ~zone.active
    <3>1. fx' = [fx EXCEPT !.next = fx.next + 1] /\ UNCHANGED <<zones, pixels>>
      BY <1>2, <2>3 DEF FxRender
    <3>2. fx' \in FxRecord /\ fx'.pc = fx.pc
      BY <2>1, <3>1 DEF TypeOK, FxRecord
    <3> QED
      BY <1>2, <3>1, <3>2 DEF TypeOK, FxRender, FxRecord
  <2> QED
    BY <2>2, <2>3
<1>3. CASE FxUnlock
  BY <1>3, IdleTasks DEF TypeOK, FxUnlock, FxRecord, FxIdle, NoTask
<1>4. CASE FxFlush
  <2>1. fx' \in FxRecord /\ fx'.pc = "wait"
    BY <1>4 DEF TypeOK, FxFlush, FxRecord
  <2> QED
    BY <1>4, <2>1 DEF TypeOK, FxFlush, FxRecord, Refresh, NoTask
<1>5. CASE FxFlushFails
  BY <1>5, IdleTasks DEF TypeOK, FxFlushFails, FxRecord, NoTask
<1>6. CASE FxSent
  BY <1>6, IdleTasks, BlankTyped DEF TypeOK, FxSent, FxRecord, Sent, NoTask
<1> QED
  BY <1>1, <1>2, <1>3, <1>4, <1>5, <1>6 DEF FxNext

\* So do those of the Bluetooth task, after a command,
LEMMA BtTypes == TypeOK /\ BtNext => TypeOK'
<1> SUFFICES ASSUME TypeOK, BtNext PROVE TypeOK'
  OBVIOUS
<1> USE DEF Clearing
<1>0. bt \in BtRecord /\ bt.zone \in Zone
  BY DEF TypeOK, BtRecord
<1>1. CASE ClearFlush
  <2>1. bt' \in BtRecord /\ bt'.pc = "wait clear"
    BY <1>0, <1>1 DEF ClearFlush, BtRecord
  <2> QED
    BY <1>1, <2>1 DEF TypeOK, ClearFlush, BtRecord, Refresh, NoTask
<1>2. CASE ClearFlushFails
  <2>1. bt' \in BtRecord /\ bt'.pc = "cleared"
    BY <1>0, <1>2 DEF ClearFlushFails, BtRecord
  <2> QED
    BY <1>2, <2>1 DEF TypeOK, ClearFlushFails, BtRecord, NoTask
<1>3. CASE ClearSent
  <2>1. bt' \in BtRecord /\ bt'.pc = "cleared"
    BY <1>0, <1>3 DEF ClearSent, BtRecord
  <2> QED
    BY <1>3, <2>1, BlankTyped DEF TypeOK, ClearSent, BtRecord, Sent, NoTask
<1>4. CASE ClearDone
  <2> DEFINE zone == zones[bt.zone]
             P == PixelRange(zone.cfg.start, zone.cfg.count)
  <2>1. P \subseteq Pixel
    BY DEF PixelRange
  <2>2. wiped' \subseteq Pixel /\ dark' \subseteq Pixel
    BY <1>4, <2>1 DEF TypeOK, ClearDone
  <2>3. zones' \in [Zone -> {NoZone} \cup ActiveZone]
    BY <1>4 DEF TypeOK, ClearDone
  <2> QED
    BY <1>4, <2>2, <2>3, IdleTasks DEF TypeOK, ClearDone, BtRecord, NoTask
<1>5. CASE WriteFlush
  <2>1. bt' \in BtRecord /\ bt'.pc = "wait write"
    BY <1>0, <1>5 DEF WriteFlush, BtRecord
  <2> QED
    BY <1>5, <2>1 DEF TypeOK, WriteFlush, BtRecord, Refresh, NoTask
<1>6. CASE WriteFlushFails
  BY <1>6, IdleTasks DEF TypeOK, WriteFlushFails, BtRecord, NoTask
<1>7. CASE WriteSent
  BY <1>7, IdleTasks, BlankTyped DEF TypeOK, WriteSent, BtRecord, Sent, NoTask
<1> QED
  BY <1>1, <1>2, <1>3, <1>4, <1>5, <1>6, <1>7 DEF BtNext

\* the commands themselves,
LEMMA SetZoneTypes ==
    ASSUME TypeOK, NEW z \in Zone, NEW cfg \in Configs, led_effects_set_zone(z, cfg)
    PROVE  TypeOK'
<1>1. zones' \in [Zone -> {NoZone} \cup ActiveZone]
  BY NewZoneTyped DEF TypeOK, led_effects_set_zone
<1>2. commands' \in 0..MAX_COMMANDS
  BY CommandCounted DEF led_effects_set_zone
<1> QED
  BY <1>1, <1>2 DEF TypeOK, led_effects_set_zone, Lighted, Clearing

\* where the mutex of led_effects_clear_zone is taken by nobody else,
LEMMA ClearZoneTypes ==
    ASSUME TypeOK, NEW z \in Zone, led_effects_clear_zone(z)
    PROVE  TypeOK'
<1>1. pixels' \in Strip
  BY ConstantTypes, PaintedTyped DEF TypeOK, led_effects_clear_zone, Cleared
<1>2. commands' \in 0..MAX_COMMANDS
  BY CommandCounted DEF led_effects_clear_zone
<1>3. bt' \in BtRecord /\ bt'.pc = "clear"
  BY IdleTasks DEF led_effects_clear_zone, BtIdle
<1> QED
  BY <1>1, <1>2, <1>3 DEF TypeOK, led_effects_clear_zone, Command, Clearing, BtRecord, NoTask

\* and nobody else sends for the task that writes,
LEMMA DirectWriteTypes ==
    ASSUME TypeOK, NEW w \in Writes, DirectWrite(w)
    PROVE  TypeOK'
<1>1. w.color \in Colours
  BY LedAssumption
<1>2. pixels' \in Strip
  BY <1>1, PaintedTyped DEF TypeOK, DirectWrite
<1>3. commands' \in 0..MAX_COMMANDS
  BY CommandCounted DEF DirectWrite
<1>4. bt' \in BtRecord /\ bt'.pc = "write"
  BY IdleTasks DEF DirectWrite, BtIdle
<1> QED
  BY <1>2, <1>3, <1>4 DEF TypeOK, DirectWrite, Command, Lighted, Clearing, BtRecord, NoTask

\* and a restart.
LEMMA RestartTypes == TypeOK /\ Restart => TypeOK'
<1> SUFFICES ASSUME TypeOK, Restart PROVE TypeOK'
  OBVIOUS
<1>1. zones' \in [Zone -> {NoZone} \cup ActiveZone]
  BY DEF Restart
<1> QED
  BY <1>1, IdleTasks, BlankTyped DEF TypeOK, Restart, Clearing, FxRecord, BtRecord, NoTask

-----------------------------------------------------------------------------
(***************************************************************************)
(* What a clear wiped stays off.                                           *)
(***************************************************************************)
OffInv == ClearInv /\ WipedStaysOff /\ DarkInv

\* The pixels that are held to be off are pixels of the strip.
LEMMA Pixels == TypeOK => wiped \subseteq Pixel /\ dark \subseteq Pixel
BY DEF TypeOK

\* Nothing but the tasks' places and the mutex changes.
LEMMA QuietKeepsOff ==
    ASSUME OffInv, bt' = bt \/ ~Clearing',
           UNCHANGED <<zones, pixels, channel, sending, shown, wiped, dark>>
    PROVE  OffInv'
<1>1. (WipedStaysOff /\ DarkInv)'
  BY DEF OffInv, WipedStaysOff, DarkInv, Covered, ShowsOff
<1>2. ClearInv'
  BY DEF OffInv, ClearInv, Clearing, ShowsOff
<1> QED
  BY <1>1, <1>2 DEF OffInv

\* effects_task does not render while a zone is being cleared, and never
\* outside the reach of a zone.
LEMMA RenderKeepsOff ==
    ASSUME TypeOK, OffInv, FxRender
    PROVE  OffInv'
<1> DEFINE zone == zones[fx.next]
<1>1. ~Clearing /\ ~Clearing'
  BY DEF TypeOK, FxRender, Clearing
<1>2. fx.next \in Zone
  <2>1. fx.next \in 0..LED_MAX_ZONES
    BY DEF TypeOK
  <2>2. fx.next < LED_MAX_ZONES
    BY DEF FxRender
  <2> QED
    BY <2>1, <2>2, ConstantTypes DEF Zone
<1>3. CASE zone.active
  <2>1. zone \in ActiveZone
    BY <1>2, <1>3, ActiveTyped
  <2>2. pixels' \in render_zone(zone, pixels) /\ zones' = [zones EXCEPT ![fx.next] = Ticked(zone)]
    BY <1>3 DEF FxRender
  <2>3. pixels \in Strip /\ zones \in [Zone -> {NoZone} \cup ActiveZone]
    BY DEF TypeOK
  <2>4. \A p \in Pixel \ Reach(zone) : pixels'[p] = pixels[p]
    BY <2>1, <2>2, <2>3, RenderZone
  <2>5. Reach(Ticked(zone)) = Reach(zone)
    BY <2>1, TickZone
  <2>6. \A z \in Zone : Reach(zones'[z]) = Reach(zones[z])
    BY <2>2, <2>3, <2>5
  <2>7. \A p \in Pixel : Covered(p)' <=> Covered(p)
    BY <2>6 DEF Covered
  <2>8. \A p \in Pixel : ~Covered(p) => pixels'[p] = pixels[p]
    BY <1>2, <2>4 DEF Covered
  <2>9. UNCHANGED <<channel, sending, shown, wiped, dark>>
    BY DEF FxRender
  <2>10. WipedStaysOff'
    BY <2>7, <2>8, <2>9, Pixels DEF OffInv, WipedStaysOff
  <2>11. DarkInv'
    BY <2>7, <2>8, <2>9, Pixels DEF OffInv, DarkInv, ShowsOff
  <2> QED
    BY <1>1, <2>10, <2>11 DEF OffInv, ClearInv
<1>4. CASE ~zone.active
  <2>1. UNCHANGED <<zones, pixels, channel, sending, shown, bt, wiped, dark>>
    BY <1>4 DEF FxRender
  <2> QED
    BY <2>1, QuietKeepsOff
<1> QED
  BY <1>3, <1>4

\* A flush that begins sends what is off in the buffer as off.
LEMMA RefreshKeepsOff ==
    ASSUME TypeOK, OffInv, NEW task \in {"fx", "bt"}, Refresh(task),
           bt'.zone = bt.zone, bt'.sent = bt.sent, Clearing' => Clearing,
           UNCHANGED <<zones, pixels, shown, wiped, dark>>
    PROVE  OffInv'
<1>1. channel = NoTask /\ sending' = pixels
  BY DEF Refresh
<1>2. WipedStaysOff'
  BY DEF OffInv, WipedStaysOff, Covered
<1>3. DarkInv'
  BY <1>1 DEF OffInv, DarkInv, Covered, ShowsOff
<1>4. ClearInv'
  BY <1>1 DEF OffInv, ClearInv, ShowsOff
<1> QED
  BY <1>2, <1>3, <1>4 DEF OffInv

\* A flush that ends shows as off what is off in the buffer and was sent as off.
LEMMA SentKeepsOff ==
    ASSUME TypeOK, OffInv, channel # NoTask, Sent,
           UNCHANGED <<zones, pixels, wiped, dark>>
    PROVE  /\ channel' = NoTask
           /\ \A p \in Pixel : pixels[p] = Off /\ sending[p] = Off => shown'[p] = Off
           /\ WipedStaysOff' /\ DarkInv'
<1>1. channel' = NoTask /\ \A p \in Pixel : shown'[p] \in {sending[p], pixels[p]}
  BY DEF Sent
<1>2. WipedStaysOff'
  BY DEF OffInv, WipedStaysOff, Covered
<1>3. DarkInv'
  <2>1. \A p : Covered(p)' <=> Covered(p)
    BY DEF Covered
  <2>2. ASSUME NEW p \in dark, ~Covered(p)
        PROVE  pixels[p] = Off /\ shown'[p] = Off
    <3>1. p \in Pixel
      BY Pixels
    <3>2. pixels[p] = Off /\ sending[p] = Off
      BY <2>2 DEF OffInv, DarkInv, ShowsOff
    <3> QED
      BY <1>1, <3>1, <3>2
  <2>3. \A p \in dark' : ~Covered(p)' => pixels'[p] = Off /\ ShowsOff(p)'
    BY <1>1, <2>1, <2>2 DEF ShowsOff
  <2> QED
    BY <2>3 DEF DarkInv
<1> QED
  BY <1>1, <1>2, <1>3

\* So it does for the pixels of the zone that is being cleared.
LEMMA SentKeepsClear ==
    ASSUME TypeOK, OffInv, channel # NoTask, Sent, Clearing,
           bt.pc = "wait clear" \/ bt.sent,
           UNCHANGED <<zones, pixels, wiped, dark>>,
           bt'.zone = bt.zone, bt'.pc # "wait clear"
    PROVE  ClearInv'
<1> DEFINE P == PixelRange(zones[bt.zone].cfg.start, zones[bt.zone].cfg.count)
<1>1. zones[bt.zone].active /\ \A p \in P : pixels[p] = Off /\ sending[p] = Off
  BY DEF OffInv, ClearInv, ShowsOff
<1>2. P \subseteq Pixel
  BY DEF PixelRange
<1>3. P' = P
  BY DEF PixelRange
<1>4. \A p \in P : shown'[p] = Off
  BY <1>1, <1>2, SentKeepsOff
<1>5. channel' = NoTask
  BY SentKeepsOff
<1> QED
  BY <1>1, <1>4, <1>5 DEF ClearInv, ShowsOff

\* The steps of effects_task.
LEMMA FxKeepsOff == TypeOK /\ OffInv /\ FxNext => OffInv'
<1> SUFFICES ASSUME TypeOK, OffInv, FxNext PROVE OffInv'
  OBVIOUS
<1>1. CASE FxLock \/ FxUnlock \/ FxFlushFails
  <2>1. UNCHANGED <<zones, pixels, channel, sending, shown, bt, wiped, dark>>
    BY <1>1 DEF FxLock, FxUnlock, FxFlushFails
  <2> QED
    BY <2>1, QuietKeepsOff
<1>2. CASE FxRender
  BY <1>2, RenderKeepsOff
<1>3. CASE FxFlush
  <2>1. Refresh("fx") /\ UNCHANGED <<zones, pixels, shown, bt, wiped, dark>>
    BY <1>3 DEF FxFlush
  <2>2. Clearing' => Clearing
    BY <2>1 DEF Clearing
  <2> QED
    BY <2>1, <2>2, RefreshKeepsOff
<1>4. CASE FxSent
  <2>1. Sent /\ UNCHANGED <<zones, pixels, bt, wiped, dark>>
    BY <1>4 DEF FxSent
  <2>2. channel = "fx" /\ bt.pc # "wait clear"
    BY <1>4 DEF FxSent, TypeOK
  <2>3. channel # NoTask
    BY <2>2 DEF NoTask
  <2>4. WipedStaysOff' /\ DarkInv' /\ channel' = NoTask
    BY <2>1, <2>3, SentKeepsOff
  <2>5. CASE ~Clearing
    BY <2>1, <2>4, <2>5 DEF OffInv, ClearInv, Clearing
  <2>6. CASE Clearing /\ bt.sent
    <3>1. ClearInv'
      BY <2>1, <2>2, <2>3, <2>6, SentKeepsClear
    <3> QED
      BY <2>4, <3>1 DEF OffInv
  <2>7. CASE Clearing /\ ~bt.sent
    <3>1. bt'.sent = bt.sent /\ bt'.pc # "wait clear" /\ bt'.zone = bt.zone
      BY <2>1, <2>2
    <3>2. ClearInv'
      BY <2>1, <2>7, <3>1 DEF OffInv, ClearInv
    <3> QED
      BY <2>4, <3>2 DEF OffInv
  <2> QED
    BY <2>5, <2>6, <2>7
<1> QED
  BY <1>1, <1>2, <1>3, <1>4 DEF FxNext

\* The zone is removed: its pixels, which are off, are wiped.
LEMMA ClearDoneKeepsOff ==
    ASSUME TypeOK, OffInv, ClearDone
    PROVE  OffInv'
<1> DEFINE zone == zones[bt.zone]
           P == PixelRange(zone.cfg.start, zone.cfg.count)
<1>1. Clearing /\ bt.zone \in Zone /\ zones \in [Zone -> {NoZone} \cup ActiveZone]
  BY DEF ClearDone, Clearing, TypeOK
<1>2. /\ wiped' = (wiped \ Reach(zone)) \cup P
      /\ dark' = (dark \ Reach(zone)) \cup (IF bt.sent THEN P ELSE {})
      /\ zones' = [zones EXCEPT ![bt.zone] = NoZone]
      /\ bt' = BtIdle
      /\ UNCHANGED <<pixels, channel, sending, shown>>
  BY DEF ClearDone
<1>3. \A p \in P : pixels[p] = Off /\ (bt.sent => ShowsOff(p))
  BY <1>1 DEF OffInv, ClearInv
<1>4. \A p : Covered(p) /\ p \notin Reach(zone) => Covered(p)'
  BY <1>1, <1>2 DEF Covered
<1>5. \A p : ShowsOff(p)' <=> ShowsOff(p)
  BY <1>2 DEF ShowsOff
<1> HIDE DEF P
<1>6. WipedStaysOff'
  BY <1>2, <1>3, <1>4 DEF OffInv, WipedStaysOff
<1>7. DarkInv'
  BY <1>2, <1>3, <1>4, <1>5 DEF OffInv, DarkInv
<1>8. ~Clearing'
  BY <1>2, IdleTasks DEF Clearing
<1> QED
  BY <1>6, <1>7, <1>8 DEF OffInv, ClearInv

\* The steps of the Bluetooth task after a command.
LEMMA BtKeepsOff == TypeOK /\ OffInv /\ BtNext => OffInv'
<1> SUFFICES ASSUME TypeOK, OffInv, BtNext PROVE OffInv'
  OBVIOUS
<1>0. bt \in BtRecord
  BY DEF TypeOK, BtRecord
<1>1. CASE ClearFlush
  <2>1. /\ Refresh("bt")
        /\ UNCHANGED <<zones, pixels, shown, wiped, dark>>
        /\ bt' = [bt EXCEPT !.pc = "wait clear"] /\ bt.pc = "clear"
    BY <1>1 DEF ClearFlush
  <2>2. bt'.zone = bt.zone /\ bt'.sent = bt.sent /\ Clearing
    BY <1>0, <2>1 DEF BtRecord, Clearing
  <2> QED
    BY <2>1, <2>2, RefreshKeepsOff
<1>2. CASE ClearFlushFails
  <2>1. /\ UNCHANGED <<zones, pixels, channel, sending, shown, wiped, dark>>
        /\ bt' = [bt EXCEPT !.pc = "cleared"] /\ bt.pc = "clear"
    BY <1>2 DEF ClearFlushFails
  <2>2. /\ bt'.zone = bt.zone /\ bt'.sent = bt.sent /\ Clearing
        /\ bt'.pc = "cleared"
    BY <1>0, <2>1 DEF BtRecord, Clearing
  <2>3. ClearInv'
    BY <2>1, <2>2 DEF OffInv, ClearInv, ShowsOff
  <2> QED
    BY <2>1, <2>3 DEF OffInv, WipedStaysOff, DarkInv, Covered, ShowsOff
<1>3. CASE ClearSent
  <2>1. /\ Sent
        /\ UNCHANGED <<zones, pixels, wiped, dark>>
        /\ bt.pc = "wait clear" /\ bt' = [bt EXCEPT !.pc = "cleared", !.sent = TRUE]
    BY <1>3 DEF ClearSent
  <2>2. channel # NoTask
    BY <2>1 DEF TypeOK, NoTask
  <2>3. bt'.pc = "cleared" /\ bt'.zone = bt.zone /\ Clearing
    BY <1>0, <2>1 DEF BtRecord, Clearing
  <2>4. ClearInv'
    BY <2>1, <2>2, <2>3, SentKeepsClear
  <2> QED
    BY <2>1, <2>2, <2>4, SentKeepsOff DEF OffInv
<1>4. CASE ClearDone
  BY <1>4, ClearDoneKeepsOff
<1>5. CASE WriteFlush
  <2>1. /\ Refresh("bt")
        /\ UNCHANGED <<zones, pixels, shown, wiped, dark>>
        /\ bt' = [bt EXCEPT !.pc = "wait write"]
    BY <1>5 DEF WriteFlush
  <2>2. bt'.zone = bt.zone /\ bt'.sent = bt.sent /\ ~Clearing'
    BY <1>0, <2>1 DEF BtRecord, Clearing
  <2> QED
    BY <2>1, <2>2, RefreshKeepsOff
<1>6. CASE WriteFlushFails
  <2>1. /\ UNCHANGED <<zones, pixels, channel, sending, shown, wiped, dark>>
        /\ ~Clearing'
    BY <1>6, IdleTasks DEF WriteFlushFails, Clearing
  <2> QED
    BY <2>1, QuietKeepsOff
<1>7. CASE WriteSent
  <2>1. Sent /\ UNCHANGED <<zones, pixels, wiped, dark>> /\ ~Clearing'
    BY <1>7, IdleTasks DEF WriteSent, Clearing
  <2>2. channel # NoTask
    BY <1>7 DEF WriteSent, TypeOK, NoTask
  <2> QED
    BY <2>1, <2>2, SentKeepsOff DEF OffInv, ClearInv
<1> QED
  BY <1>1, <1>2, <1>3, <1>4, <1>5, <1>6, <1>7 DEF BtNext

\* A zone is set: what it may light, and what the zone it replaces may have
\* lit, is no longer held to be off.
LEMMA SetZoneKeepsOff ==
    ASSUME TypeOK, OffInv, NEW z \in Zone, NEW cfg \in Configs, led_effects_set_zone(z, cfg)
    PROVE  OffInv'
<1> DEFINE P == Reach(zones[z]) \cup Reach(NewZone(cfg))
<1>1. /\ zones' = [zones EXCEPT ![z] = NewZone(cfg)]
      /\ wiped' = wiped \ P /\ dark' = dark \ P
      /\ UNCHANGED <<pixels, channel, sending, shown, bt>>
  BY DEF led_effects_set_zone, Lighted
<1>2. zones \in [Zone -> {NoZone} \cup ActiveZone]
  BY DEF TypeOK
<1>3. \A y \in Zone : y # z => zones'[y] = zones[y]
  BY <1>1, <1>2
<1>4. \A p : Covered(p) /\ p \notin P => Covered(p)'
  BY <1>3 DEF Covered
<1>5. \A p : ShowsOff(p)' <=> ShowsOff(p)
  BY <1>1 DEF ShowsOff
<1>6. ~Clearing'
  BY DEF led_effects_set_zone, Command, Clearing
<1> HIDE DEF P
<1>7. WipedStaysOff'
  BY <1>1, <1>4 DEF OffInv, WipedStaysOff
<1>8. DarkInv'
  BY <1>1, <1>4, <1>5 DEF OffInv, DarkInv
<1> QED
  BY <1>6, <1>7, <1>8 DEF OffInv, ClearInv

\* The clearing of a zone begins: its pixels are off in the buffer.
LEMMA ClearZoneKeepsOff ==
    ASSUME TypeOK, OffInv, NEW z \in Zone, led_effects_clear_zone(z)
    PROVE  OffInv'
<1> DEFINE P == PixelRange(zones[z].cfg.start, zones[z].cfg.count)
<1>1. /\ zones[z].active /\ pixels' = Painted(pixels, P, Off)
      /\ UNCHANGED <<zones, channel, sending, shown, wiped, dark>>
  BY DEF led_effects_clear_zone, Cleared
<1>2. bt'.pc = "clear" /\ bt'.zone = z /\ bt'.sent = FALSE
  BY DEF led_effects_clear_zone, BtIdle
<1>3. P \subseteq Pixel
  BY DEF PixelRange
<1>4. \A p \in Pixel : pixels[p] = Off \/ p \in P => pixels'[p] = Off
  BY <1>1 DEF Painted
<1>5. \A p : Covered(p)' <=> Covered(p)
  BY <1>1 DEF Covered
<1>6. \A p : ShowsOff(p)' <=> ShowsOff(p)
  BY <1>1 DEF ShowsOff
<1>7. ClearInv'
  <2>1. zones'[bt'.zone] = zones[z]
    BY <1>1, <1>2
  <2>2. PixelRange(zones[bt.zone].cfg.start, zones[bt.zone].cfg.count)' = P
    BY <1>1, <1>2 DEF PixelRange
  <2> QED
    BY <1>1, <1>2, <1>3, <1>4, <2>1, <2>2 DEF ClearInv
<1>8. WipedStaysOff'
  BY <1>1, <1>4, <1>5, Pixels DEF OffInv, WipedStaysOff
<1>9. DarkInv'
  BY <1>1, <1>4, <1>5, <1>6, Pixels DEF OffInv, DarkInv
<1> QED
  BY <1>7, <1>8, <1>9 DEF OffInv

\* Pixels are written directly, and no longer held to be off.
LEMMA DirectWriteKeepsOff ==
    ASSUME TypeOK, OffInv, NEW w \in Writes, DirectWrite(w)
    PROVE  OffInv'
<1> DEFINE P == PixelRange(w.first, w.count)
<1>1. /\ pixels' = Painted(pixels, P, w.color)
      /\ wiped' = wiped \ P /\ dark' = dark \ P
      /\ UNCHANGED <<zones, channel, sending, shown>>
  BY DEF DirectWrite, Lighted
<1>2. \A p \in Pixel \ P : pixels'[p] = pixels[p]
  BY <1>1 DEF Painted
<1>3. \A p : Covered(p)' <=> Covered(p)
  BY <1>1 DEF Covered
<1>4. \A p : ShowsOff(p)' <=> ShowsOff(p)
  BY <1>1 DEF ShowsOff
<1>5. ~Clearing'
  BY IdleTasks DEF DirectWrite, BtIdle, Clearing
<1> HIDE DEF P
<1>6. WipedStaysOff'
  BY <1>1, <1>2, <1>3, Pixels DEF OffInv, WipedStaysOff
<1>7. DarkInv'
  BY <1>1, <1>2, <1>3, <1>4, Pixels DEF OffInv, DarkInv
<1> QED
  BY <1>5, <1>6, <1>7 DEF OffInv, ClearInv

\* After a restart nothing is held to be off.
LEMMA RestartKeepsOff == Restart => OffInv'
<1> SUFFICES ASSUME Restart PROVE OffInv'
  OBVIOUS
<1>1. ~Clearing' /\ wiped' = {} /\ dark' = {}
  BY IdleTasks DEF Restart, Clearing
<1> QED
  BY <1>1 DEF OffInv, ClearInv, WipedStaysOff, DarkInv

-----------------------------------------------------------------------------
(***************************************************************************)
(* The theorems.                                                           *)
(***************************************************************************)
\* The strip, the zones and the tasks begin in the invariant.
LEMMA InitLedIInv == Init => LedIInv
<1> SUFFICES ASSUME Init PROVE LedIInv
  OBVIOUS
<1>1. TypeOK
  <2>1. zones \in [Zone -> {NoZone} \cup ActiveZone]
    BY DEF Init
  <2>2. commands \in 0..MAX_COMMANDS
    BY ConstantTypes DEF Init
  <2> QED
    BY <2>1, <2>2, IdleTasks, BlankTyped DEF TypeOK, Init, Clearing, FxRecord, BtRecord, NoTask
<1>2. ~Clearing /\ wiped = {} /\ dark = {}
  BY IdleTasks DEF Init, Clearing
<1> QED
  BY <1>1, <1>2 DEF LedIInv, ClearInv, WipedStaysOff, DarkInv

\* Every step keeps the invariant.
LEMMA NextLedIInv == LedIInv /\ [Next]_vars => LedIInv'
<1> SUFFICES ASSUME TypeOK, OffInv, [Next]_vars PROVE TypeOK' /\ OffInv'
  BY DEF LedIInv, OffInv
<1>1. CASE FxNext
  BY <1>1, FxTypes, FxKeepsOff
<1>2. CASE BtNext
  BY <1>2, BtTypes, BtKeepsOff
<1>3. ASSUME NEW z \in Zone, NEW cfg \in Configs, led_effects_set_zone(z, cfg)
      PROVE  TypeOK' /\ OffInv'
  BY <1>3, SetZoneTypes, SetZoneKeepsOff
<1>4. ASSUME NEW z \in Zone, led_effects_clear_zone(z)
      PROVE  TypeOK' /\ OffInv'
  BY <1>4, ClearZoneTypes, ClearZoneKeepsOff
<1>5. ASSUME NEW w \in Writes, DirectWrite(w)
      PROVE  TypeOK' /\ OffInv'
  BY <1>5, DirectWriteTypes, DirectWriteKeepsOff
<1>6. CASE FxTrap \/ Restart
  BY <1>6, RestartTypes, RestartKeepsOff DEF FxTrap
<1>7. CASE UNCHANGED vars
  <2>1. TypeOK'
    BY <1>7 DEF vars, TypeOK, Clearing
  <2>2. OffInv'
    BY <1>7, QuietKeepsOff DEF vars
  <2> QED
    BY <2>1, <2>2
<1> QED
  BY <1>1, <1>2, <1>3, <1>4, <1>5, <1>6, <1>7 DEF Next

\* At every moment s_mutex and the RMT channel have the one holder whose place
\* in the code says so, and while led_effects_clear_zone runs, the pixels of its zone
\* are off in the buffer and in whatever of the buffer is sent after its flush.
THEOREM LedInvariant == Spec => []LedIInv
<1>1. Init => LedIInv
  BY InitLedIInv
<1>2. LedIInv /\ [Next]_vars => LedIInv'
  BY NextLedIInv
<1> QED
  BY <1>1, <1>2, PTL DEF Spec

\* A pixel that a clear wiped stays off in the buffer until a zone or a command
\* lights it: effects_task never brings back a zone that was cleared.
THEOREM WipedSafe == Spec => []WipedStaysOff
<1>1. LedIInv => WipedStaysOff
  BY DEF LedIInv
<1> QED
  BY <1>1, LedInvariant, PTL

\* A pixel that a clear has flushed stays dark on the strip, even when
\* effects_task had begun, or was about to begin, a flush of its own.
THEOREM DarkSafe == Spec => []DarkStaysOff
<1>1. LedIInv => DarkStaysOff
  BY DEF LedIInv, DarkInv, DarkStaysOff, ShowsOff
<1> QED
  BY <1>1, LedInvariant, PTL
=============================================================================
