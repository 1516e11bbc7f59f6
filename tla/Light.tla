------------------------------- MODULE Light -------------------------------
(* The light HAL (light/Light.cpp): three users share one white LED, the      *)
(* first of them in a fixed order that wants light has it, and a blinking LED *)
(* is given a ramp that has to fit the time it is on.                         *)
(*                                                                            *)
(* setLight holds mLock for the whole call and the service has one binder     *)
(* thread: a call is one action.  Writes to the LED's files succeed.          *)
EXTENDS Integers, Sequences

CONSTANTS
  LightStates,       \* [color : [a, r, g, b], timed, on, off]
  PanelMax           \* contents of max_brightness, -1 when it cannot be read

\* A colour has 8 bits a channel.
ASSUME LightAssumption ==
  /\ LightStates \subseteq [color : [a : 0..255, r : 0..255, g : 0..255, b : 0..255],
                            timed : BOOLEAN, on : Nat, off : Nat]
  /\ PanelMax \in Int

VARIABLES
  mLightStates,      \* of the three users, from 0
  lightKnown,        \* users that have called since the service started
  whiteLed,          \* files under /sys/class/leds/white
  panel              \* brightness of panel0-backlight
lightVars == <<mLightStates, lightKnown, whiteLed, panel>>

kDefaultMaxBrightness == 255
kRampSteps == 8
kRampMaxStepDurationMs == 50

rgbToBrightness(c) == (77 * c.r + 150 * c.g + 29 * c.b) \div 256
\* Alpha is the brightness the user has chosen.
getBrightness(c) ==
  LET scaled(x) == IF c.a = 255 THEN x ELSE (x * c.a) \div 255
  IN  (77 * scaled(c.r) + 150 * scaled(c.g) + 29 * scaled(c.b)) \div 256

Lit(s) == s.color.r # 0 \/ s.color.g # 0 \/ s.color.b # 0
\* The last user that wants light.
Bug_stateToUse(states) ==
  LET lit == {i \in 0..2 : Lit(states[i])}
  IN  IF lit = {} THEN states[0] ELSE states[CHOOSE i \in lit : \A j \in lit : i >= j]
\* The first user that wants light, the front one if none does.
stateToUse(states) ==
  LET lit == {i \in 0..2 : Lit(states[i])}
  IN  IF lit = {} THEN states[0] ELSE states[CHOOSE i \in lit : \A j \in lit : i <= j]
getScaledDutyPercent(brightness) ==
  [i \in 1..kRampSteps + 1 |->
     ((i - 1) * 100 * brightness) \div (kDefaultMaxBrightness * kRampSteps)]

\* The files after the writes for state s; files that are not written keep
\* their contents.
Written(led, s) ==
  LET level == getBrightness(s.color)
      fits == s.on - kRampMaxStepDurationMs * kRampSteps * 2 >= 0
  IN  IF ~s.timed THEN [led EXCEPT !.blink = 0, !.brightness = level]
      ELSE [led EXCEPT
              !.blink = 1, !.start_idx = 0, !.duty_pcts = getScaledDutyPercent(level),
              !.pause_lo = s.off,
              !.pause_hi = IF fits THEN s.on - kRampMaxStepDurationMs * kRampSteps * 2 ELSE 0,
              !.ramp_step_ms = IF fits THEN kRampMaxStepDurationMs
                               ELSE s.on \div (kRampSteps * 2)]
\* mLightStates is not initialised by the constructor: it holds anything.
LightInit ==
  /\ mLightStates \in [0..2 -> LightStates]
  /\ lightKnown = {}
  /\ whiteLed = [blink |-> 0, brightness |-> 0, start_idx |-> 0, duty_pcts |-> <<>>,
                 pause_lo |-> 0, pause_hi |-> 0, ramp_step_ms |-> 0]
  /\ panel = 0

handleWhiteLed(s, index) ==
  /\ mLightStates' = [mLightStates EXCEPT ![index] = s]
  /\ lightKnown' = lightKnown \cup {index}
  /\ whiteLed' = Written(whiteLed, stateToUse(mLightStates'))
  /\ UNCHANGED panel
handleBacklight(s) ==
  LET max == IF PanelMax < 0 THEN kDefaultMaxBrightness ELSE PanelMax
  IN  /\ panel' = (rgbToBrightness(s.color) * max) \div kDefaultMaxBrightness
      /\ UNCHANGED <<mLightStates, lightKnown, whiteLed>>

\* ATTENTION, NOTIFICATIONS, BATTERY in the order of their claim to the LED.
LightIndex == [ATTENTION |-> 0, NOTIFICATIONS |-> 1, BATTERY |-> 2]
setLight ==
  \E s \in LightStates :
    \/ \E type \in DOMAIN LightIndex : handleWhiteLed(s, LightIndex[type])
    \/ handleBacklight(s)
    \/ UNCHANGED lightVars     \* LIGHT_NOT_SUPPORTED
LightSpec == LightInit /\ [][setLight]_lightVars
-----------------------------------------------------------------------------
Shows(led, s) ==
  LET level == getBrightness(s.color)
  IN  /\ led.blink = (IF s.timed THEN 1 ELSE 0)
      /\ IF s.timed THEN led.duty_pcts[kRampSteps + 1] = (100 * level) \div 255
                         /\ led.pause_lo = s.off
                    ELSE led.brightness = level

\* The LED shows the request of the first user that wants light, and is dark
\* when none does, whatever the order of the calls: a request that ends gives
\* the LED back to the one it had covered.  The users that have not called yet
\* are left out, provided that their uninitialised state happens to be dark.
LedShowsFirstClaim ==
  /\ lightKnown = 0..2 /\ (\A i \in 0..2 : ~Lit(mLightStates[i])) =>
       IF whiteLed.blink = 1 THEN \A i \in 1..kRampSteps + 1 : whiteLed.duty_pcts[i] = 0
       ELSE whiteLed.brightness = 0
  /\ \A i \in lightKnown :
       (Lit(mLightStates[i]) /\ \A j \in 0..i - 1 : ~Lit(mLightStates[j])) =>
         Shows(whiteLed, mLightStates[i])

\* One flash, ramps included, takes no longer than flashOnMs, and exactly that
\* when the ramp has its full length; no duty is above 100 % and the ramp only
\* rises.
FlashFits ==
  whiteLed.blink = 1 =>
    LET shown == {i \in 0..2 : mLightStates[i] = stateToUse(mLightStates)}
        on == mLightStates[CHOOSE i \in shown : TRUE].on
        flash == 2 * kRampSteps * whiteLed.ramp_step_ms + whiteLed.pause_hi
        duty == whiteLed.duty_pcts
    IN  /\ flash <= on
        /\ whiteLed.ramp_step_ms = kRampMaxStepDurationMs => flash = on
        /\ \A i \in 1..kRampSteps : duty[i] <= duty[i + 1]
        /\ duty[kRampSteps + 1] <= 100

\* The LED shows the right request, and can show it: both of the above.
LedServesUsers == LedShowsFirstClaim /\ FlashFits
=============================================================================
