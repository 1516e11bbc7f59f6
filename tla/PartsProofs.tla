---------------------------- MODULE PartsProofs ----------------------------
(***************************************************************************)
(* Proofs about the small parts. Of the device: double tap to wake is      *)
(* switched on the touch screen alone, the white LED serves the right      *)
(* user, video buffers hold their pictures, for frames of any size. Of     *)
(* json-c: for every number of threads and every set of seeds, all names   *)
(* are hashed with one seed; for pieces of every length, a printed text is *)
(* whole, terminated and inside its buffer; for texts of every length, cut *)
(* into pieces of any size, a turn of the parser leaves the levels of the  *)
(* document agreeing with what was read; what a file gives back is the     *)
(* value saved. Of rmnetcli: every run ends clean, whatever the words are, *)
(* however many arguments follow and whatever errors the system has.       *)
(***************************************************************************)
EXTENDS MediaInfo, Light, TouchWake, JsonSeed, JsonPrintbuf, JsonTokener, JsonFile, RmnetCli, TLAPS

-----------------------------------------------------------------------------
(* TouchWake and Light.                                                    *)

\* Entry p of the directory is a touch screen that opens.
IsTouch(p) == dtDir[p].chr /\ dtDir[p].opens /\ dtDir[p].name \in TouchNames

\* The first of them.
FirstTouch(p) == p \in 1 .. Len(dtDir) /\ IsTouch(p) /\ \A q \in 1 .. p - 1 : ~IsTouch(q)

\* While the directory is read nothing of it stays open, and what has been
\* read is no touch screen; then the first one is open until its event is
\* written.
TouchInv ==
  /\ dtDir \in InputDirs
  /\ dtPos \in 0 .. Len(dtDir) /\ dtPc \in {"idle", "scan", "found", "none"}
  /\ dtPc = "found" => FirstTouch(dtFd) /\ dtOpen = {dtFd}
  /\ dtPc # "found" => dtOpen = {}
  /\ dtPc = "scan" => \A q \in 1 .. dtPos : ~IsTouch(q)
  /\ dtEvents \in Seq([to : 1 .. Len(dtDir), value : Int])
  /\ \A i \in DOMAIN dtEvents : FirstTouch(dtEvents[i].to)

\* Every step of a call keeps it.
LEMMA TouchKept == ASSUME TouchInv, [TouchNext]_touchVars PROVE TouchInv'
<1> USE DEF TouchInv, FirstTouch, IsTouch
<1>0. Len(dtDir) \in Nat /\ \A p \in 1 .. Len(dtDir) : dtDir[p].chr \in BOOLEAN
                                                      /\ dtDir[p].opens \in BOOLEAN
  <2> DEFINE E == [chr : BOOLEAN, name : STRING, opens : BOOLEAN]
  <2>1. dtDir \in Seq(E) /\ \A e \in E : e.chr \in BOOLEAN /\ e.opens \in BOOLEAN
    BY TouchAssumption
  <2> HIDE DEF E
  <2>2. Len(dtDir) \in Nat /\ \A p \in 1 .. Len(dtDir) : dtDir[p] \in E
    BY <2>1
  <2> QED BY <2>1, <2>2
<1>1. CASE setDeviceSpecificMode
  BY <1>0, <1>1 DEF setDeviceSpecificMode
<1>2. CASE ReadEntry
  <2> DEFINE p == dtPos + 1
  <2>1. p \in 1 .. Len(dtDir) /\ dtPos' = p /\ dtPc = "scan" /\ UNCHANGED <<dtDir, dtEvents>>
    BY <1>0, <1>2 DEF ReadEntry
  <2>2. CASE IsTouch(p)
    <3>1. dtPc' = "found" /\ dtFd' = p /\ dtOpen' = {p}
      BY <1>2, <2>2 DEF ReadEntry
    <3>2. \A q \in 1 .. p - 1 : ~IsTouch(q)
      BY <1>0, <2>1
    <3> QED BY <1>0, <2>1, <2>2, <3>1, <3>2
  <2>3. CASE ~IsTouch(p)
    <3>1. dtPc' = "scan" /\ dtOpen' = {}
      BY <1>2, <2>1, <2>3 DEF ReadEntry
    <3>2. \A q \in 1 .. p : ~IsTouch(q)
      BY <1>0, <2>1, <2>3
    <3> QED BY <1>0, <2>1, <3>1, <3>2
  <2> QED BY <2>2, <2>3
<1>3. CASE EndOfDir
  BY <1>3 DEF EndOfDir
<1>4. CASE WriteEvent
  <2>1. dtPc' = "idle" /\ dtOpen' = {} /\ FirstTouch(dtFd) /\ UNCHANGED <<dtDir, dtPos>>
    BY <1>4 DEF WriteEvent
  <2>2. CASE UNCHANGED dtEvents
    BY <2>1, <2>2
  <2>3. ASSUME NEW v \in Int, dtEvents' = Append(dtEvents, [to |-> dtFd, value |-> v])
        PROVE  TouchInv'
    <3> DEFINE e == [to |-> dtFd, value |-> v]
               Event == [to : 1 .. Len(dtDir), value : Int]
    <3>1. e \in Event /\ e.to = dtFd /\ dtEvents \in Seq(Event) /\ dtEvents' = Append(dtEvents, e)
      BY <2>1, <2>3
    <3> HIDE DEF e, Event
    <3>2. /\ dtEvents' \in Seq(Event)
          /\ \A i \in DOMAIN dtEvents' :
                dtEvents'[i] = e \/ (i \in DOMAIN dtEvents /\ dtEvents'[i] = dtEvents[i])
      BY <3>1
    <3>3. \A i \in DOMAIN dtEvents' : FirstTouch(dtEvents'[i].to)
      BY <2>1, <3>1, <3>2
    <3> QED BY <2>1, <3>2, <3>3 DEF Event
  <2>4. CASE ~UNCHANGED dtEvents
    <3> DEFINE v == IF dtAnswer.enabled THEN kInputEventWakeupModeOn
                                        ELSE kInputEventWakeupModeOff
    <3>1. v \in Int
      BY DEF kInputEventWakeupModeOn, kInputEventWakeupModeOff
    <3>2. dtEvents' = Append(dtEvents, [to |-> dtFd, value |-> v])
      BY <1>4, <2>4 DEF WriteEvent
    <3> QED BY <2>3, <3>1, <3>2
  <2> QED BY <2>2, <2>4
<1>5. CASE NoTouchScreen
  BY <1>5 DEF NoTouchScreen
<1>6. CASE UNCHANGED touchVars
  BY <1>6 DEF touchVars
<1> QED BY <1>1, <1>2, <1>3, <1>4, <1>5, <1>6 DEF TouchNext

\* No descriptor outlives a call, and no other device is ever written to
\* (open_ts_input, setDeviceSpecificMode).
THEOREM TouchScreenAlone == TouchSpec => []OnlyTouchScreenUsed
<1>1. TouchInit => TouchInv
  BY TouchAssumption DEF TouchInit, TouchInv
<1>2. TouchInv => OnlyTouchScreenUsed
  BY DEF TouchInv, OnlyTouchScreenUsed, FirstTouch, IsTouch
<1> QED BY <1>1, <1>2, TouchKept, PTL DEF TouchSpec

-----------------------------------------------------------------------------
(***************************************************************************)
(* The white LED.                                                          *)
(***************************************************************************)
Users == 0 .. 2
Byte == 0 .. 255
Colour == [a : Byte, r : Byte, g : Byte, b : Byte]

\* A channel scaled by the chosen brightness stays a byte ...
LEMMA ScaledLemma ==
    ASSUME NEW x \in Byte, NEW a \in Byte
    PROVE  (x * a) \div 255 \in Byte /\ (x = 0 => (x * a) \div 255 = 0)
<1>1. x * a \in Int /\ 0 <= x * a
  BY DEF Byte
<1>2. (255 - x) * a >= 0 /\ (255 - x) * a = 255 * a - x * a
  BY DEF Byte
<1>3. x * a <= 255 * 255
  BY <1>1, <1>2 DEF Byte
<1>4. x = 0 => x * a = 0
  BY DEF Byte
<1> DEFINE y == x * a
<1> HIDE DEF y
<1>5. y \in Int /\ 0 <= y /\ y <= 255 * 255 => y \div 255 \in 0 .. 255 /\ (y = 0 => y \div 255 = 0)
  OBVIOUS
<1> QED BY <1>1, <1>3, <1>4, <1>5 DEF y, Byte

\* ... and so does the brightness of a colour; a colour that is not lit has none.
LEMMA LevelLemma ==
    ASSUME NEW s, s.color \in Colour
    PROVE  getBrightness(s.color) \in Byte /\ (~Lit(s) => getBrightness(s.color) = 0)
<1> DEFINE scaled(x) == IF s.color.a = 255 THEN x ELSE (x * s.color.a) \div 255
<1>1. s.color.a \in Byte /\ s.color.r \in Byte /\ s.color.g \in Byte /\ s.color.b \in Byte
  BY DEF Colour
<1>2. ASSUME NEW x \in Byte
      PROVE  scaled(x) \in Byte /\ (x = 0 => scaled(x) = 0)
  BY <1>1, ScaledLemma
<1>3. /\ scaled(s.color.r) \in Byte /\ scaled(s.color.g) \in Byte /\ scaled(s.color.b) \in Byte
      /\ s.color.r = 0 => scaled(s.color.r) = 0
      /\ s.color.g = 0 => scaled(s.color.g) = 0
      /\ s.color.b = 0 => scaled(s.color.b) = 0
  BY <1>1, <1>2
<1> DEFINE R == scaled(s.color.r)
           G == scaled(s.color.g)
           B == scaled(s.color.b)
<1>4. getBrightness(s.color) = (77 * R + 150 * G + 29 * B) \div 256
  BY DEF getBrightness
<1>5. /\ R \in Byte /\ G \in Byte /\ B \in Byte
      /\ ~Lit(s) => R = 0 /\ G = 0 /\ B = 0
  BY <1>3 DEF Lit
<1> HIDE DEF R, G, B
<1> QED BY <1>4, <1>5 DEF Byte

\* The ramp of duties rises from 0 to the level's share, which is a percentage.
LEMMA DutyLemma ==
    ASSUME NEW level \in Byte
    PROVE  LET duty == getScaledDutyPercent(level)
           IN  /\ \A i \in 1 .. kRampSteps : duty[i] <= duty[i + 1]
               /\ duty[kRampSteps + 1] = (100 * level) \div 255
               /\ duty[kRampSteps + 1] <= 100
               /\ level = 0 => \A i \in 1 .. kRampSteps + 1 : duty[i] = 0
<1> DEFINE duty == getScaledDutyPercent(level)
<1>1. \A i \in 1 .. 9 : duty[i] = ((i - 1) * 100 * level) \div 2040
  BY DEF getScaledDutyPercent, kRampSteps, kDefaultMaxBrightness
<1> HIDE DEF duty
<1>2. ASSUME NEW i \in 1 .. 8 PROVE duty[i] <= duty[i + 1]
  <2> DEFINE y == (i - 1) * 100 * level
  <2>1. y \in Int /\ i * 100 * level = y + 100 * level /\ level \in Int /\ level >= 0
    BY DEF Byte
  <2>2. duty[i] = y \div 2040 /\ duty[i + 1] = (i * 100 * level) \div 2040
    BY <1>1
  <2> HIDE DEF y
  <2>3. duty[i] = y \div 2040 /\ duty[i + 1] = (y + 100 * level) \div 2040
    BY <2>1, <2>2
  <2> QED BY <2>1, <2>3
<1>3. duty[9] = (800 * level) \div 2040
  BY <1>1 DEF Byte
<1>4. (800 * level) \div 2040 = (100 * level) \div 255 /\ (800 * level) \div 2040 <= 100
  BY DEF Byte
<1>5. level = 0 => \A i \in 1 .. 9 : duty[i] = 0
  BY <1>1
<1> QED BY <1>2, <1>3, <1>4, <1>5 DEF duty, kRampSteps

\* The user that has the LED: the first that wants light, or the front one.
LEMMA ClaimLemma ==
    ASSUME NEW states \in [Users -> LightStates]
    PROVE  /\ stateToUse(states) \in {states[i] : i \in Users}
           /\ stateToUse(states) \in LightStates
           /\ (\A i \in Users : ~Lit(states[i])) => stateToUse(states) = states[0]
           /\ \A i \in Users : Lit(states[i]) /\ (\A j \in 0 .. i - 1 : ~Lit(states[j]))
                               => stateToUse(states) = states[i]
<1> DEFINE lit == {i \in 0 .. 2 : Lit(states[i])}
           first == CHOOSE i \in lit : \A j \in lit : i <= j
<1>1. stateToUse(states) = IF lit = {} THEN states[0] ELSE states[first]
  BY DEF stateToUse
<1>2. lit # {} => \E i \in lit : \A j \in lit : i <= j
  <2>1. lit \subseteq {0, 1, 2}
    OBVIOUS
  <2> HIDE DEF lit
  <2>2. CASE 0 \in lit
    BY <2>1, <2>2
  <2>3. CASE 0 \notin lit /\ 1 \in lit
    BY <2>1, <2>3
  <2>4. CASE 0 \notin lit /\ 1 \notin lit
    <3>1. \A i \in lit : i = 2 /\ i <= 2
      BY <2>1, <2>4
    <3> QED BY <3>1
  <2> QED BY <2>2, <2>3, <2>4
<1>3. lit # {} => first \in lit /\ \A j \in lit : first <= j
  BY <1>2
<1> HIDE DEF first
<1>4. ASSUME NEW i \in Users, Lit(states[i]), \A j \in 0 .. i - 1 : ~Lit(states[j])
      PROVE  stateToUse(states) = states[i]
  <2>1. i \in lit /\ \A j \in lit : i <= j
    BY <1>4 DEF Users
  <2>2. first \in 0 .. 2 /\ first = i
    BY <1>3, <2>1 DEF Users
  <2> QED BY <1>1, <2>1, <2>2
<1>5. (\A i \in Users : ~Lit(states[i])) => stateToUse(states) = states[0]
  BY <1>1 DEF Users
<1>6. stateToUse(states) \in {states[i] : i \in Users}
  BY <1>1, <1>3 DEF Users
<1> QED BY <1>4, <1>5, <1>6

\* What the LED's files say once the writes for s are done.
Serves(led, s) ==
  LET level == getBrightness(s.color)
  IN  /\ led.blink = IF s.timed THEN 1 ELSE 0
      /\ ~s.timed => led.brightness = level
      /\ s.timed => /\ led.duty_pcts = getScaledDutyPercent(level)
                    /\ led.pause_lo = s.off
                    /\ \/ s.on >= 800 /\ led.pause_hi = s.on - 800 /\ led.ramp_step_ms = 50
                       \/ s.on < 800 /\ led.pause_hi = 0 /\ led.ramp_step_ms = s.on \div 16

\* The files there are.
LedFiles == {"blink", "brightness", "start_idx", "duty_pcts", "pause_lo", "pause_hi",
             "ramp_step_ms"}

\* From the first call on the LED serves the user that has it.
LightInv ==
  /\ mLightStates \in [Users -> LightStates] /\ lightKnown \subseteq Users
  /\ LedFiles \subseteq DOMAIN whiteLed
  /\ lightKnown = {} => whiteLed.blink = 0
  /\ lightKnown # {} => Serves(whiteLed, stateToUse(mLightStates))

StateType == [color : Colour, timed : BOOLEAN, on : Nat, off : Nat]

LEMMA WrittenLemma ==
    ASSUME NEW led, LedFiles \subseteq DOMAIN led, NEW s \in StateType
    PROVE  LedFiles \subseteq DOMAIN Written(led, s) /\ Serves(Written(led, s), s)
<1> DEFINE level == getBrightness(s.color)
           duty == getScaledDutyPercent(level)
           fits == s.on - kRampMaxStepDurationMs * kRampSteps * 2 >= 0
           hi == IF fits THEN s.on - kRampMaxStepDurationMs * kRampSteps * 2 ELSE 0
           step == IF fits THEN kRampMaxStepDurationMs ELSE s.on \div (kRampSteps * 2)
<1>1. s.timed \in BOOLEAN /\ s.on \in Nat /\ s.off \in Nat
  BY DEF StateType
<1>2. /\ hi \in Int /\ step \in Int
      /\ \/ s.on >= 800 /\ hi = s.on - 800 /\ step = 50
         \/ s.on < 800 /\ hi = 0 /\ step = s.on \div 16
  BY <1>1 DEF kRampMaxStepDurationMs, kRampSteps
<1>3. CASE ~s.timed
  <2>1. Written(led, s) = [led EXCEPT !.blink = 0, !.brightness = level]
    BY <1>3 DEF Written
  <2> HIDE DEF level
  <2>2. /\ LedFiles \subseteq DOMAIN Written(led, s)
        /\ Written(led, s).blink = 0 /\ Written(led, s).brightness = level
    BY <2>1 DEF LedFiles
  <2> QED BY <1>3, <2>2 DEF Serves, level
<1>4. CASE s.timed
  <2>1. Written(led, s) =
          [led EXCEPT !.blink = 1, !.start_idx = 0, !.duty_pcts = duty,
                      !.pause_lo = s.off, !.pause_hi = hi, !.ramp_step_ms = step]
    BY <1>4 DEF Written
  <2> HIDE DEF duty, hi, step
  <2>2. /\ LedFiles \subseteq DOMAIN Written(led, s)
        /\ Written(led, s).blink = 1 /\ Written(led, s).duty_pcts = duty
        /\ Written(led, s).pause_lo = s.off /\ Written(led, s).pause_hi = hi
        /\ Written(led, s).ramp_step_ms = step
    BY <2>1 DEF LedFiles
  <2> QED BY <1>2, <1>4, <2>2 DEF Serves, duty
<1> QED BY <1>1, <1>3, <1>4

\* setLight keeps it, whichever user calls.
LEMMA LightKept == ASSUME LightInv, [setLight]_lightVars PROVE LightInv'
<1>1. ASSUME NEW s \in LightStates, NEW index \in Users, handleWhiteLed(s, index)
      PROVE  LightInv'
  <2>1. /\ mLightStates' = [mLightStates EXCEPT ![index] = s]
        /\ lightKnown' = lightKnown \cup {index}
        /\ whiteLed' = Written(whiteLed, stateToUse(mLightStates'))
    BY <1>1 DEF handleWhiteLed
  <2>2. mLightStates' \in [Users -> LightStates]
    BY <2>1 DEF LightInv
  <2>3. stateToUse(mLightStates') \in StateType
    BY <2>2, ClaimLemma, LightAssumption DEF StateType, Colour, Byte
  <2>4. LedFiles \subseteq DOMAIN whiteLed' /\ Serves(whiteLed', stateToUse(mLightStates'))
    BY <2>1, <2>3, WrittenLemma DEF LightInv
  <2> QED BY <2>1, <2>2, <2>4 DEF LightInv
<1>2. ASSUME NEW s \in LightStates, handleBacklight(s)
      PROVE  LightInv'
  BY <1>2 DEF handleBacklight, LightInv
<1>3. CASE UNCHANGED lightVars
  BY <1>3 DEF lightVars, LightInv
<1>4. \A type \in DOMAIN LightIndex : LightIndex[type] \in Users
  BY DEF LightIndex, Users
<1> QED BY <1>1, <1>2, <1>3, <1>4 DEF setLight

\* The LED that serves the right user shows its request, and is dark when no
\* user wants light.
LEMMA FirstClaimShown == ASSUME LightInv PROVE LedShowsFirstClaim
<1> DEFINE s == stateToUse(mLightStates)
<1>1. mLightStates \in [Users -> LightStates] /\ lightKnown \subseteq Users
  BY DEF LightInv
<1>2. s \in StateType
  BY <1>1, ClaimLemma, LightAssumption DEF StateType, Colour, Byte
<1>3. getBrightness(s.color) \in Byte /\ (~Lit(s) => getBrightness(s.color) = 0)
  BY <1>2, LevelLemma DEF StateType
<1> DEFINE level == getBrightness(s.color)
           duty == getScaledDutyPercent(level)
<1>4. /\ duty[kRampSteps + 1] = (100 * level) \div 255
      /\ level = 0 => \A i \in 1 .. kRampSteps + 1 : duty[i] = 0
  BY <1>3, DutyLemma
<1>5. s.timed \in BOOLEAN
  BY <1>2 DEF StateType
<1> HIDE DEF s, level, duty
<1>6. lightKnown # {} =>
        /\ whiteLed.blink = IF s.timed THEN 1 ELSE 0
        /\ ~s.timed => whiteLed.brightness = level
        /\ s.timed => whiteLed.duty_pcts = duty /\ whiteLed.pause_lo = s.off
  BY DEF LightInv, Serves, s, level, duty
<1>7. ASSUME lightKnown = 0 .. 2, \A i \in 0 .. 2 : ~Lit(mLightStates[i])
      PROVE  IF whiteLed.blink = 1 THEN \A i \in 1 .. kRampSteps + 1 : whiteLed.duty_pcts[i] = 0
             ELSE whiteLed.brightness = 0
  <2>1. s = mLightStates[0] /\ ~Lit(s) /\ lightKnown # {}
    BY <1>1, <1>7, ClaimLemma DEF Users, s
  <2>2. level = 0
    BY <1>3, <2>1 DEF level
  <2> QED BY <1>4, <1>5, <1>6, <2>1, <2>2
<1>8. ASSUME NEW i \in lightKnown, Lit(mLightStates[i]),
             \A j \in 0 .. i - 1 : ~Lit(mLightStates[j])
      PROVE  Shows(whiteLed, mLightStates[i])
  <2>1. mLightStates[i] = s
    BY <1>1, <1>8, ClaimLemma DEF s
  <2> QED BY <1>4, <1>5, <1>6, <2>1 DEF Shows, level
<1> QED BY <1>7, <1>8 DEF LedShowsFirstClaim

\* ... and its flash fits the time the request gives it.
LEMMA FlashFitsLemma == ASSUME LightInv PROVE FlashFits
<1> SUFFICES ASSUME whiteLed.blink = 1 PROVE FlashFits
  BY DEF FlashFits
<1> DEFINE s == stateToUse(mLightStates)
           shown == {i \in 0 .. 2 : mLightStates[i] = s}
           on == mLightStates[CHOOSE i \in shown : TRUE].on
           duty == whiteLed.duty_pcts
<1>1. mLightStates \in [Users -> LightStates] /\ lightKnown # {}
      /\ Serves(whiteLed, s)
  BY DEF LightInv
<1>2. s \in StateType /\ s \in {mLightStates[i] : i \in Users}
  BY <1>1, ClaimLemma, LightAssumption DEF StateType, Colour, Byte
<1>3. on = s.on
  BY <1>2 DEF Users
<1>4. getBrightness(s.color) \in Byte
  BY <1>2, LevelLemma DEF StateType
<1>5. s.timed /\ duty = getScaledDutyPercent(getBrightness(s.color)) /\ s.on \in Nat
  BY <1>1, <1>2 DEF Serves, StateType
<1>6. /\ \A i \in 1 .. kRampSteps : duty[i] <= duty[i + 1]
      /\ duty[kRampSteps + 1] <= 100
  BY <1>4, <1>5, DutyLemma
<1>7. \/ s.on >= 800 /\ whiteLed.pause_hi = s.on - 800 /\ whiteLed.ramp_step_ms = 50
      \/ s.on < 800 /\ whiteLed.pause_hi = 0 /\ whiteLed.ramp_step_ms = s.on \div 16
  BY <1>1, <1>5 DEF Serves
<1> DEFINE flash == 2 * kRampSteps * whiteLed.ramp_step_ms + whiteLed.pause_hi
<1> HIDE DEF s, on, duty
<1>8. flash <= s.on /\ (whiteLed.ramp_step_ms = 50 => flash = s.on)
  BY <1>5, <1>7 DEF kRampSteps
<1> QED BY <1>3, <1>6, <1>8 DEF FlashFits, s, on, duty, kRampMaxStepDurationMs

\* The three users of the white LED are served in their fixed order, and a
\* flash fits its time (Light.cpp, handleWhiteLed, stateToUse).
THEOREM LedAlwaysServes == LightSpec => []LedServesUsers
<1>1. LightInit => LightInv
  BY DEF LightInit, LightInv, Users, LedFiles
<1>2. LightInv => LedServesUsers
  BY FirstClaimShown, FlashFitsLemma DEF LedServesUsers
<1> QED BY <1>1, <1>2, LightKept, PTL DEF LightSpec

-----------------------------------------------------------------------------
(* MediaInfo.                                                              *)

Aligns == {16, 32, 64, 128, 192, 256, 512, 4096}
Tiles == {4, 8, 16, 24, 32, 48}

\* What MSM_MEDIA_ALIGN returns is no less than the size, less than an
\* alignment above it, and grows with it.
LEMMA AlignBounds ==
  ASSUME NEW n \in Nat, NEW a \in Aligns
  PROVE  /\ MSM_MEDIA_ALIGN(n, a) \in Nat
         /\ n <= MSM_MEDIA_ALIGN(n, a) /\ MSM_MEDIA_ALIGN(n, a) < n + a
BY DEF MSM_MEDIA_ALIGN, Aligns

\* A larger size has no smaller multiple (MSM_MEDIA_ALIGN).
LEMMA AlignMonotone ==
  ASSUME NEW m \in Nat, NEW n \in Nat, NEW a \in Aligns, m <= n
  PROVE  MSM_MEDIA_ALIGN(m, a) <= MSM_MEDIA_ALIGN(n, a)
BY DEF MSM_MEDIA_ALIGN, Aligns

\* A size has at most twice the multiple that its half has (MSM_MEDIA_ALIGN).
LEMMA AlignDouble ==
  ASSUME NEW m \in Nat, NEW n \in Nat, NEW a \in Aligns, m <= 2 * n
  PROVE  MSM_MEDIA_ALIGN(m, a) <= 2 * MSM_MEDIA_ALIGN(n, a)
BY DEF MSM_MEDIA_ALIGN, Aligns

\* A plane is stride times scanlines: its size grows with both.
LEMMA TimesMonotone ==
  ASSUME NEW a \in Nat, NEW b \in Nat, NEW c \in Nat, NEW d \in Nat, a <= c, b <= d
  PROVE  a * b \in Nat /\ a * b <= c * d
<1>1. a * b <= c * b
  BY SMT
<1>2. c * b <= c * d
  BY SMT
<1> QED BY <1>1, <1>2

\* MSM_MEDIA_ROUNDUP, a number of tiles, grows with the size.
LEMMA RoundupFacts ==
  ASSUME NEW m \in Nat, NEW n \in Nat, NEW r \in Tiles, m <= n
  PROVE  /\ MSM_MEDIA_ROUNDUP(m, r) \in Nat
         /\ MSM_MEDIA_ROUNDUP(m, r) <= MSM_MEDIA_ROUNDUP(n, r)
BY DEF MSM_MEDIA_ROUNDUP, Tiles

\* A size has at most twice the tiles of its half (MSM_MEDIA_ROUNDUP).
LEMMA RoundupDouble ==
  ASSUME NEW m \in Nat, NEW n \in Nat, NEW r \in {4, 8}, m <= 2 * n
  PROVE  MSM_MEDIA_ROUNDUP(m, r) <= 2 * MSM_MEDIA_ROUNDUP(n, r)
BY DEF MSM_MEDIA_ROUNDUP

\* A number of tiles, rounded up to a multiple of a.
LEMMA TileFacts ==
  ASSUME NEW m \in Nat, NEW n \in Nat, NEW r \in Tiles, NEW a \in Aligns, m <= n
  PROVE  /\ MSM_MEDIA_ALIGN(MSM_MEDIA_ROUNDUP(m, r), a) \in Nat
         /\ MSM_MEDIA_ALIGN(MSM_MEDIA_ROUNDUP(n, r), a) \in Nat
         /\ MSM_MEDIA_ALIGN(MSM_MEDIA_ROUNDUP(m, r), a)
              <= MSM_MEDIA_ALIGN(MSM_MEDIA_ROUNDUP(n, r), a)
<1>1. MSM_MEDIA_ROUNDUP(m, r) \in Nat /\ MSM_MEDIA_ROUNDUP(n, r) \in Nat
      /\ MSM_MEDIA_ROUNDUP(m, r) <= MSM_MEDIA_ROUNDUP(n, r)
  BY RoundupFacts
<1> QED BY <1>1, AlignBounds, AlignMonotone

\* (n + 1) >> 1 grows with n and loses no line of an odd number.
LEMMA HalfFacts ==
  ASSUME NEW m \in Nat, NEW n \in Nat, m <= n
  PROVE  /\ Half(m) \in Nat /\ Half(m) <= Half(n) /\ m <= 2 * Half(m)
BY DEF Half

\* The same three facts for pages of 4096 bytes.
LEMMA PageFacts ==
  ASSUME NEW m \in Nat, NEW n \in Nat
  PROVE  /\ Page(m) \in Nat /\ m <= Page(m) /\ Page(m) < m + 4096
         /\ m <= n => Page(m) <= Page(n)
         /\ m <= 2 * n => Page(m) <= 2 * Page(n)
BY AlignBounds, AlignMonotone, AlignDouble DEF Page, Aligns
-----------------------------------------------------------------------------
\* Strides and scanlines are numbers, and grow with the side they come from.
LEMMA YStrideFacts ==
  ASSUME NEW fmt \in Yuv, NEW v \in Nat, NEW w \in Nat, v <= w
  PROVE  /\ VENUS_Y_STRIDE(fmt, w) \in Nat /\ LineBytes(fmt, w) <= VENUS_Y_STRIDE(fmt, w)
         /\ VENUS_Y_STRIDE(fmt, v) <= VENUS_Y_STRIDE(fmt, w)
<1>1. CASE fmt \in {"NV21", "NV12", "NV12_MVTB", "NV12_UBWC"}
  <2>1. /\ VENUS_Y_STRIDE(fmt, w) = MSM_MEDIA_ALIGN(w, 128)
        /\ VENUS_Y_STRIDE(fmt, v) = MSM_MEDIA_ALIGN(v, 128) /\ LineBytes(fmt, w) = w
    BY <1>1 DEF VENUS_Y_STRIDE, LineBytes
  <2> QED BY <2>1, AlignBounds, AlignMonotone DEF Aligns
<1>2. CASE fmt = "NV12_BPP10_UBWC"
  <2> DEFINE F(n) == (MSM_MEDIA_ALIGN(n, 192) * 4) \div 3
  <2>1. MSM_MEDIA_ALIGN(v, 192) \in Nat /\ MSM_MEDIA_ALIGN(w, 192) \in Nat
        /\ MSM_MEDIA_ALIGN(v, 192) <= MSM_MEDIA_ALIGN(w, 192)
    BY AlignBounds, AlignMonotone DEF Aligns
  <2>2. F(v) \in Nat /\ F(w) \in Nat /\ F(v) <= F(w)
    BY <2>1
  <2>3. (4 * w + 2) \div 3 <= F(w)
    BY DEF MSM_MEDIA_ALIGN
  <2>4. /\ VENUS_Y_STRIDE(fmt, w) = MSM_MEDIA_ALIGN(F(w), 256)
        /\ VENUS_Y_STRIDE(fmt, v) = MSM_MEDIA_ALIGN(F(v), 256)
        /\ LineBytes(fmt, w) = (4 * w + 2) \div 3
    BY <1>2 DEF VENUS_Y_STRIDE, LineBytes
  <2>5. (4 * w + 2) \div 3 \in Nat
    OBVIOUS
  <2> HIDE DEF F
  <2>6. \A x, y \in Nat : x <= y => /\ MSM_MEDIA_ALIGN(y, 256) \in Nat
                                    /\ y <= MSM_MEDIA_ALIGN(y, 256)
                                    /\ MSM_MEDIA_ALIGN(x, 256) <= MSM_MEDIA_ALIGN(y, 256)
    BY AlignBounds, AlignMonotone DEF Aligns
  <2> QED BY <2>2, <2>3, <2>4, <2>5, <2>6
<1>3. CASE fmt \in {"P010_UBWC", "P010"}
  <2>1. PICK a \in {128, 256} : /\ VENUS_Y_STRIDE(fmt, w) = MSM_MEDIA_ALIGN(2 * w, a)
                                /\ VENUS_Y_STRIDE(fmt, v) = MSM_MEDIA_ALIGN(2 * v, a)
                                /\ LineBytes(fmt, w) = 2 * w
    BY <1>3 DEF VENUS_Y_STRIDE, LineBytes
  <2>2. 2 * v \in Nat /\ 2 * w \in Nat /\ 2 * v <= 2 * w /\ a \in Aligns
    BY DEF Aligns
  <2> QED BY <2>1, <2>2, AlignBounds, AlignMonotone
<1> QED BY <1>1, <1>2, <1>3 DEF Yuv, Linear, YuvUbwc

\* VENUS_Y_SCANLINES covers the height and grows with it.
LEMMA YScanlinesFacts ==
  ASSUME NEW fmt \in Yuv, NEW g \in Nat, NEW h \in Nat, g <= h
  PROVE  /\ VENUS_Y_SCANLINES(fmt, h) \in Nat /\ h <= VENUS_Y_SCANLINES(fmt, h)
         /\ VENUS_Y_SCANLINES(fmt, g) <= VENUS_Y_SCANLINES(fmt, h)
<1>1. PICK a \in {16, 32} : /\ VENUS_Y_SCANLINES(fmt, h) = MSM_MEDIA_ALIGN(h, a)
                            /\ VENUS_Y_SCANLINES(fmt, g) = MSM_MEDIA_ALIGN(g, a)
  BY DEF VENUS_Y_SCANLINES, Yuv, Linear, YuvUbwc
<1>2. a \in Aligns
  BY DEF Aligns
<1> QED BY <1>1, <1>2, AlignBounds, AlignMonotone

\* VENUS_UV_SCANLINES covers half the height, rounded up, and grows with it.
LEMMA UvScanlinesFacts ==
  ASSUME NEW fmt \in Yuv, NEW g \in Nat, NEW h \in Nat, g <= h
  PROVE  /\ VENUS_UV_SCANLINES(fmt, h) \in Nat /\ h <= 2 * VENUS_UV_SCANLINES(fmt, h)
         /\ VENUS_UV_SCANLINES(fmt, g) <= VENUS_UV_SCANLINES(fmt, h)
<1>1. PICK a \in {16, 32} : /\ VENUS_UV_SCANLINES(fmt, h) = MSM_MEDIA_ALIGN(Half(h), a)
                            /\ VENUS_UV_SCANLINES(fmt, g) = MSM_MEDIA_ALIGN(Half(g), a)
  BY DEF VENUS_UV_SCANLINES, Yuv, Linear, YuvUbwc
<1>2. a \in Aligns /\ Half(g) \in Nat /\ Half(h) \in Nat /\ Half(g) <= Half(h) /\ h <= 2 * Half(h)
  BY HalfFacts DEF Aligns
<1>3. MSM_MEDIA_ALIGN(Half(h), a) \in Nat /\ Half(h) <= MSM_MEDIA_ALIGN(Half(h), a)
      /\ MSM_MEDIA_ALIGN(Half(g), a) <= MSM_MEDIA_ALIGN(Half(h), a)
  BY <1>2, AlignBounds, AlignMonotone
<1> QED BY <1>1, <1>2, <1>3

\* The chroma lines of two fields cover those of the picture.
LEMMA UvScanlinesDouble ==
  ASSUME NEW h \in Nat
  PROVE  VENUS_UV_SCANLINES("NV12_UBWC", h) <= 2 * VENUS_UV_SCANLINES("NV12_UBWC", Half(h))
<1>1. Half(h) \in Nat /\ Half(Half(h)) \in Nat /\ Half(h) <= 2 * Half(Half(h))
  BY HalfFacts
<1>2. MSM_MEDIA_ALIGN(Half(h), 32) <= 2 * MSM_MEDIA_ALIGN(Half(Half(h)), 32)
  BY <1>1, AlignDouble DEF Aligns
<1> QED BY <1>2 DEF VENUS_UV_SCANLINES

\* The luma lines of two fields cover those of the picture.
LEMMA YScanlinesDouble ==
  ASSUME NEW h \in Nat
  PROVE  VENUS_Y_SCANLINES("NV12_UBWC", h) <= 2 * VENUS_Y_SCANLINES("NV12_UBWC", Half(h))
<1>1. Half(h) \in Nat /\ h <= 2 * Half(h)
  BY HalfFacts
<1>2. MSM_MEDIA_ALIGN(h, 32) <= 2 * MSM_MEDIA_ALIGN(Half(h), 32)
  BY <1>1, AlignDouble DEF Aligns
<1> QED BY <1>2 DEF VENUS_Y_SCANLINES

\* The stride and the scanlines of the RGB formats cover the frame and grow with it.
LEMMA RgbFacts ==
  ASSUME NEW fmt \in Rgb, NEW v \in Nat, NEW w \in Nat, v <= w
  PROVE  /\ VENUS_RGB_STRIDE(fmt, w) \in Nat /\ LineBytes(fmt, w) <= VENUS_RGB_STRIDE(fmt, w)
         /\ VENUS_RGB_STRIDE(fmt, v) <= VENUS_RGB_STRIDE(fmt, w)
         /\ VENUS_RGB_SCANLINES(fmt, w) \in Nat /\ w <= VENUS_RGB_SCANLINES(fmt, w)
         /\ VENUS_RGB_SCANLINES(fmt, v) <= VENUS_RGB_SCANLINES(fmt, w)
<1>1. PICK a \in Aligns : /\ VENUS_RGB_SCANLINES(fmt, w) = MSM_MEDIA_ALIGN(w, a)
                          /\ VENUS_RGB_SCANLINES(fmt, v) = MSM_MEDIA_ALIGN(v, a)
  BY DEF VENUS_RGB_SCANLINES, Rgb, RgbUbwc, Aligns
<1>2. PICK b \in {2, 4}, d \in Aligns :
        /\ VENUS_RGB_STRIDE(fmt, w) = MSM_MEDIA_ALIGN(w * b, d)
        /\ VENUS_RGB_STRIDE(fmt, v) = MSM_MEDIA_ALIGN(v * b, d) /\ LineBytes(fmt, w) = w * b
  BY DEF VENUS_RGB_STRIDE, LineBytes, Rgb, RgbUbwc, Aligns
<1>3. w * b \in Nat /\ v * b \in Nat /\ v * b <= w * b
  OBVIOUS
<1>4. \A x, y \in Nat, c \in Aligns : x <= y =>
        /\ MSM_MEDIA_ALIGN(y, c) \in Nat /\ y <= MSM_MEDIA_ALIGN(y, c)
        /\ MSM_MEDIA_ALIGN(x, c) <= MSM_MEDIA_ALIGN(y, c)
  BY AlignBounds, AlignMonotone
<1>5. /\ VENUS_RGB_SCANLINES(fmt, w) \in Nat /\ w <= VENUS_RGB_SCANLINES(fmt, w)
      /\ VENUS_RGB_SCANLINES(fmt, v) <= VENUS_RGB_SCANLINES(fmt, w)
  BY <1>1, <1>4
<1>6. /\ VENUS_RGB_STRIDE(fmt, w) \in Nat /\ LineBytes(fmt, w) <= VENUS_RGB_STRIDE(fmt, w)
      /\ VENUS_RGB_STRIDE(fmt, v) <= VENUS_RGB_STRIDE(fmt, w)
  BY <1>2, <1>3, <1>4
<1> QED BY <1>5, <1>6
-----------------------------------------------------------------------------
\* The metadata planes: the strides and scanlines of both grow, and those of
\* a whole NV12_UBWC picture have at most twice the lines of a field.
LEMMA MetaFacts ==
  ASSUME NEW fmt, NEW v \in Nat, NEW w \in Nat, v <= w
  PROVE  /\ VENUS_Y_META_STRIDE(fmt, w) \in Nat
         /\ VENUS_Y_META_STRIDE(fmt, v) <= VENUS_Y_META_STRIDE(fmt, w)
         /\ VENUS_UV_META_STRIDE(fmt, w) \in Nat
         /\ VENUS_UV_META_STRIDE(fmt, v) <= VENUS_UV_META_STRIDE(fmt, w)
         /\ VENUS_Y_META_SCANLINES(fmt, w) \in Nat
         /\ VENUS_Y_META_SCANLINES(fmt, v) <= VENUS_Y_META_SCANLINES(fmt, w)
         /\ VENUS_UV_META_SCANLINES(fmt, w) \in Nat
         /\ VENUS_UV_META_SCANLINES(fmt, v) <= VENUS_UV_META_SCANLINES(fmt, w)
<1>1. /\ y_tile_width(fmt) \in Tiles /\ y_tile_height(fmt) \in Tiles
      /\ uv_tile_width(fmt) \in Tiles /\ 16 \in Aligns /\ 64 \in Aligns
  BY DEF y_tile_width, y_tile_height, uv_tile_width, Tiles, Aligns
<1>2. Half(v) \in Nat /\ Half(w) \in Nat /\ Half(v) <= Half(w)
  BY HalfFacts
<1>3. \A x, y \in Nat, r \in Tiles, a \in Aligns :
        x <= y => /\ MSM_MEDIA_ALIGN(MSM_MEDIA_ROUNDUP(y, r), a) \in Nat
                  /\ MSM_MEDIA_ALIGN(MSM_MEDIA_ROUNDUP(x, r), a)
                       <= MSM_MEDIA_ALIGN(MSM_MEDIA_ROUNDUP(y, r), a)
  BY TileFacts
<1>4. /\ VENUS_Y_META_STRIDE(fmt, w) \in Nat
      /\ VENUS_Y_META_STRIDE(fmt, v) <= VENUS_Y_META_STRIDE(fmt, w)
  BY <1>1, <1>3 DEF VENUS_Y_META_STRIDE
<1>5. /\ VENUS_UV_META_STRIDE(fmt, w) \in Nat
      /\ VENUS_UV_META_STRIDE(fmt, v) <= VENUS_UV_META_STRIDE(fmt, w)
  BY <1>1, <1>2, <1>3 DEF VENUS_UV_META_STRIDE
<1>6. /\ VENUS_Y_META_SCANLINES(fmt, w) \in Nat
      /\ VENUS_Y_META_SCANLINES(fmt, v) <= VENUS_Y_META_SCANLINES(fmt, w)
  BY <1>1, <1>3 DEF VENUS_Y_META_SCANLINES
<1>7. /\ VENUS_UV_META_SCANLINES(fmt, w) \in Nat
      /\ VENUS_UV_META_SCANLINES(fmt, v) <= VENUS_UV_META_SCANLINES(fmt, w)
  BY <1>1, <1>2, <1>3 DEF VENUS_UV_META_SCANLINES
<1> QED BY <1>4, <1>5, <1>6, <1>7

\* The metadata lines of two fields cover those of the picture.
LEMMA MetaDouble ==
  ASSUME NEW h \in Nat
  PROVE  /\ VENUS_Y_META_SCANLINES("NV12_UBWC", h)
              <= 2 * VENUS_Y_META_SCANLINES("NV12_UBWC", Half(h))
         /\ VENUS_UV_META_SCANLINES("NV12_UBWC", h)
              <= 2 * VENUS_UV_META_SCANLINES("NV12_UBWC", Half(h))
<1>1. \A x, y \in Nat : x <= 2 * y => MSM_MEDIA_ALIGN(MSM_MEDIA_ROUNDUP(x, 8), 16)
                                        <= 2 * MSM_MEDIA_ALIGN(MSM_MEDIA_ROUNDUP(y, 8), 16)
  <2> SUFFICES ASSUME NEW x \in Nat, NEW y \in Nat, x <= 2 * y
               PROVE  MSM_MEDIA_ALIGN(MSM_MEDIA_ROUNDUP(x, 8), 16)
                        <= 2 * MSM_MEDIA_ALIGN(MSM_MEDIA_ROUNDUP(y, 8), 16)
    OBVIOUS
  <2>1. MSM_MEDIA_ROUNDUP(x, 8) \in Nat /\ MSM_MEDIA_ROUNDUP(y, 8) \in Nat
        /\ MSM_MEDIA_ROUNDUP(x, 8) <= 2 * MSM_MEDIA_ROUNDUP(y, 8)
    BY RoundupFacts, RoundupDouble DEF Tiles
  <2> QED BY <2>1, AlignDouble DEF Aligns
<1>2. /\ Half(h) \in Nat /\ h <= 2 * Half(h)
      /\ Half(Half(h)) \in Nat /\ Half(h) <= 2 * Half(Half(h))
  BY HalfFacts
<1>3. y_tile_height("NV12_UBWC") = 8
  BY DEF y_tile_height
<1> QED BY <1>1, <1>2, <1>3 DEF VENUS_Y_META_SCANLINES, VENUS_UV_META_SCANLINES
-----------------------------------------------------------------------------
\* The planes of a picture grow with its sides; the compressed planes of a
\* picture are at most twice those of a field.
LEMMA PlanesFacts ==
  ASSUME NEW fmt \in Yuv, NEW v \in Nat, NEW w \in Nat, v <= w,
         NEW g \in Nat, NEW h \in Nat, g <= h
  PROVE  /\ YPlane(fmt, w, h) \in Nat /\ YPlane(fmt, v, g) <= YPlane(fmt, w, h)
         /\ UvPlane(fmt, w, h) \in Nat /\ UvPlane(fmt, v, g) <= UvPlane(fmt, w, h)
<1>1. /\ VENUS_Y_STRIDE(fmt, v) \in Nat /\ VENUS_Y_STRIDE(fmt, w) \in Nat
      /\ VENUS_Y_STRIDE(fmt, v) <= VENUS_Y_STRIDE(fmt, w)
  BY YStrideFacts
<1>2. /\ VENUS_Y_SCANLINES(fmt, g) \in Nat /\ VENUS_Y_SCANLINES(fmt, h) \in Nat
      /\ VENUS_Y_SCANLINES(fmt, g) <= VENUS_Y_SCANLINES(fmt, h)
  BY YScanlinesFacts
<1>3. /\ VENUS_UV_SCANLINES(fmt, g) \in Nat /\ VENUS_UV_SCANLINES(fmt, h) \in Nat
      /\ VENUS_UV_SCANLINES(fmt, g) <= VENUS_UV_SCANLINES(fmt, h)
  BY UvScanlinesFacts
<1>4. YPlane(fmt, w, h) \in Nat /\ YPlane(fmt, v, g) <= YPlane(fmt, w, h)
  BY <1>1, <1>2, TimesMonotone DEF YPlane
<1>5. UvPlane(fmt, w, h) \in Nat /\ UvPlane(fmt, v, g) <= UvPlane(fmt, w, h)
  BY <1>1, <1>3, TimesMonotone DEF UvPlane
<1> QED BY <1>4, <1>5

\* The four compressed planes together grow with the sides of the picture.
LEMMA UbwcMonotone ==
  ASSUME NEW fmt \in Yuv, NEW v \in Nat, NEW w \in Nat, v <= w,
         NEW g \in Nat, NEW h \in Nat, g <= h
  PROVE  UbwcPlanes(fmt, w, h) \in Nat /\ UbwcPlanes(fmt, v, g) <= UbwcPlanes(fmt, w, h)
<1> DEFINE YMeta(x, y) == VENUS_Y_META_STRIDE(fmt, x) * VENUS_Y_META_SCANLINES(fmt, y)
           UvMeta(x, y) == VENUS_UV_META_STRIDE(fmt, x) * VENUS_UV_META_SCANLINES(fmt, y)
<1>1. /\ YPlane(fmt, v, g) \in Nat /\ UvPlane(fmt, v, g) \in Nat
      /\ YPlane(fmt, w, h) \in Nat /\ YPlane(fmt, v, g) <= YPlane(fmt, w, h)
      /\ UvPlane(fmt, w, h) \in Nat /\ UvPlane(fmt, v, g) <= UvPlane(fmt, w, h)
  BY PlanesFacts
<1>2. YMeta(v, g) \in Nat /\ YMeta(w, h) \in Nat /\ YMeta(v, g) <= YMeta(w, h)
  <2>1. /\ VENUS_Y_META_STRIDE(fmt, v) \in Nat /\ VENUS_Y_META_STRIDE(fmt, w) \in Nat
        /\ VENUS_Y_META_STRIDE(fmt, v) <= VENUS_Y_META_STRIDE(fmt, w)
    BY MetaFacts
  <2>2. /\ VENUS_Y_META_SCANLINES(fmt, g) \in Nat /\ VENUS_Y_META_SCANLINES(fmt, h) \in Nat
        /\ VENUS_Y_META_SCANLINES(fmt, g) <= VENUS_Y_META_SCANLINES(fmt, h)
    BY MetaFacts
  <2> QED BY <2>1, <2>2, TimesMonotone
<1>3. UvMeta(v, g) \in Nat /\ UvMeta(w, h) \in Nat /\ UvMeta(v, g) <= UvMeta(w, h)
  <2>1. /\ VENUS_UV_META_STRIDE(fmt, v) \in Nat /\ VENUS_UV_META_STRIDE(fmt, w) \in Nat
        /\ VENUS_UV_META_STRIDE(fmt, v) <= VENUS_UV_META_STRIDE(fmt, w)
    BY MetaFacts
  <2>2. /\ VENUS_UV_META_SCANLINES(fmt, g) \in Nat /\ VENUS_UV_META_SCANLINES(fmt, h) \in Nat
        /\ VENUS_UV_META_SCANLINES(fmt, g) <= VENUS_UV_META_SCANLINES(fmt, h)
    BY MetaFacts
  <2> QED BY <2>1, <2>2, TimesMonotone
<1>4. \A x, y \in Nat : x <= y => Page(x) \in Nat /\ Page(y) \in Nat /\ Page(x) <= Page(y)
  BY PageFacts
<1>5. \A x, y : UbwcPlanes(fmt, x, y) = Page(YPlane(fmt, x, y)) + Page(UvPlane(fmt, x, y))
                                        + Page(YMeta(x, y)) + Page(UvMeta(x, y))
  BY DEF UbwcPlanes
<1> HIDE DEF YMeta, UvMeta
<1> QED BY <1>1, <1>2, <1>3, <1>4, <1>5

\* Planes of at most twice the lines take at most twice the pages.
LEMMA PageDouble ==
  ASSUME NEW s \in Nat, NEW m \in Nat, NEW n \in Nat, m <= 2 * n
  PROVE  Page(s * m) \in Nat /\ Page(s * n) \in Nat /\ Page(s * m) <= 2 * Page(s * n)
<1>1. 2 * n \in Nat /\ s * m \in Nat /\ s * n \in Nat /\ s * (2 * n) = 2 * (s * n)
  BY SMT
<1>2. s * m <= s * (2 * n)
  BY <1>1, TimesMonotone
<1>3. PICK p \in Nat : p = s * m
  BY <1>1
<1>4. PICK q \in Nat : q = s * n
  BY <1>1
<1>5. p <= 2 * q
  BY <1>1, <1>2, <1>3, <1>4
<1>6. Page(p) \in Nat /\ Page(q) \in Nat /\ Page(p) <= 2 * Page(q)
  BY <1>5, PageFacts
<1> QED BY <1>3, <1>4, <1>6

\* Sizing NV12_UBWC for two fields also covers the whole picture.
LEMMA FieldsHoldPicture ==
  ASSUME NEW w \in Nat, NEW h \in Nat
  PROVE  UbwcPlanes("NV12_UBWC", w, h) <= 2 * UbwcPlanes("NV12_UBWC", w, Half(h))
<1> DEFINE f == "NV12_UBWC"
           y == VENUS_Y_STRIDE(f, w)
           ym == VENUS_Y_META_STRIDE(f, w)
           um == VENUS_UV_META_STRIDE(f, w)
<1>1. f \in Yuv /\ Half(h) \in Nat
  BY HalfFacts DEF Yuv, YuvUbwc
<1>3. y \in Nat /\ ym \in Nat /\ um \in Nat
  BY <1>1, YStrideFacts, MetaFacts
<1>4. /\ VENUS_Y_SCANLINES(f, h) \in Nat /\ VENUS_Y_SCANLINES(f, Half(h)) \in Nat
      /\ VENUS_UV_SCANLINES(f, h) \in Nat /\ VENUS_UV_SCANLINES(f, Half(h)) \in Nat
      /\ VENUS_Y_META_SCANLINES(f, h) \in Nat /\ VENUS_Y_META_SCANLINES(f, Half(h)) \in Nat
      /\ VENUS_UV_META_SCANLINES(f, h) \in Nat /\ VENUS_UV_META_SCANLINES(f, Half(h)) \in Nat
  BY <1>1, YScanlinesFacts, UvScanlinesFacts, MetaFacts
<1>5. /\ VENUS_Y_SCANLINES(f, h) <= 2 * VENUS_Y_SCANLINES(f, Half(h))
      /\ VENUS_UV_SCANLINES(f, h) <= 2 * VENUS_UV_SCANLINES(f, Half(h))
      /\ VENUS_Y_META_SCANLINES(f, h) <= 2 * VENUS_Y_META_SCANLINES(f, Half(h))
      /\ VENUS_UV_META_SCANLINES(f, h) <= 2 * VENUS_UV_META_SCANLINES(f, Half(h))
  BY YScanlinesDouble, UvScanlinesDouble, MetaDouble
<1> DEFINE A(x) == Page(y * VENUS_Y_SCANLINES(f, x))
           B(x) == Page(y * VENUS_UV_SCANLINES(f, x))
           C(x) == Page(ym * VENUS_Y_META_SCANLINES(f, x))
           D(x) == Page(um * VENUS_UV_META_SCANLINES(f, x))
<1>6. \A x : UbwcPlanes(f, w, x) = A(x) + B(x) + C(x) + D(x)
  BY DEF UbwcPlanes, YPlane, UvPlane
<1> HIDE DEF y, ym, um, f
<1>7. A(h) \in Nat /\ A(Half(h)) \in Nat /\ A(h) <= 2 * A(Half(h))
  BY <1>3, <1>4, <1>5, PageDouble
<1>8. B(h) \in Nat /\ B(Half(h)) \in Nat /\ B(h) <= 2 * B(Half(h))
  BY <1>3, <1>4, <1>5, PageDouble
<1>9. C(h) \in Nat /\ C(Half(h)) \in Nat /\ C(h) <= 2 * C(Half(h))
  BY <1>3, <1>4, <1>5, PageDouble
<1>10. D(h) \in Nat /\ D(Half(h)) \in Nat /\ D(h) <= 2 * D(Half(h))
  BY <1>3, <1>4, <1>5, PageDouble
<1> HIDE DEF A, B, C, D
<1>11. UbwcPlanes(f, w, h) <= 2 * UbwcPlanes(f, w, Half(h))
  BY <1>6, <1>7, <1>8, <1>9, <1>10
<1> QED BY <1>11 DEF f
-----------------------------------------------------------------------------
\* What stands behind a plane: the margin, and for large frames one row more.
LEMMA SizeParts ==
  ASSUME NEW v \in Nat, NEW w \in Nat, v <= w, NEW g \in Nat, NEW h \in Nat, g <= h,
         NEW m \in Nat, NEW n \in Nat, m <= n
  PROVE  /\ Large(w, h, n) \in Nat /\ n <= Large(w, h, n) /\ Large(v, g, m) <= Large(w, h, n)
<1>1. /\ MSM_MEDIA_ALIGN(v, 512) \in Nat /\ MSM_MEDIA_ALIGN(w, 512) \in Nat
      /\ MSM_MEDIA_ALIGN(v, 512) <= MSM_MEDIA_ALIGN(w, 512)
  BY AlignBounds, AlignMonotone DEF Aligns
<1> DEFINE a == m + MSM_MEDIA_ALIGN(v, 512) * 512
           b == n + MSM_MEDIA_ALIGN(w, 512) * 512
<1>2. a \in Nat /\ b \in Nat /\ a <= b /\ m <= a /\ n <= b /\ m <= b
  BY <1>1
<1>3. Large(v, g, m) = IF v >= 2400 /\ g >= 2400 THEN Page(a) ELSE m
  BY DEF Large
<1>4. Large(w, h, n) = IF w >= 2400 /\ h >= 2400 THEN Page(b) ELSE n
  BY DEF Large
<1> HIDE DEF a, b
<1>5. Page(a) \in Nat /\ Page(b) \in Nat /\ Page(a) <= Page(b) /\ b <= Page(b)
  BY <1>2, PageFacts
<1> QED BY <1>2, <1>3, <1>4, <1>5
-----------------------------------------------------------------------------
\* A larger frame has a buffer that is no smaller.
LEMMA SizeMonotone ==
  ASSUME NEW fmt \in color_fmts, NEW v \in Nat, NEW w \in Nat, v <= w,
         NEW g \in Nat, NEW h \in Nat, g <= h
  PROVE  VENUS_BUFFER_SIZE(fmt, v, g) <= VENUS_BUFFER_SIZE(fmt, w, h)
<1> DEFINE Planes(x, y) == YPlane(fmt, x, y) + UvPlane(fmt, x, y) + 4096
           Extra8(x) == MSM_MEDIA_MAX(VENUS_EXTRADATA_SIZE, 8 * VENUS_Y_STRIDE(fmt, x))
           Extra48(x) == MSM_MEDIA_MAX(VENUS_EXTRADATA_SIZE + 8192, 48 * VENUS_Y_STRIDE(fmt, x))
<1>1. \A x, y \in Nat : x <= y => Page(x) \in Nat /\ Page(y) \in Nat /\ Page(x) <= Page(y)
  BY PageFacts
<1>2. ASSUME fmt \in Yuv
      PROVE  /\ Planes(v, g) \in Nat /\ Planes(w, h) \in Nat /\ Planes(v, g) <= Planes(w, h)
             /\ Extra8(v) \in Nat /\ Extra8(w) \in Nat /\ Extra8(v) <= Extra8(w)
             /\ Extra48(v) \in Nat /\ Extra48(w) \in Nat /\ Extra48(v) <= Extra48(w)
  <2>1. /\ VENUS_Y_STRIDE(fmt, v) \in Nat /\ VENUS_Y_STRIDE(fmt, w) \in Nat
        /\ VENUS_Y_STRIDE(fmt, v) <= VENUS_Y_STRIDE(fmt, w)
    BY <1>2, YStrideFacts
  <2>2. /\ YPlane(fmt, v, g) \in Nat /\ UvPlane(fmt, v, g) \in Nat
        /\ YPlane(fmt, w, h) \in Nat /\ YPlane(fmt, v, g) <= YPlane(fmt, w, h)
        /\ UvPlane(fmt, w, h) \in Nat /\ UvPlane(fmt, v, g) <= UvPlane(fmt, w, h)
    BY <1>2, PlanesFacts
  <2> QED BY <2>1, <2>2 DEF MSM_MEDIA_MAX, VENUS_EXTRADATA_SIZE
<1> HIDE DEF Planes, Extra8, Extra48
<1>3. CASE fmt \in {"NV21", "NV12"}
  <2>1. \A x, y : VENUS_BUFFER_SIZE(fmt, x, y) = Large(x, y, Page(Planes(x, y) + Extra8(x)))
    BY <1>3 DEF VENUS_BUFFER_SIZE, Planes, Extra8
  <2>2. /\ Page(Planes(v, g) + Extra8(v)) \in Nat /\ Page(Planes(w, h) + Extra8(w)) \in Nat
        /\ Page(Planes(v, g) + Extra8(v)) <= Page(Planes(w, h) + Extra8(w))
    BY <1>1, <1>2, <1>3 DEF Yuv, Linear
  <2> QED BY <2>1, <2>2, SizeParts
<1>4. CASE fmt = "P010"
  <2>1. \A x, y : VENUS_BUFFER_SIZE(fmt, x, y) = Page(Planes(x, y) + Extra8(x))
    BY <1>4 DEF VENUS_BUFFER_SIZE, Planes, Extra8
  <2> QED BY <1>1, <1>2, <1>4, <2>1 DEF Yuv, Linear
<1>5. CASE fmt = "NV12_MVTB"
  <2>1. \A x, y : VENUS_BUFFER_SIZE(fmt, x, y) = Page(2 * Planes(x, y) + 16384)
    BY <1>5 DEF VENUS_BUFFER_SIZE, Planes, VENUS_EXTRADATA_SIZE
  <2> QED BY <1>1, <1>2, <1>5, <2>1 DEF Yuv, Linear
<1>6. CASE fmt = "NV12_UBWC"
  <2>1. \A x, y : VENUS_BUFFER_SIZE(fmt, x, y)
                    = Large(x, y, Page(2 * UbwcPlanes(fmt, x, Half(y)) + Extra48(x)))
    BY <1>6 DEF VENUS_BUFFER_SIZE, Extra48
  <2>2. Half(g) \in Nat /\ Half(h) \in Nat /\ Half(g) <= Half(h) /\ fmt \in Yuv
    BY <1>6, HalfFacts DEF Yuv, YuvUbwc
  <2>3. /\ UbwcPlanes(fmt, v, Half(g)) \in Nat /\ UbwcPlanes(fmt, w, Half(h)) \in Nat
        /\ UbwcPlanes(fmt, v, Half(g)) <= UbwcPlanes(fmt, w, Half(h))
    <3>1. \A x, y \in Nat : x <= y => /\ UbwcPlanes(fmt, v, x) \in Nat
                                      /\ UbwcPlanes(fmt, w, y) \in Nat
                                      /\ UbwcPlanes(fmt, v, x) <= UbwcPlanes(fmt, w, y)
      <4>1. fmt \in Yuv
        BY <2>2
      <4> QED BY <4>1, UbwcMonotone
    <3> QED BY <2>2, <3>1
  <2> DEFINE a == 2 * UbwcPlanes(fmt, v, Half(g)) + Extra48(v)
             b == 2 * UbwcPlanes(fmt, w, Half(h)) + Extra48(w)
  <2>4. a \in Nat /\ b \in Nat /\ a <= b
    BY <1>2, <2>2, <2>3
  <2> HIDE DEF a, b
  <2>5. Page(a) \in Nat /\ Page(b) \in Nat /\ Page(a) <= Page(b)
    BY <1>1, <2>4
  <2>6. Large(v, g, Page(a)) <= Large(w, h, Page(b))
    BY <2>5, SizeParts
  <2> QED BY <2>1, <2>6 DEF a, b
<1>7. CASE fmt \in {"NV12_BPP10_UBWC", "P010_UBWC"}
  <2>1. fmt \in Yuv
    BY <1>7 DEF Yuv, YuvUbwc
  <2>2. /\ UbwcPlanes(fmt, v, g) \in Nat /\ UbwcPlanes(fmt, w, h) \in Nat
        /\ UbwcPlanes(fmt, v, g) <= UbwcPlanes(fmt, w, h)
    BY <2>1, UbwcMonotone
  <2>3. \A x, y : VENUS_BUFFER_SIZE(fmt, x, y)
                    = IF fmt = "P010_UBWC" THEN UbwcPlanes(fmt, x, y)
                      ELSE Page(UbwcPlanes(fmt, x, y) + Extra48(x))
    BY <1>7 DEF VENUS_BUFFER_SIZE, Extra48
  <2> QED BY <1>1, <1>2, <2>1, <2>2, <2>3
<1>8. CASE fmt \in Rgb
  <2> DEFINE Meta(x, y) == VENUS_RGB_META_STRIDE(fmt, x) * VENUS_RGB_META_SCANLINES(fmt, y)
             Pixels(x, y) == VENUS_RGB_STRIDE(fmt, x) * VENUS_RGB_SCANLINES(fmt, y)
  <2>1. \A x, y : VENUS_BUFFER_SIZE(fmt, x, y)
                    = IF fmt = "RGBA8888" THEN Page(Pixels(x, y))
                      ELSE Page(Pixels(x, y)) + Page(Meta(x, y))
    BY <1>8 DEF VENUS_BUFFER_SIZE, RgbPlane, RgbMetaPlane, Rgb, RgbUbwc
  <2>2. Pixels(v, g) \in Nat /\ Pixels(w, h) \in Nat /\ Pixels(v, g) <= Pixels(w, h)
    <3>1. /\ VENUS_RGB_STRIDE(fmt, v) \in Nat /\ VENUS_RGB_STRIDE(fmt, w) \in Nat
          /\ VENUS_RGB_STRIDE(fmt, v) <= VENUS_RGB_STRIDE(fmt, w)
      BY <1>8, RgbFacts
    <3>2. /\ VENUS_RGB_SCANLINES(fmt, g) \in Nat /\ VENUS_RGB_SCANLINES(fmt, h) \in Nat
          /\ VENUS_RGB_SCANLINES(fmt, g) <= VENUS_RGB_SCANLINES(fmt, h)
      BY <1>8, RgbFacts
    <3> QED BY <3>1, <3>2, TimesMonotone
  <2>3. Meta(v, g) \in Nat /\ Meta(w, h) \in Nat /\ Meta(v, g) <= Meta(w, h)
    <3>1. \A x, y \in Nat, r \in Tiles, a \in Aligns :
            x <= y => /\ MSM_MEDIA_ALIGN(MSM_MEDIA_ROUNDUP(x, r), a) \in Nat
                      /\ MSM_MEDIA_ALIGN(MSM_MEDIA_ROUNDUP(y, r), a) \in Nat
                      /\ MSM_MEDIA_ALIGN(MSM_MEDIA_ROUNDUP(x, r), a)
                           <= MSM_MEDIA_ALIGN(MSM_MEDIA_ROUNDUP(y, r), a)
      BY TileFacts
    <3>2. 4 \in Tiles /\ 16 \in Tiles /\ 16 \in Aligns /\ 64 \in Aligns
      BY DEF Tiles, Aligns
    <3>3. /\ VENUS_RGB_META_STRIDE(fmt, v) \in Nat /\ VENUS_RGB_META_STRIDE(fmt, w) \in Nat
          /\ VENUS_RGB_META_STRIDE(fmt, v) <= VENUS_RGB_META_STRIDE(fmt, w)
      BY <3>1, <3>2 DEF VENUS_RGB_META_STRIDE
    <3>4. /\ VENUS_RGB_META_SCANLINES(fmt, g) \in Nat /\ VENUS_RGB_META_SCANLINES(fmt, h) \in Nat
          /\ VENUS_RGB_META_SCANLINES(fmt, g) <= VENUS_RGB_META_SCANLINES(fmt, h)
      BY <3>1, <3>2 DEF VENUS_RGB_META_SCANLINES
    <3> QED BY <3>3, <3>4, TimesMonotone
  <2> HIDE DEF Meta, Pixels
  <2> QED BY <1>1, <2>1, <2>2, <2>3
<1> QED BY <1>3, <1>4, <1>5, <1>6, <1>7, <1>8 DEF color_fmts, Yuv, Linear, YuvUbwc

\* A buffer holds the planes of its format, with the extra data if any.
LEMMA BufferFits ==
  ASSUME NEW fmt \in color_fmts, NEW w \in Nat, NEW h \in Nat
  PROVE  LayoutsFit(fmt, w, h)
<1> DEFINE y == YPlane(fmt, w, h)
           uv == UvPlane(fmt, w, h)
           stride == VENUS_Y_STRIDE(fmt, w)
           extra8 == MSM_MEDIA_MAX(VENUS_EXTRADATA_SIZE, 8 * stride)
           extra48 == MSM_MEDIA_MAX(VENUS_EXTRADATA_SIZE + 8192, 48 * stride)
<1>1. \A n \in Nat : Page(n) \in Nat /\ n <= Page(n) /\ Page(n) < n + 4096
  BY PageFacts
<1>2. ASSUME fmt \in Yuv
      PROVE  /\ y \in Nat /\ uv \in Nat
             /\ extra8 \in Nat /\ 16384 <= extra8 /\ extra48 \in Nat /\ 16384 <= extra48
  <2>1. stride \in Nat
    BY <1>2, YStrideFacts
  <2>2. y \in Nat /\ uv \in Nat
    BY <1>2, PlanesFacts
  <2> QED BY <2>1, <2>2 DEF MSM_MEDIA_MAX, VENUS_EXTRADATA_SIZE
<1>3. \A n \in Nat : Large(w, h, n) \in Nat /\ n <= Large(w, h, n)
  BY SizeParts
<1> HIDE DEF y, uv, extra8, extra48
<1>4. CASE fmt \in {"NV12", "NV21", "P010"}
  <2> DEFINE n == y + uv + 4096 + extra8
  <2>1. y \in Nat /\ uv \in Nat /\ extra8 \in Nat /\ n \in Nat /\ 16384 <= extra8
    BY <1>2, <1>4 DEF Yuv, Linear
  <2>2. Page(n) \in Nat /\ n <= Page(n)
    BY <1>1, <2>1
  <2>3. VENUS_BUFFER_SIZE(fmt, w, h) = IF fmt = "P010" THEN Page(n) ELSE Large(w, h, Page(n))
    BY <1>4 DEF VENUS_BUFFER_SIZE, y, uv, extra8
  <2>4. Page(n) <= VENUS_BUFFER_SIZE(fmt, w, h) /\ VENUS_BUFFER_SIZE(fmt, w, h) \in Nat
    BY <1>3, <2>2, <2>3
  <2>5. Layouts(fmt, w, h) = {Page(y) + uv} /\ Extra(fmt) = 16384
    BY <1>4 DEF Layouts, Extra, Yuv, Linear, VENUS_EXTRADATA_SIZE, y, uv
  <2>6. Page(y) \in Nat /\ Page(y) < y + 4096
    BY <1>1, <2>1
  <2>7. Page(y) + uv + 16384 <= VENUS_BUFFER_SIZE(fmt, w, h)
    BY <2>1, <2>2, <2>4, <2>6
  <2> QED BY <2>5, <2>7 DEF LayoutsFit
<1>5. CASE fmt = "NV12_MVTB"
  <2> DEFINE n == 2 * (y + uv + 4096) + 16384
  <2>1. y \in Nat /\ uv \in Nat /\ n \in Nat
    BY <1>2, <1>5 DEF Yuv, Linear
  <2>2. VENUS_BUFFER_SIZE(fmt, w, h) = Page(n)
    BY <1>5 DEF VENUS_BUFFER_SIZE, y, uv, VENUS_EXTRADATA_SIZE
  <2>3. Layouts(fmt, w, h) = {y + uv + y + uv} /\ Extra(fmt) = 16384
    BY <1>5 DEF Layouts, Extra, Yuv, Linear, VENUS_EXTRADATA_SIZE, VENUS_VIEW2_OFFSET, y, uv
  <2>4. Page(n) \in Nat /\ n <= Page(n)
    BY <1>1, <2>1
  <2>5. y + uv + y + uv + 16384 <= VENUS_BUFFER_SIZE(fmt, w, h)
    BY <2>1, <2>2, <2>4
  <2> QED BY <2>3, <2>5 DEF LayoutsFit
<1>6. CASE fmt = "NV12_UBWC"
  <2> DEFINE a == UbwcPlanes(fmt, w, h)
             b == UbwcPlanes(fmt, w, Half(h))
             n == 2 * b + extra48
  <2>1. fmt \in Yuv /\ Half(h) \in Nat
    BY <1>6, HalfFacts DEF Yuv, YuvUbwc
  <2>2. a \in Nat /\ b \in Nat /\ a <= 2 * b
    <3>1. \A x \in Nat : UbwcPlanes(fmt, w, x) \in Nat
      BY <2>1, UbwcMonotone, SMTT(60)
    <3>2. a <= 2 * b
      BY <1>6, FieldsHoldPicture
    <3> QED BY <2>1, <3>1, <3>2
  <2>3. Layouts(fmt, w, h) = {a, 2 * b} /\ Extra(fmt) = 16384
    BY <1>6, <2>1 DEF Layouts, Extra, VENUS_EXTRADATA_SIZE
  <2>4. VENUS_BUFFER_SIZE(fmt, w, h) = Large(w, h, Page(n))
    BY <1>6 DEF VENUS_BUFFER_SIZE, extra48
  <2> HIDE DEF a, b
  <2>5. n \in Nat /\ 16384 <= extra48 /\ extra48 \in Nat
    BY <1>2, <2>1, <2>2
  <2>6. Page(n) \in Nat /\ n <= Page(n)
    BY <1>1, <2>5
  <2>7. n <= VENUS_BUFFER_SIZE(fmt, w, h) /\ VENUS_BUFFER_SIZE(fmt, w, h) \in Nat
    BY <1>3, <2>4, <2>5, <2>6
  <2>8. /\ a + 16384 <= VENUS_BUFFER_SIZE(fmt, w, h)
        /\ 2 * b + 16384 <= VENUS_BUFFER_SIZE(fmt, w, h)
    BY <2>2, <2>5, <2>7
  <2> QED BY <2>3, <2>8 DEF LayoutsFit
<1>7. CASE fmt \in {"NV12_BPP10_UBWC", "P010_UBWC"}
  <2> DEFINE a == UbwcPlanes(fmt, w, h)
  <2>1. fmt \in Yuv
    BY <1>7 DEF Yuv, YuvUbwc
  <2>2. a \in Nat
    BY <2>1, UbwcMonotone
  <2>3. Layouts(fmt, w, h) = {a} /\ Extra(fmt) = IF fmt = "P010_UBWC" THEN 0 ELSE 16384
    BY <1>7, <2>1 DEF Layouts, Extra, VENUS_EXTRADATA_SIZE
  <2>4. VENUS_BUFFER_SIZE(fmt, w, h) = IF fmt = "P010_UBWC" THEN a ELSE Page(a + extra48)
    BY <1>7 DEF VENUS_BUFFER_SIZE, extra48
  <2> HIDE DEF a
  <2>5. extra48 \in Nat /\ 16384 <= extra48 /\ a + extra48 \in Nat
    BY <1>2, <2>1, <2>2
  <2>6. Page(a + extra48) \in Nat /\ a + extra48 <= Page(a + extra48)
    BY <1>1, <2>5
  <2>7. a + Extra(fmt) <= VENUS_BUFFER_SIZE(fmt, w, h)
    BY <2>2, <2>3, <2>4, <2>5, <2>6
  <2> QED BY <2>3, <2>7 DEF LayoutsFit
<1>8. CASE fmt \in Rgb
  <2> DEFINE a == VENUS_RGB_STRIDE(fmt, w) * VENUS_RGB_SCANLINES(fmt, h)
             m == VENUS_RGB_META_STRIDE(fmt, w) * VENUS_RGB_META_SCANLINES(fmt, h)
  <2>1. a \in Nat
    <3>1. VENUS_RGB_STRIDE(fmt, w) \in Nat /\ VENUS_RGB_SCANLINES(fmt, h) \in Nat
      BY <1>8, RgbFacts
    <3> QED BY <3>1, TimesMonotone
  <2>2. m \in Nat
    <3>1. 4 \in Tiles /\ 16 \in Tiles /\ 16 \in Aligns /\ 64 \in Aligns
      BY DEF Tiles, Aligns
    <3>2. VENUS_RGB_META_STRIDE(fmt, w) \in Nat /\ VENUS_RGB_META_SCANLINES(fmt, h) \in Nat
      BY <3>1, TileFacts DEF VENUS_RGB_META_STRIDE, VENUS_RGB_META_SCANLINES
    <3> QED BY <3>2, TimesMonotone
  <2>3. /\ Layouts(fmt, w, h) = {IF fmt \in RgbUbwc THEN Page(m) + Page(a) ELSE Page(a)}
        /\ Extra(fmt) = 0
    BY <1>8 DEF Layouts, Extra, RgbPlane, RgbMetaPlane, Rgb, RgbUbwc, Yuv, Linear, YuvUbwc
  <2>4. VENUS_BUFFER_SIZE(fmt, w, h)
          = IF fmt \in RgbUbwc THEN Page(a) + Page(m) ELSE Page(a)
    BY <1>8 DEF VENUS_BUFFER_SIZE, RgbPlane, RgbMetaPlane, Rgb, RgbUbwc
  <2> HIDE DEF a, m
  <2>5. Page(a) \in Nat /\ Page(m) \in Nat
    BY <1>1, <2>1, <2>2
  <2>6. \A need \in Layouts(fmt, w, h) : need + Extra(fmt) <= VENUS_BUFFER_SIZE(fmt, w, h)
    BY <2>3, <2>4, <2>5
  <2> QED BY <2>6 DEF LayoutsFit
<1> QED BY <1>4, <1>5, <1>6, <1>7, <1>8 DEF color_fmts, Yuv, Linear, YuvUbwc

\* Every line of the frame fits the stride and has a scanline.
LEMMA LinesHavePlace ==
  ASSUME NEW fmt \in color_fmts, NEW w \in Nat, NEW h \in Nat
  PROVE  LinesFit(fmt, w, h)
<1>1. CASE fmt \in Yuv
  <2>1. /\ VENUS_Y_STRIDE(fmt, w) \in Nat /\ LineBytes(fmt, w) <= VENUS_Y_STRIDE(fmt, w)
        /\ VENUS_Y_SCANLINES(fmt, h) \in Nat /\ h <= VENUS_Y_SCANLINES(fmt, h)
        /\ VENUS_UV_SCANLINES(fmt, h) \in Nat /\ h <= 2 * VENUS_UV_SCANLINES(fmt, h)
    BY <1>1, YStrideFacts, YScanlinesFacts, UvScanlinesFacts, SMTT(60)
  <2>2. LineBytes(fmt, w) \in Nat
    BY <1>1 DEF LineBytes, Yuv, Linear, YuvUbwc
  <2> QED BY <1>1, <2>1, <2>2 DEF LinesFit
<1>2. CASE fmt \in Rgb
  <2>1. /\ VENUS_RGB_STRIDE(fmt, w) \in Nat /\ LineBytes(fmt, w) <= VENUS_RGB_STRIDE(fmt, w)
        /\ VENUS_RGB_SCANLINES(fmt, h) \in Nat /\ h <= VENUS_RGB_SCANLINES(fmt, h)
    BY <1>2, RgbFacts
  <2>2. LineBytes(fmt, w) \in Nat /\ fmt \notin Yuv
    BY <1>2 DEF LineBytes, Rgb, RgbUbwc, Yuv, Linear, YuvUbwc
  <2> QED BY <2>1, <2>2 DEF LinesFit
<1> QED BY <1>1, <1>2 DEF color_fmts

\* Rounding the number of tiles up to a line of metadata loses none.
LEMMA TilesCover ==
  ASSUME NEW n \in Nat, NEW r \in Tiles, NEW a \in {16, 64}
  PROVE  MSM_MEDIA_ALIGN(MSM_MEDIA_ROUNDUP(n, r), a) * r >= n
<1> DEFINE k == MSM_MEDIA_ROUNDUP(n, r)
           up == MSM_MEDIA_ALIGN(k, a)
<1>1. k \in Nat /\ k * r >= n
  BY DEF MSM_MEDIA_ROUNDUP, Tiles
<1>2. up \in Nat /\ k <= up
  <2>1. a \in Aligns
    BY DEF Aligns
  <2>2. k \in Nat
    BY <1>1
  <2> HIDE DEF k
  <2> QED BY <2>1, <2>2, AlignBounds
<1> HIDE DEF k, up
<1>3. r \in Nat
  BY DEF Tiles
<1>4. k * r <= up * r
  BY <1>1, <1>2, <1>3, TimesMonotone
<1>5. k * r \in Nat /\ up * r \in Nat
  BY <1>1, <1>2, <1>3
<1>6. up * r >= n
  BY <1>1, <1>4, <1>5
<1> QED BY <1>6 DEF k, up

\* Every tile has its byte of metadata.
LEMMA TilesHavePlace ==
  ASSUME NEW fmt \in color_fmts, NEW w \in Nat, NEW h \in Nat
  PROVE  TilesFit(fmt, w, h)
<1>1. \A n \in Nat, r \in Tiles, a \in {16, 64} :
        MSM_MEDIA_ALIGN(MSM_MEDIA_ROUNDUP(n, r), a) * r >= n
  BY TilesCover
<1>2. Half(w) \in Nat /\ Half(h) \in Nat
  BY HalfFacts
<1>3. y_tile_width(fmt) \in Tiles /\ y_tile_height(fmt) \in Tiles /\ uv_tile_width(fmt) \in Tiles
  BY DEF y_tile_width, y_tile_height, uv_tile_width, Tiles
<1>4. /\ VENUS_Y_META_STRIDE(fmt, w) * y_tile_width(fmt) >= w
      /\ VENUS_Y_META_SCANLINES(fmt, h) * y_tile_height(fmt) >= h
  BY <1>1, <1>3 DEF VENUS_Y_META_STRIDE, VENUS_Y_META_SCANLINES
<1>5. /\ VENUS_UV_META_STRIDE(fmt, w) * uv_tile_width(fmt) >= Half(w)
      /\ VENUS_UV_META_SCANLINES(fmt, h) * y_tile_height(fmt) >= Half(h)
  BY <1>1, <1>2, <1>3 DEF VENUS_UV_META_STRIDE, VENUS_UV_META_SCANLINES
<1>6. 4 \in Tiles /\ 16 \in Tiles
  BY DEF Tiles
<1>7. VENUS_RGB_META_STRIDE(fmt, w) * 16 >= w /\ VENUS_RGB_META_SCANLINES(fmt, h) * 4 >= h
  BY <1>1, <1>6 DEF VENUS_RGB_META_STRIDE, VENUS_RGB_META_SCANLINES
<1> QED BY <1>4, <1>5, <1>7 DEF TilesFit

\* Frames have sides that are numbers.
LEMMA SidesAreNumbers == Widths \subseteq Nat /\ Heights \subseteq Nat
BY FrameAssumption

-----------------------------------------------------------------------------
\* For every set of frame sizes (msm_media_info.h, VENUS_BUFFER_SIZE): the
\* buffer holds all planes drawn for its format, in the code's alignments, and
\* the extra data except for P010_UBWC and RGB; each line and each tile's
\* metadata has its place; no smaller frame needs a larger buffer.
THEOREM BuffersHoldFrames == MediaSpec => []BufferHoldsFrame
<1>1. MediaInit => mdFrame \in Frames
  BY DEF MediaInit
<1>2. mdFrame \in Frames /\ [MediaNext]_mdFrame => (mdFrame \in Frames)'
  BY DEF MediaNext
<1>3. mdFrame \in Frames => BufferHoldsFrame
  <2> SUFFICES ASSUME mdFrame \in Frames PROVE BufferHoldsFrame
    OBVIOUS
  <2> DEFINE fmt == mdFrame.fmt
             w == mdFrame.w
             h == mdFrame.h
  <2>1. fmt \in color_fmts /\ w \in Nat /\ h \in Nat /\ Widths \subseteq Nat /\ Heights \subseteq Nat
    <3>1. Widths \subseteq Nat /\ Heights \subseteq Nat
      BY SidesAreNumbers
    <3>2. fmt \in color_fmts /\ w \in Widths /\ h \in Heights
      BY DEF Frames
    <3> QED BY <3>1, <3>2
  <2> HIDE DEF fmt, w, h
  <2>2. LayoutsFit(fmt, w, h) /\ LinesFit(fmt, w, h) /\ TilesFit(fmt, w, h)
    BY <2>1, BufferFits, LinesHavePlace, TilesHavePlace
  <2>3. SmallerFit(fmt, w, h)
    BY <2>1, SizeMonotone DEF SmallerFit
  <2> QED BY <2>2, <2>3 DEF BufferHoldsFrame, fmt, w, h
<1> QED BY <1>1, <1>2, <1>3, PTL DEF MediaSpec

-----------------------------------------------------------------------------
(* The seed of the hash function.                                             *)

\* A seed that waits for the compare-and-swap is a real one, and a thread that
\* is about to hash comes behind a compare-and-swap, its own or another's: from
\* then on the variable does not change.  SeedAgreed alone does not say why
\* the variable is set when a thread reads it the second time.
SeedInv ==
  /\ sdpc \in [Threads -> {"idle", "draw", "swap", "hash"}]
  /\ sdseed \in [Threads -> Seeds \cup {Unset}]
  /\ random_seed \in Seeds \cup {Unset}
  /\ \A t \in Threads : /\ sdpc[t] = "swap" => sdseed[t] # Unset
                        /\ sdpc[t] = "hash" => random_seed # Unset
  /\ SeedAgreed

\* At the start of the process no thread has hashed anything.
LEMMA SeedInitial == SeedInit => SeedInv
BY DEF SeedInit, SeedInv, SeedAgreed

\* Every step of every thread preserves the invariant.
LEMMA SeedInductive == SeedInv /\ [SeedNext]_seedVars => SeedInv'
<1> SUFFICES ASSUME SeedInv, [SeedNext]_seedVars PROVE SeedInv'
  OBVIOUS
<1> USE DEF SeedInv, SeedAgreed, Goto
<1>1. ASSUME NEW t \in Threads, lh_char_hash(t) PROVE SeedInv'
  BY <1>1 DEF lh_char_hash
<1>2. ASSUME NEW t \in Threads, json_c_get_random_seed(t) PROVE SeedInv'
  BY <1>2 DEF json_c_get_random_seed
<1>3. ASSUME NEW t \in Threads, get_dev_random_seed_fails(t) PROVE SeedInv'
  BY <1>3 DEF get_dev_random_seed_fails
<1>4. ASSUME NEW t \in Threads, CompareAndSwap(t) PROVE SeedInv'
  \* Nothing has been hashed with an unset variable, so that setting it does
  \* not change what the hashed names agree on.
  <2>1. random_seed = Unset => sdused = {}
    OBVIOUS
  <2>2. random_seed # Unset => random_seed' = random_seed
    BY <1>4 DEF CompareAndSwap
  <2>3. random_seed' # Unset /\ random_seed' \in Seeds \cup {Unset}
    BY <1>4 DEF CompareAndSwap
  <2> QED
    BY <1>4, <2>1, <2>2, <2>3 DEF CompareAndSwap
<1>5. ASSUME NEW t \in Threads, hashlittle(t) PROVE SeedInv'
  BY <1>5 DEF hashlittle
<1>6. CASE UNCHANGED seedVars
  BY <1>6 DEF seedVars
<1> QED
  BY <1>1, <1>2, <1>3, <1>4, <1>5, <1>6 DEF SeedNext

\* However many threads race for the first hash (linkhash.c, lh_char_hash),
\* every name is hashed with one seed, which is not the mark of an unset one.
THEOREM SeedAlwaysAgreed == SeedSpec => []SeedAgreed
<1>1. SeedInv => SeedAgreed
  BY DEF SeedInv
<1> QED
  BY SeedInitial, SeedInductive, <1>1, PTL DEF SeedSpec

-----------------------------------------------------------------------------
(* The growing buffer.                                                        *)

\* Between the client's calls there is room for the terminator.
Pbuf == [size : Nat, bpos : Nat, closed : BOOLEAN, inside : BOOLEAN]
PbInv == pbuf \in Pbuf /\ pbuf.bpos < pbuf.size /\ TextWholeAndClosed

\* The buffer grows to what is asked for.
LEMMA ExtendLemma ==
  ASSUME NEW p \in Pbuf, NEW n \in Nat
  PROVE  /\ printbuf_extend(p, n) \in Pbuf /\ printbuf_extend(p, n).size >= n
         /\ printbuf_extend(p, n).bpos = p.bpos /\ printbuf_extend(p, n).inside = p.inside
BY DEF printbuf_extend, Pbuf

\* Bytes that fit, and the terminator that fits behind them, are written inside
\* the buffer.
LEMMA BytesLemma ==
  ASSUME NEW p \in Pbuf, NEW n \in Nat, p.inside, p.bpos + n <= p.size
  PROVE  LET q == Bytes(p, n)
         IN  q \in Pbuf /\ q.inside /\ q.bpos = p.bpos + n /\ q.size = p.size
<1> DEFINE end == p.bpos + n
<1>1. (p.inside /\ end <= p.size) = TRUE /\ end \in Nat
  BY DEF Pbuf
<1>2. Bytes(p, n) = [p EXCEPT !.bpos = end, !.closed = FALSE, !.inside = TRUE]
  BY Zenon, <1>1 DEF Bytes
<1> HIDE DEF end
<1>3. Bytes(p, n) \in Pbuf
  BY <1>1, <1>2 DEF Pbuf
<1>4. Bytes(p, n).inside /\ Bytes(p, n).bpos = end /\ Bytes(p, n).size = p.size
  BY <1>2 DEF Pbuf
<1> QED BY <1>3, <1>4 DEF end

LEMMA CloseLemma ==
  ASSUME NEW p \in Pbuf, p.inside, p.bpos < p.size
  PROVE  LET q == Close(p)
         IN  q \in Pbuf /\ q.inside /\ q.closed /\ q.bpos = p.bpos /\ q.size = p.size
<1>1. (p.inside /\ p.bpos < p.size) = TRUE
  OBVIOUS
<1>2. Close(p) = [p EXCEPT !.closed = TRUE, !.inside = TRUE]
  BY Zenon, <1>1 DEF Close
<1> QED BY <1>2 DEF Pbuf

LEMMA PieceLemma ==
  ASSUME NEW p \in Pbuf, NEW n \in Nat, p.inside, p.bpos + n < p.size
  PROVE  LET q == Close(Bytes(p, n))
         IN  q \in Pbuf /\ q.inside /\ q.closed /\ q.bpos = p.bpos + n /\ q.bpos < q.size
<1> DEFINE b == Bytes(p, n)
<1>1. p.bpos \in Nat /\ p.size \in Nat
  BY DEF Pbuf
<1>2. b \in Pbuf /\ b.inside /\ b.bpos = p.bpos + n /\ b.size = p.size
  BY <1>1, BytesLemma
<1> HIDE DEF b
<1>3. /\ Close(b) \in Pbuf /\ Close(b).inside /\ Close(b).closed
      /\ Close(b).bpos = b.bpos /\ Close(b).size = b.size
  BY <1>1, <1>2, CloseLemma
<1> QED BY <1>2, <1>3 DEF b

\* A piece is appended whole, whatever its length and however full the buffer.
LEMMA AppendLemma ==
  ASSUME NEW p \in Pbuf, NEW n \in Nat, p.inside, p.bpos <= p.size
  PROVE  LET q == printbuf_memappend(p, n)
         IN  q \in Pbuf /\ q.inside /\ q.closed /\ q.bpos = p.bpos + n /\ q.bpos < q.size
<1> DEFINE r == IF p.size <= p.bpos + n + 1 THEN printbuf_extend(p, p.bpos + n + 1) ELSE p
<1>1. p.bpos \in Nat /\ p.size \in Nat /\ p.bpos + n + 1 \in Nat
  BY DEF Pbuf
<1>2. r \in Pbuf /\ r.inside /\ r.bpos = p.bpos /\ r.bpos + n < r.size
  <2>1. CASE p.size <= p.bpos + n + 1
    <3>1. /\ r \in Pbuf /\ r.size >= p.bpos + n + 1
          /\ r.bpos = p.bpos /\ r.inside = p.inside
      BY <1>1, <2>1, ExtendLemma
    <3> HIDE DEF r
    <3> QED BY <1>1, <3>1 DEF Pbuf
  <2>2. CASE ~(p.size <= p.bpos + n + 1)
    BY <1>1, <2>2
  <2> QED BY <2>1, <2>2
<1>3. printbuf_memappend(p, n) = Close(Bytes(r, n))
  BY DEF printbuf_memappend
<1> HIDE DEF r
<1> QED BY <1>2, <1>3, PieceLemma

\* Every call of the client keeps the invariant.
LEMMA PbInductive == ASSUME PbInv, [PbNext]_pbVars PROVE PbInv'
<1> USE DEF PbInv, TextWholeAndClosed
<1>0. pbuf.bpos \in Nat /\ pbuf.size \in Nat /\ pbuf.bpos <= pbuf.size /\ pwanted \in Nat
  BY DEF Pbuf
<1>1. CASE PbReset
  <2> DEFINE p == [pbuf EXCEPT !.bpos = 0]
  <2>1. p \in Pbuf /\ p.inside /\ p.bpos = 0 /\ p.bpos < p.size
    BY <1>0 DEF Pbuf
  <2>2. pbuf' = Close(p) /\ pwanted' = 0
    BY <1>1 DEF PbReset, printbuf_reset
  <2> HIDE DEF p
  <2>3. /\ pbuf' \in Pbuf /\ pbuf'.inside /\ pbuf'.closed
        /\ pbuf'.bpos = 0 /\ pbuf'.bpos < pbuf'.size
    BY <2>1, <2>2, CloseLemma
  <2> QED BY <2>2, <2>3
<1>2. ASSUME NEW n \in PieceLengths, Want(n),
             pbuf' \in {printbuf_memappend(pbuf, n), printbuf_memappend_fast(pbuf, n)}
      PROVE  PbInv'
  <2>1. n \in Nat /\ pwanted' = pwanted + n
    BY <1>2, PbAssumption DEF Want
  <2>2. CASE pbuf' = printbuf_memappend(pbuf, n)
    BY <1>0, <2>1, <2>2, AppendLemma
  <2>3. CASE pbuf' = Close(Bytes(pbuf, n)) /\ pbuf.size - pbuf.bpos > n
    <3>1. pbuf.bpos + n < pbuf.size
      BY <1>0, <2>1, <2>3
    <3> QED BY <2>1, <2>3, <3>1, PieceLemma
  <2> QED BY <1>2, <2>2, <2>3 DEF printbuf_memappend_fast
<1>3. ASSUME NEW n \in PieceLengths, NEW k \in PieceLengths, Want(n + k),
             pbuf' = printbuf_memappend(printbuf_memset(pbuf, n), k)
      PROVE  PbInv'
  <2> DEFINE q == IF pbuf.size < pbuf.bpos + n THEN printbuf_extend(pbuf, pbuf.bpos + n)
                  ELSE pbuf
             m == printbuf_memset(pbuf, n)
  <2>1. n \in Nat /\ k \in Nat /\ pwanted' = pwanted + (n + k) /\ pbuf.bpos + n \in Nat
    BY <1>0, <1>3, PbAssumption DEF Want
  <2>2. q \in Pbuf /\ q.inside /\ q.bpos = pbuf.bpos /\ q.bpos + n <= q.size
    <3>1. CASE pbuf.size < pbuf.bpos + n
      <4>1. q \in Pbuf /\ q.size >= pbuf.bpos + n /\ q.bpos = pbuf.bpos /\ q.inside
        BY <2>1, <3>1, ExtendLemma
      <4> HIDE DEF q
      <4> QED BY <1>0, <2>1, <4>1 DEF Pbuf
    <3>2. CASE ~(pbuf.size < pbuf.bpos + n)
      BY <1>0, <2>1, <3>2
    <3> QED BY <3>1, <3>2
  <2>3. m = Bytes(q, n)
    BY DEF printbuf_memset
  <2> HIDE DEF q
  <2>4. m \in Pbuf /\ m.inside /\ m.bpos = pbuf.bpos + n /\ m.bpos <= m.size
    <3>1. q.bpos \in Nat
      BY <2>2 DEF Pbuf
    <3> QED BY <2>1, <2>2, <2>3, <3>1, BytesLemma
  <2> HIDE DEF m
  <2>5. pbuf' = printbuf_memappend(m, k)
    BY <1>3 DEF m
  <2> QED BY <1>0, <2>1, <2>4, <2>5, AppendLemma
<1>4. CASE UNCHANGED pbVars
  BY <1>4 DEF pbVars
<1> QED BY <1>1, <1>2, <1>3, <1>4 DEF PbNext, PbAppend, PbIndent

\* printbuf_memappend, its fast form and printbuf_memset, whose allocations
\* succeed, never write behind the end of the buffer, and never lose a piece of
\* the text or its terminator.
THEOREM TextAlwaysWhole == PbSpec => []TextWholeAndClosed
<1>1. PbInit => PbInv
  BY PbAssumption DEF PbInit, PbInv, Pbuf, TextWholeAndClosed
<1>2. PbInv => TextWholeAndClosed
  BY DEF PbInv
<1> QED
  BY <1>1, <1>2, PbInductive, PTL DEF PbSpec


-----------------------------------------------------------------------------
(* RmnetCli.                                                               *)

\* A return value and an error code of the library.
Reportable(r, e) ==
    r \in DocumentedCodes \cup {RMNETCTL_API_ERR_MESSAGE_RECEIVE} /\ e \in Int

\* A checked command lacks an argument.
Missing == cmd \in DOMAIN Commands \ {"flowactivate"} /\ nargs < Commands[cmd].used

\* Until a command has been carried out nothing is printed and the variables
\* hold what rmnet_api_call gave them at its start.
Before ==
    /\ pc \in {"start", "dispatch", "end"} => out = {} /\ released = 0
    /\ pc \in {"start", "dispatch"} =>
          rc = RMNETCTL_LIB_ERR /\ err = RMNETCTL_CFG_FAILURE_NO_COMMAND
    /\ pc = "start" => cliHandle = "none"
    /\ pc \in {"dispatch", "end"} => cliHandle = "live"

\* At the label end the outcome is one of the library's, and between the two release
\* calls it has been.
After ==
    /\ pc \in {"end", "deinit"} => /\ Reportable(rc, err)
                                   /\ Missing => rc = RMNETCTL_INVALID_ARG
    /\ pc = "deinit" => /\ out = print_rmnet_api_status(rc, err)
                        /\ cliHandle = "freed" /\ released = 1

RunInv == nargs \in Nat /\ Before /\ After /\ RunsClean

-----------------------------------------------------------------------------
\* What a run that returns c and has printed s must satisfy, apart from its
\* handle and its arguments.
WellTold(c, s) ==
    /\ c = RMNETCTL_SUCCESS <=> "SUCCESS" \in s
    /\ "LIBRARY" \in s => c = RMNETCTL_LIB_ERR
    /\ "KERNEL" \in s => c = RMNETCTL_KERNEL_ERR
    /\ "INVALID_ARG" \in s => c = RMNETCTL_INVALID_ARG

\* print_rmnet_api_status, one return value at a time.
LEMMA PrintedLemma ==
    ASSUME NEW e
    PROVE  /\ print_rmnet_api_status(0, e) = {"SUCCESS"}
           /\ print_rmnet_api_status(1, e) =
                {"LIBRARY"} \cup
                (IF e \in {RMNETCTL_CFG_SUCCESS_HELP_COMMAND, RMNETCTL_CFG_FAILURE_NO_COMMAND}
                 THEN {"usage"} ELSE {})
           /\ print_rmnet_api_status(2, e) =
                IF e < RMNETCTL_API_ERR_ENUM_LENGTH THEN {"KERNEL"} ELSE {}
           /\ print_rmnet_api_status(3, e) = {"INVALID_ARG"}
           /\ print_rmnet_api_status(4, e) = {}
<1>1. 0 # 1 /\ 0 # 2 /\ 0 # 3 /\ 0 # 4 /\ 1 # 2 /\ 1 # 3 /\ 1 # 4 /\ 2 # 3 /\ 2 # 4 /\ 3 # 4
      /\ 1 # 0 /\ 2 # 0 /\ 3 # 0 /\ 4 # 0 /\ 2 # 1 /\ 3 # 1 /\ 4 # 1 /\ 3 # 2 /\ 4 # 2 /\ 4 # 3
  OBVIOUS
<1>2. QED
  BY <1>1, Zenon DEF print_rmnet_api_status, RMNETCTL_SUCCESS, RMNETCTL_LIB_ERR,
     RMNETCTL_KERNEL_ERR, RMNETCTL_INVALID_ARG

\* The status printed for an outcome is that of its return value.
LEMMA ReportLemma ==
    ASSUME NEW r, NEW e, Reportable(r, e)
    PROVE  WellTold(r, print_rmnet_api_status(r, e))
<1> DEFINE s == print_rmnet_api_status(r, e)
<1>1. r \in {0, 1, 2, 3, 4}
  BY DEF Reportable, DocumentedCodes, RMNETCTL_SUCCESS, RMNETCTL_LIB_ERR,
     RMNETCTL_KERNEL_ERR, RMNETCTL_INVALID_ARG, RMNETCTL_API_ERR_MESSAGE_RECEIVE
<1>2. /\ r = 0 => s = {"SUCCESS"}
      /\ r = 1 => s \in {{"LIBRARY"}, {"LIBRARY", "usage"}}
      /\ r = 2 => s \in {{"KERNEL"}, {}}
      /\ r = 3 => s = {"INVALID_ARG"}
      /\ r = 4 => s = {}
  BY PrintedLemma
<1> HIDE DEF s
<1>3. WellTold(r, s)
  BY <1>1, <1>2 DEF WellTold, RMNETCTL_SUCCESS, RMNETCTL_LIB_ERR, RMNETCTL_KERNEL_ERR,
     RMNETCTL_INVALID_ARG
<1>4. QED
  BY <1>3 DEF s

\* An outcome leaves the error code alone only where it tells of no error.
Fits(o) ==
    /\ Reportable(o[1], o[2])
    /\ o[2] = Untouched => o[1] \in {RMNETCTL_SUCCESS, RMNETCTL_INVALID_ARG}

\* Every outcome of the library can be reported.
LEMMA OutcomesLemma ==
    /\ \A o \in InitOutcomes : o[1] # RMNETCTL_SUCCESS =>
          o[1] = RMNETCTL_LIB_ERR /\ o[2] \in Int
    /\ \A o \in DataOutcomes \cup RtOutcomes(CliErrnos) : Fits(o)
<1> USE DEF RMNETCTL_SUCCESS, RMNETCTL_LIB_ERR, RMNETCTL_KERNEL_ERR, RMNETCTL_INVALID_ARG,
        Untouched
<1>1. \A o \in InitOutcomes : o[1] # RMNETCTL_SUCCESS => o[1] = RMNETCTL_LIB_ERR /\ o[2] \in Int
  BY DEF InitOutcomes, RMNETCTL_API_ERR_HNDL_INVALID, RMNETCTL_INIT_ERR_PROCESS_ID,
     RMNETCTL_INIT_ERR_NETLINK_FD, RMNETCTL_INIT_ERR_BIND
<1>2. ASSUME NEW o \in DataOutcomes
      PROVE  Fits(o)
  <2>1. /\ o[1] \in {0, 1, 2, 3} /\ o[2] \in Int
        /\ o[2] = -1 => o[1] \in {0, 3}
    BY DEF DataOutcomes, RMNETCTL_KERNEL_FIRST_ERR,
       RMNETCTL_API_ERR_MESSAGE_SEND, RMNETCTL_API_ERR_MESSAGE_RECEIVE,
       RMNETCTL_API_ERR_REQUEST_NULL, RMNETCTL_API_ERR_RESPONSE_NULL,
       RMNETCTL_API_ERR_MESSAGE_TYPE, RMNETCTL_API_ERR_STRING_TRUNCATION
  <2>2. QED
    BY <2>1 DEF Fits, Reportable, DocumentedCodes, RMNETCTL_API_ERR_MESSAGE_RECEIVE
<1>3. ASSUME NEW o \in RtOutcomes(CliErrnos)
      PROVE  Fits(o)
  <2>1. /\ o[1] \in {0, 1, 2, 3, 4} /\ o[2] \in Int
        /\ o[2] = -1 => o[1] \in {0, 3}
    <3>1. \/ o \in {<<0, 0>>, <<0, -1>>, <<3, -1>>, <<1, 3>>, <<1, 13>>, <<2, 25>>}
          \/ o \in {1, 2, 4} \X CliErrnos
      BY Zenon DEF RtOutcomes, RMNETCTL_API_FIRST_ERR, RMNETCTL_API_ERR_MESSAGE_SEND,
         RMNETCTL_API_ERR_MESSAGE_RECEIVE, RMNETCTL_API_ERR_RETURN_TYPE,
         RMNETCTL_API_ERR_RTA_FAILURE
    <3>2. CASE o \in {1, 2, 4} \X CliErrnos
      <4>1. PICK x \in {1, 2, 4}, y \in CliErrnos : o = <<x, y>>
        BY <3>2
      <4>2. QED
        BY <4>1, CliAssumption
    <3>3. CASE o \in {<<0, 0>>, <<0, -1>>, <<3, -1>>, <<1, 3>>, <<1, 13>>, <<2, 25>>}
      BY <3>3
    <3>4. QED
      BY <3>1, <3>2, <3>3
  <2>2. QED
    BY <2>1 DEF Fits, Reportable, DocumentedCodes, RMNETCTL_API_ERR_MESSAGE_RECEIVE
<1>4. QED
  BY <1>1, <1>2, <1>3

\* The tables of commands: what is used is checked for, but for names, which the
\* library refuses if they are null, and flowactivate's last number.
LEMMA CommandLemma ==
    ASSUME NEW c \in DOMAIN Commands
    PROVE  /\ Commands[c].checked \in Nat /\ Commands[c].used \in Nat
           /\ \/ Commands[c].unchecked = "name"
              \/ Commands[c].unchecked = "none" /\ Commands[c].checked = Commands[c].used
              \/ c = "flowactivate"
<1>1. CASE api = "rt"
  BY <1>1 DEF Commands, RtCommands, Exact, Cmd
<1>2. CASE api # "rt"
  BY <1>2 DEF Commands, DataCommands, Exact, Name, Cmd
<1>3. QED
  BY <1>1, <1>2
-----------------------------------------------------------------------------
\* A run that ends now: it agrees with what it printed, has no live handle and
\* refused a missing argument.
LEMMA EndsClean ==
    ASSUME NEW c, WellTold(c, out'), pc' = "exit", code' = c,
           cmd' # "" => cliHandle' # "live",
           Missing' => c \in {RMNETCTL_INVALID_ARG, RMNETCTL_LIB_ERR}
    PROVE  RunsClean'
BY DEF RunsClean, WellTold, StatusAgrees, HandleReturned, MissingArgumentRefused, Missing

LEMMA RunInitInv == CliInit => RunInv
BY CliAssumption DEF CliInit, RunInv, Before, After, RunsClean, StatusAgrees, HandleReturned,
   MissingArgumentRefused

\* What PrintStatus adds before anything was printed.
LEMMA PrintLemma ==
    ASSUME NEW r, NEW e, out = {}, PrintStatus(r, e)
    PROVE  out' = print_rmnet_api_status(r, e)
BY DEF PrintStatus

\* The errors rmnet_api_call reports of its own.
LEMMA OwnErrorsLemma ==
    ASSUME NEW r \in {RMNETCTL_LIB_ERR, RMNETCTL_INVALID_ARG}, NEW e \in Int
    PROVE  Reportable(r, e)
BY DEF Reportable, DocumentedCodes, RMNETCTL_SUCCESS, RMNETCTL_LIB_ERR, RMNETCTL_KERNEL_ERR,
   RMNETCTL_INVALID_ARG, RMNETCTL_API_ERR_MESSAGE_RECEIVE

\* So a run that reports one of them and returns it agrees with what it printed.
LEMMA OwnErrorAgrees ==
    ASSUME NEW r \in {RMNETCTL_LIB_ERR, RMNETCTL_INVALID_ARG},
           out = {}, \E e \in Int : PrintStatus(r, e)
    PROVE  WellTold(r, out')
BY OwnErrorsLemma, ReportLemma, PrintLemma

LEMMA RunKept == RunInv /\ [CliNext]_cliVars => RunInv'
<1> SUFFICES ASSUME RunInv, [CliNext]_cliVars PROVE RunInv'
  OBVIOUS
<1> USE DEF RunInv
<1>0. UNCHANGED <<cmd, nargs, api>> => nargs' \in Nat /\ Commands' = Commands /\ Missing' = Missing
  BY DEF Missing, Commands
<1>1. CASE NoWork
  <2>1. Missing' => RMNETCTL_LIB_ERR \in {RMNETCTL_INVALID_ARG, RMNETCTL_LIB_ERR}
    OBVIOUS
  <2>2. WellTold(RMNETCTL_LIB_ERR, out')
    <3>1. out = {} /\ \E e \in {100, 101} : PrintStatus(RMNETCTL_LIB_ERR, e)
      BY <1>1, Zenon DEF NoWork, Before, RMNETCTL_CFG_FAILURE_NO_COMMAND,
         RMNETCTL_CFG_SUCCESS_HELP_COMMAND
    <3>2. QED
      BY <3>1, OwnErrorAgrees
  <2>3. pc' = "exit" /\ code' = RMNETCTL_LIB_ERR /\ cliHandle' # "live"
    BY <1>1 DEF NoWork, Exit, Before
  <2>4. RunsClean'
    BY <2>1, <2>2, <2>3, EndsClean
  <2>5. QED
    BY <1>0, <1>1, <2>3, <2>4 DEF NoWork, Before, After
<1>2. CASE OpenApi
  <2> PICK o \in InitOutcomes :
          IF o[1] = RMNETCTL_SUCCESS
          THEN cliHandle' = "live" /\ pc' = "dispatch" /\ UNCHANGED <<out, code>>
          ELSE PrintStatus(o[1], o[2]) /\ Exit(RMNETCTL_LIB_ERR) /\ UNCHANGED cliHandle
    BY <1>2 DEF OpenApi
  <2>0. pc = "start" /\ UNCHANGED <<api, cmd, nargs, released, rc, err>>
    BY <1>2 DEF OpenApi
  <2>1. CASE o[1] = RMNETCTL_SUCCESS
    <3>1. RunsClean'
      BY <2>1 DEF RunsClean, StatusAgrees, HandleReturned, MissingArgumentRefused
    <3>2. QED
      BY <1>0, <2>0, <2>1, <3>1 DEF Before, After
  <2>2. CASE o[1] # RMNETCTL_SUCCESS
    <3>1. WellTold(RMNETCTL_LIB_ERR, out')
      <4>1. out = {} /\ o[1] = RMNETCTL_LIB_ERR /\ o[2] \in Int
        BY <2>0, <2>2, OutcomesLemma DEF Before
      <4>2. \E e \in Int : PrintStatus(RMNETCTL_LIB_ERR, e)
        BY <2>2, <4>1
      <4>3. QED
        BY <4>1, <4>2, OwnErrorAgrees
    <3>2. pc' = "exit" /\ code' = RMNETCTL_LIB_ERR /\ cliHandle' # "live"
      BY <2>0, <2>2 DEF Exit, Before
    <3>3. RunsClean'
      BY <3>1, <3>2, EndsClean
    <3>4. QED
      BY <1>0, <2>0, <3>2, <3>3 DEF Before, After
  <2>3. QED
    BY <2>1, <2>2
<1>3. CASE NoCommand
  <2>1. WellTold(RMNETCTL_LIB_ERR, out')
    <3>1. out = {} /\ PrintStatus(RMNETCTL_LIB_ERR, 101)
      BY <1>3, Zenon DEF NoCommand, Before, RMNETCTL_CFG_FAILURE_NO_COMMAND
    <3>2. QED
      BY <3>1, OwnErrorAgrees
  <2>2. pc' = "exit" /\ code' = RMNETCTL_LIB_ERR /\ cmd' = ""
    BY <1>3 DEF NoCommand, Exit
  <2>3. RunsClean'
    BY <2>1, <2>2, EndsClean
  <2>4. QED
    BY <1>0, <1>3, <2>2, <2>3 DEF NoCommand, Before, After
<1>4. CASE UnknownCommand
  <2>0. /\ rc = RMNETCTL_LIB_ERR /\ err = 101 /\ pc = "dispatch" /\ cmd \notin DOMAIN Commands
        /\ pc' = "end" /\ UNCHANGED <<api, cmd, nargs, cliHandle, released, rc, err, out, code>>
    BY <1>4, Zenon DEF UnknownCommand, Before, RMNETCTL_CFG_FAILURE_NO_COMMAND
  <2>1. pc' = "end" /\ ~Missing /\ Reportable(rc, err)
    <3>1. ~Missing
      BY <2>0, Zenon DEF Missing
    <3>2. Reportable(RMNETCTL_LIB_ERR, 101)
      BY OwnErrorsLemma
    <3>3. QED
      BY <2>0, <3>1, <3>2, Zenon
  <2>2. RunsClean'
    BY <2>1 DEF RunsClean, StatusAgrees, HandleReturned, MissingArgumentRefused
  <2>3. QED
    BY <1>0, <2>0, <2>1, <2>2 DEF Before, After
<1>5. CASE CheckNull
  <2>1. WellTold(RMNETCTL_INVALID_ARG, out')
    <3>1. out = {} /\ \E e \in Int : PrintStatus(RMNETCTL_INVALID_ARG, e)
      BY <1>5 DEF CheckNull, Before, RMNETCTL_CFG_FAILURE_NO_COMMAND
    <3>2. QED
      BY <3>1, OwnErrorAgrees
  <2>2. pc' = "exit" /\ code' = RMNETCTL_INVALID_ARG /\ cliHandle' # "live"
    BY <1>5 DEF CheckNull, Exit, Release
  <2>3. RunsClean'
    BY <2>1, <2>2, EndsClean
  <2>4. QED
    BY <1>0, <1>5, <2>2, <2>3 DEF CheckNull, Before, After
<1>6. CASE NoEgressName
  <2>1. WellTold(RMNETCTL_LIB_ERR, out')
    <3>1. out = {} /\ \E e \in Int : PrintStatus(RMNETCTL_LIB_ERR, e)
      BY <1>6 DEF NoEgressName, Before, RMNETCTL_CFG_FAILURE_EGRESS_DEV_NAME_NULL
    <3>2. QED
      BY <3>1, OwnErrorAgrees
  <2>2. pc' = "exit" /\ code' = RMNETCTL_LIB_ERR /\ cliHandle' # "live"
    BY <1>6 DEF NoEgressName, Exit, Release
  <2>3. RunsClean'
    BY <2>1, <2>2, EndsClean
  <2>4. QED
    BY <1>0, <1>6, <2>2, <2>3 DEF NoEgressName, Before, After
<1>7. CASE ApiCall
  <2> DEFINE missing  == nargs < Commands[cmd].used
             outcomes == IF api = "rt" THEN RtOutcomes(CliErrnos) ELSE DataOutcomes
  <2>0. /\ pc = "dispatch" /\ cmd \in DOMAIN Commands /\ nargs >= Commands[cmd].checked
        /\ UNCHANGED <<api, cmd, nargs, cliHandle, released, out, code>>
    BY <1>7 DEF ApiCall
  <2>1. CASE /\ ~missing
             /\ \E o \in outcomes : rc' = o[1] /\ err' = IF o[2] = Untouched THEN err ELSE o[2]
             /\ pc' = "end"
    <3>1. PICK o \in outcomes : rc' = o[1] /\ err' = IF o[2] = Untouched THEN err ELSE o[2]
      BY <2>1
    <3>2. Fits(o)
      BY OutcomesLemma
    <3>3. ~Missing
      BY <2>1 DEF Missing
    <3> HIDE DEF outcomes, missing
    <3>4. err \in Int
      BY <2>0 DEF Before, RMNETCTL_CFG_FAILURE_NO_COMMAND
    <3>5. Reportable(rc', err')
      <4>1. CASE o[2] = Untouched
        BY <2>0, <3>1, <3>2, <3>4, <4>1 DEF Fits, Reportable, RMNETCTL_SUCCESS,
           RMNETCTL_INVALID_ARG, RMNETCTL_KERNEL_ERR, RMNETCTL_API_ERR_MESSAGE_RECEIVE
      <4>2. CASE o[2] # Untouched
        BY <2>0, <3>1, <3>2, <4>2 DEF Fits
      <4>3. QED
        BY <4>1, <4>2
    <3>6. RunsClean'
      BY <2>1 DEF RunsClean, StatusAgrees, HandleReturned, MissingArgumentRefused
    <3>7. QED
      BY <1>0, <2>0, <2>1, <3>3, <3>5, <3>6 DEF Before, After
  <2>2. CASE /\ missing /\ Commands[cmd].unchecked = "name"
             /\ rc' = RMNETCTL_INVALID_ARG /\ pc' = "end" /\ UNCHANGED err
    <3>1. Reportable(rc', err')
      BY <2>0, <2>2 DEF Reportable, Before, RMNETCTL_CFG_FAILURE_NO_COMMAND, DocumentedCodes,
         RMNETCTL_INVALID_ARG, RMNETCTL_KERNEL_ERR, RMNETCTL_API_ERR_MESSAGE_RECEIVE
    <3>2. RunsClean'
      BY <2>2 DEF RunsClean, StatusAgrees, HandleReturned, MissingArgumentRefused
    <3>3. QED
      BY <1>0, <2>0, <2>2, <3>1, <3>2 DEF Before, After
  <2>3. CASE /\ missing /\ Commands[cmd].unchecked = "number"
             /\ pc' = "crash" /\ UNCHANGED <<rc, err>>
    <3>1. cmd = "flowactivate"
      BY <2>0, <2>3, CommandLemma
    <3>2. RunsClean'
      BY <2>0, <2>3, <3>1 DEF RunsClean, StatusAgrees, HandleReturned, MissingArgumentRefused
    <3>3. QED
      BY <1>0, <2>0, <2>3, <3>2 DEF Before, After
  <2>4. QED
    BY <1>7, <2>1, <2>2, <2>3 DEF ApiCall
<1>8. CASE Report
  <2>1. pc' = "deinit" /\ cliHandle' = "freed" /\ released' = 1
    BY <1>8 DEF Report, Release, Before
  <2>2. out' = print_rmnet_api_status(rc, err)
    BY <1>8, PrintLemma DEF Report, Before
  <2>3. RunsClean'
    BY <2>1 DEF RunsClean, StatusAgrees, HandleReturned, MissingArgumentRefused
  <2>4. QED
    BY <1>0, <1>8, <2>1, <2>2, <2>3 DEF Report, Before, After
<1>9. CASE Deinit
  <2>0. /\ cliHandle' = "freed" /\ released' = 2 /\ UNCHANGED <<api, cmd, nargs, rc, err, out>>
        /\ Reportable(rc, err) /\ out = print_rmnet_api_status(rc, err)
        /\ Missing => rc = RMNETCTL_INVALID_ARG
    BY <1>9 DEF Deinit, Release, After
  <2>1. CASE Exit(rc)
    <3>1. WellTold(rc, out')
      BY <2>0, ReportLemma
    <3>2. pc' = "exit" /\ code' = rc /\ (Missing' => rc = RMNETCTL_INVALID_ARG)
      BY <1>0, <2>0, <2>1 DEF Exit
    <3>3. RunsClean'
      BY <2>0, <3>1, <3>2, EndsClean
    <3>4. QED
      BY <1>0, <2>0, <3>2, <3>3 DEF Before, After
  <2>2. CASE pc' = "crash"
    <3>1. RunsClean'
      BY <2>0, <2>2 DEF RunsClean, StatusAgrees, HandleReturned, MissingArgumentRefused
    <3>2. QED
      BY <1>0, <2>0, <2>2, <3>1 DEF Before, After
  <2>3. QED
    BY <1>9, <2>1, <2>2 DEF Deinit
<1>10. CASE UNCHANGED cliVars
  <2>1. RunsClean'
    BY <1>10 DEF cliVars, RunsClean, StatusAgrees, HandleReturned, MissingArgumentRefused, Commands
  <2>2. QED
    BY <1>0, <1>10, <2>1 DEF cliVars, Before, After
<1>11. QED
  BY <1>1, <1>2, <1>3, <1>4, <1>5, <1>6, <1>7, <1>8, <1>9, <1>10 DEF CliNext

\* Every run of rmnetcli ends clean: the status it prints is the one it returns,
\* a handle opened for a command is given back, and a command that lacks an
\* argument it uses is refused, whatever the library and the system answer.
THEOREM RunsEndClean == CliSpec => []RunsClean
<1>1. RunInv => RunsClean
  BY DEF RunInv
<1>2. QED
  BY <1>1, RunInitInv, RunKept, PTL DEF CliSpec

-----------------------------------------------------------------------------
(* JsonTokener: what a turn of the parser leaves on the levels.            *)

TokFields == {"depth", "stack", "pb", "st_pos", "ucs_char", "quote_char", "is_double", "err",
              "strict", "case_len", "hi", "obj"}
LevelFields == {"state", "saved", "current", "name"}

\* Characters: a terminator is one too.
Chr == STRING \cup {NUL}

\* A tokener.
Shape(t) ==
  /\ DOMAIN t = TokFields /\ t.depth \in 0 .. MaxDepth - 1
  /\ DOMAIN t.stack = 0 .. MaxDepth - 1
  /\ \A d \in 0 .. MaxDepth - 1 : DOMAIN t.stack[d] = LevelFields

\* The states, by what the level does in them.
Comments == {"comment", "comment_eol", "comment_end"}
Pausing == {"eatws", "comment_start"} \cup Comments
Quotes == {"string", "object_field"}
Escapes == {"string_escape", "escape_unicode"}
Literals == {"inf", "null", "boolean", "number"}
ArrayStates == {"array", "array_add", "array_sep", "array_after_sep"}
ObjectStates == {"object_field_start", "object_field_start_after_sep", "object_field",
                 "object_field_end", "object_value", "object_value_add", "object_sep"}
TokStates == Pausing \cup {"start", "finish", "string"} \cup Escapes \cup Literals
             \cup ArrayStates \cup ObjectStates
\* Where a level can go on after white space, a comment or an escape.
Saveable == {"start", "finish", "string", "array", "array_sep", "array_after_sep",
             "object_field_start", "object_field_start_after_sep", "object_field",
             "object_field_end", "object_value", "object_sep"}

IsA(v, type) == "t" \in DOMAIN v /\ v.t = type

\* What the state that the level is in, or comes back to, needs of it.
LevelOk(s, v, cur, q) ==
  /\ s \in TokStates /\ v \in Saveable
  /\ s \in Pausing => v \notin Quotes
  /\ s \in Escapes => v \in Quotes
  /\ v = "finish" => s \in Pausing \cup {"finish"}
  /\ s \in Quotes \cup Escapes => q # NUL
  /\ LET on == IF s \in Pausing \cup Escapes THEN v ELSE s
     IN  (on \in ArrayStates => IsA(cur, "array")) /\ (on \in ObjectStates => IsA(cur, "object"))
TopOk(t) == LevelOk(Top(t).state, Top(t).saved, Top(t).current, t.quote_char)

\* A level that waits for the value above it.
Waits(l) ==
  /\ l.saved \in Saveable \ {"finish"}
  /\ \/ l.state = "array_add" /\ IsA(l.current, "array")
     \/ l.state = "object_value_add" /\ IsA(l.current, "object")

Levels(t) ==
  /\ Shape(t)
  /\ \A d \in 0 .. MaxDepth - 1 : (d > t.depth => t.stack[d] = Level0)
                                  /\ (d < t.depth => Waits(t.stack[d]))

\* u is t with another top level.
Edited(t, u, s, v, cur, q) ==
  /\ Shape(u) /\ u.depth = t.depth /\ u.err = t.err /\ u.quote_char = q
  /\ \A d \in 0 .. MaxDepth - 1 : d # t.depth => u.stack[d] = t.stack[d]
  /\ Top(u).state = s /\ Top(u).saved = v /\ Top(u).current = cur

\* How far down a state is: the same character is looked at again only on a
\* lower rung. White space hands the character to the state it came for.
Rung(s) ==
  CASE s \in {"array", "array_after_sep", "object_value"} -> 9
    [] s = "start" -> 7
    [] s = "number" -> 6
    [] s \in {"inf", "null", "boolean"} -> 5
    [] s = "finish" -> 3
    [] s \in {"array_add", "object_value_add"} -> 2
    [] OTHER -> 0
Step(s, v) == IF s = "eatws" THEN Rung(v) + 1 ELSE Rung(s)
LooksLeft(t) == Step(Top(t).state, Top(t).saved)

\* What a turn in state t at character c may answer, with rest behind c.
Handled(t, c, rest, r) ==
  /\ r.go \in {"next", "redo", "out"} /\ r.skip \in 0 .. Len(rest)
  /\ Levels(r.t)
  /\ r.go # "out" => TopOk(r.t) /\ r.t.err = t.err
  /\ r.go = "out" => \/ r.t.err \notin {"none", "continue", "success"}
                     \/ r.t = t /\ r.t.depth = 0 /\ Top(r.t).state = "finish"
  /\ r.go # "out" /\ Top(r.t).state = "comment_start" => r.go = "next" /\ c = "/" /\ r.skip = 0
  /\ r.go # "out" /\ Top(r.t).state \in Comments =>
       \/ Top(t).state \in Comments
       \/ Top(t).state = "comment_start" /\ c \in {"/", "*"} /\ r.go = "next" /\ r.skip = 0
  /\ r.go = "next" /\ c = NUL => Top(r.t).state \notin {"eatws", "finish", "comment_start"}
  /\ r.go = "redo" => LooksLeft(r.t) < LooksLeft(t)

Ready(t) == Levels(t) /\ TopOk(t) /\ t.err = "success"

\* The moves change the top level only.
LEMMA StateEdits == ASSUME NEW t, NEW s, Shape(t)
  PROVE Edited(t, State(t, s), s, Top(t).saved, Top(t).current, t.quote_char)
BY MaxDepthAssumption DEF Edited, Shape, State, Top, TokFields, LevelFields

\* So do the ways to white space,
LEMMA BlanksEdits == ASSUME NEW t, NEW s, Shape(t)
  PROVE Edited(t, Blanks(t, s), "eatws", s, Top(t).current, t.quote_char)
BY MaxDepthAssumption DEF Edited, Shape, Blanks, Top, TokFields, LevelFields

\* to a complete value
LEMMA CompleteEdits == ASSUME NEW t, NEW v, Shape(t)
  PROVE Edited(t, Complete(t, v), "eatws", "finish", v, t.quote_char)
BY MaxDepthAssumption DEF Edited, Shape, Complete, Blanks, Top, TokFields, LevelFields

\* and to one character more.
LEMMA Append1Edits == ASSUME NEW t, NEW c, Shape(t)
  PROVE Edited(t, Append1(t, c), Top(t).state, Top(t).saved, Top(t).current, t.quote_char)
BY MaxDepthAssumption DEF Edited, Shape, Append1, Top, TokFields, LevelFields

\* Two edits in a row are one.
LEMMA EditedTwice ==
  ASSUME NEW t, NEW u, NEW w, NEW s, NEW v, NEW cur, NEW q, NEW s2, NEW v2, NEW cur2, NEW q2,
         Edited(t, u, s, v, cur, q), Edited(u, w, s2, v2, cur2, q2)
  PROVE  Edited(t, w, s2, v2, cur2, q2)
BY DEF Edited

\* An edit keeps the other levels.
LEMMA EditedLevels ==
  ASSUME NEW t, NEW u, NEW s, NEW v, NEW cur, NEW q, Levels(t), Edited(t, u, s, v, cur, q)
  PROVE  Levels(u)
BY DEF Edited, Levels

\* A turn that edits the top level and goes on.
LEMMA GoesOn ==
  ASSUME NEW t, NEW c, NEW rest \in Seq(Chr), Ready(t), NEW u, NEW s, NEW v, NEW cur, NEW q,
         Edited(t, u, s, v, cur, q), LevelOk(s, v, cur, q), s \notin Comments \cup {"comment_start"},
         NEW go \in {"next", "redo"}, go = "next" /\ c = NUL => s \notin {"eatws", "finish"},
         go = "redo" => Step(s, v) < LooksLeft(t)
  PROVE  Handled(t, c, rest, Goes(go, u))
<1>1. Levels(u)
  BY EditedLevels DEF Ready
<1>2. TopOk(u) /\ Top(u).state = s /\ u.err = t.err /\ LooksLeft(u) = Step(s, v)
  BY DEF Edited, TopOk, LooksLeft
<1>3. 0 \in 0 .. Len(rest)
  OBVIOUS
<1> HIDE DEF Comments
<1>4. QED
  BY <1>1, <1>2, <1>3 DEF Handled, Goes

\* An error, in state u.
LEMMA Fails ==
  ASSUME NEW t, NEW c, NEW rest \in Seq(Chr), NEW u, Levels(u), NEW e, e \notin {"none", "continue", "success"}
  PROVE  Handled(t, c, rest, Fail(u, e))
<1> DEFINE w == [u EXCEPT !.err = e]
<1>1. Levels(w) /\ w.err = e
  BY DEF Levels, Shape, TokFields
<1>2. 0 \in 0 .. Len(rest)
  OBVIOUS
<1> HIDE DEF w
<1>3. Fail(u, e) = [t |-> w, go |-> "out", skip |-> 0]
  BY DEF Fail, Goes, w
<1>4. QED
  BY <1>1, <1>2, <1>3 DEF Handled

\* White space ends: the level goes on where it is to go on.
LEMMA EatwsHandled ==
  ASSUME NEW t, NEW c, NEW rest \in Seq(Chr), Ready(t), Top(t).state = "eatws"
  PROVE  Handled(t, c, rest, eatws(t, c))
<1> DEFINE v == Top(t).saved
           cur == Top(t).current
           q == t.quote_char
           w == [t EXCEPT !.pb = <<c>>]
           u == State(w, "comment_start")
<1>1. Shape(t) /\ LevelOk("eatws", v, cur, q)
  BY DEF Ready, Levels, TopOk
<1>2. Edited(t, t, "eatws", v, cur, q)
  BY <1>1 DEF Edited
<1>3. Edited(t, State(t, v), v, v, cur, q)
  BY <1>1, StateEdits
<1>4. LevelOk(v, v, cur, q) /\ v \notin Comments \cup {"comment_start"}
  BY <1>1 DEF LevelOk, TokStates, Pausing, Comments, Quotes, Escapes, Literals, ArrayStates,
              ObjectStates, Saveable
<1>5. LevelOk("comment_start", v, cur, q)
  BY <1>1 DEF LevelOk, TokStates, Pausing, Comments, Quotes, Escapes, Literals, ArrayStates,
              ObjectStates, Saveable
<1>6. Edited(t, u, "comment_start", v, cur, q)
  BY <1>1, MaxDepthAssumption DEF Edited, Shape, State, Top, TokFields, LevelFields
<1> HIDE DEF v, cur, q, u
<1>7. CASE c \in Space
  <2>1. c # NUL
    BY <1>7 DEF Space, NUL
  <2>2. "eatws" \notin Comments \cup {"comment_start"}
    BY DEF Comments
  <2>3. Handled(t, c, rest, Goes("next", t))
    BY <1>1, <1>2, <2>1, <2>2, GoesOn
  <2>4. QED
    BY <1>7, <2>3 DEF eatws
<1>8. CASE c \notin Space /\ c = "/" /\ ~t.strict
  <2>1. eatws(t, c) = Goes("next", u)
    BY <1>8 DEF eatws, u, w
  <2>2. Levels(u) /\ TopOk(u) /\ Top(u).state = "comment_start" /\ u.err = t.err
    BY <1>5, <1>6, EditedLevels DEF Ready, TopOk, Edited
  <2>3. c # NUL /\ "comment_start" \notin Comments /\ 0 \in 0 .. Len(rest)
    BY <1>8 DEF NUL, Comments
  <2>4. QED
    BY <1>8, <2>1, <2>2, <2>3 DEF Handled, Goes
<1>9. CASE c \notin Space /\ ~(c = "/" /\ ~t.strict)
  <2>1. eatws(t, c) = Goes("redo", State(t, v))
    BY <1>9 DEF eatws, v
  <2>2. Step(v, v) < LooksLeft(t)
    BY <1>4 DEF LooksLeft, Step, Rung, LevelOk, Saveable, v
  <2>3. QED
    BY <1>3, <1>4, <2>1, <2>2, GoesOn
<1>10. QED
  BY <1>7, <1>8, <1>9

\* A value begins.
LEMMA StartHandled ==
  ASSUME NEW t, NEW c, NEW rest \in Seq(Chr), Ready(t), Top(t).state = "start"
  PROVE  Handled(t, c, rest, start(t, c))
<1> DEFINE v == Top(t).saved
           cur == Top(t).current
           q == t.quote_char
           obj == [Blanks(t, "object_field_start") EXCEPT !.stack[t.depth].current = Obj(<<>>)]
           arr == [Blanks(t, "array") EXCEPT !.stack[t.depth].current = Arr(<<>>)]
           infinite == [Fresh(t, "inf") EXCEPT !.st_pos = 0]
           nil == [Fresh(t, "null") EXCEPT !.st_pos = 0]
           truth == [Fresh(t, "boolean") EXCEPT !.st_pos = 0]
           str == [Fresh(t, "string") EXCEPT !.quote_char = c]
           num == [Fresh(t, "number") EXCEPT !.is_double = FALSE, !.case_len = 0]
<1>1. Shape(t) /\ LevelOk("start", v, cur, q)
  BY DEF Ready, Levels, TopOk
<1>2. /\ Edited(t, obj, "eatws", "object_field_start", Obj(<<>>), q)
      /\ Edited(t, arr, "eatws", "array", Arr(<<>>), q)
  BY <1>1, MaxDepthAssumption DEF Edited, Shape, Blanks, Top, TokFields, LevelFields
<1>3. /\ Edited(t, infinite, "inf", v, cur, q)
      /\ Edited(t, nil, "null", v, cur, q)
      /\ Edited(t, truth, "boolean", v, cur, q)
  BY <1>1, MaxDepthAssumption DEF Edited, Shape, Fresh, State, Top, TokFields, LevelFields
<1>4. /\ Edited(t, str, "string", v, cur, c)
      /\ Edited(t, num, "number", v, cur, q)
  BY <1>1, MaxDepthAssumption DEF Edited, Shape, Fresh, State, Top, TokFields, LevelFields
<1>5. /\ LevelOk("eatws", "object_field_start", Obj(<<>>), q)
      /\ LevelOk("eatws", "array", Arr(<<>>), q)
  BY DEF LevelOk, TokStates, Pausing, Comments, Quotes, Escapes, Literals, ArrayStates,
         ObjectStates, Saveable, IsA, Obj, Arr
<1>6. /\ \A s \in Literals : LevelOk(s, v, cur, q)
      /\ c # NUL => LevelOk("string", v, cur, c)
  BY <1>1 DEF LevelOk, TokStates, Pausing, Comments, Quotes, Escapes, Literals, ArrayStates,
              ObjectStates, Saveable
<1>7. {"eatws", "string"} \cup Literals \subseteq TokStates \ (Comments \cup {"comment_start"})
  BY DEF TokStates, Pausing, Comments, Literals
<1>8. "{" # NUL /\ "[" # NUL /\ "\"" # NUL /\ "'" # NUL
  BY DEF NUL
<1>0. LooksLeft(t) = 7 /\ \A s \in Literals : Step(s, v) < 7
  BY DEF LooksLeft, Step, Rung, Literals
<1> HIDE DEF v, cur, q, obj, arr, infinite, nil, truth, str, num
<1>9. c = "{" => Handled(t, c, rest, Goes("next", obj))
  BY <1>2, <1>5, <1>7, <1>8, GoesOn
<1>10. c = "[" => Handled(t, c, rest, Goes("next", arr))
  BY <1>2, <1>5, <1>7, <1>8, GoesOn
<1>11. /\ Handled(t, c, rest, Goes("redo", infinite))
       /\ Handled(t, c, rest, Goes("redo", nil))
       /\ Handled(t, c, rest, Goes("redo", truth))
       /\ Handled(t, c, rest, Goes("redo", num))
  BY <1>0, <1>3, <1>4, <1>6, <1>7, GoesOn DEF Literals
<1>12. c \in {"\"", "'"} => Handled(t, c, rest, Goes("next", str))
  BY <1>4, <1>6, <1>7, <1>8, GoesOn
<1>13. Handled(t, c, rest, Fail(t, "parse_unexpected"))
  BY Fails DEF Ready
<1>14. QED
  BY <1>9, <1>10, <1>11, <1>12, <1>13
  DEF start, obj, arr, infinite, nil, truth, str, num

\* A value is complete: the level above takes it.
LEMMA FinishHandled ==
  ASSUME NEW t, NEW c, NEW rest \in Seq(Chr), Ready(t), Top(t).state = "finish"
  PROVE  Handled(t, c, rest, finish(t, c))
<1> DEFINE u == [t EXCEPT !.obj = Top(t).current, !.depth = @ - 1, !.stack[t.depth] = Level0]
<1>1. Levels(t) /\ Shape(t) /\ t.err = "success" /\ 0 \in 0 .. Len(rest)
  BY DEF Ready, Levels
<1>2. CASE t.depth = 0
  <2>1. finish(t, c) = Goes("out", t)
    BY <1>2 DEF finish
  <2>2. QED
    BY <1>1, <1>2, <2>1 DEF Handled, Goes
<1>3. CASE t.depth # 0
  <2>1. t.depth \in 1 .. MaxDepth - 1 /\ t.depth - 1 \in 0 .. MaxDepth - 1
    BY <1>1, <1>3, MaxDepthAssumption DEF Shape
  <2>2. /\ DOMAIN u = TokFields /\ u.depth = t.depth - 1 /\ u.err = t.err
        /\ DOMAIN u.stack = 0 .. MaxDepth - 1
        /\ \A d \in 0 .. MaxDepth - 1 :
             u.stack[d] = IF d = t.depth THEN Level0 ELSE t.stack[d]
    BY <1>1, <2>1 DEF Shape, TokFields
  <2>3. DOMAIN Level0 = LevelFields
    BY DEF Level0, LevelFields
  <2> HIDE DEF u
  <2>4. Shape(u)
    BY <1>1, <2>1, <2>2, <2>3 DEF Shape
  <2>5. Levels(u)
    BY <1>1, <2>1, <2>2, <2>4, MaxDepthAssumption DEF Levels
  <2>6. Waits(Top(u))
    BY <1>1, <2>1, <2>2, MaxDepthAssumption DEF Levels, Top
  <2>7. TopOk(u) /\ Top(u).state \notin Comments \cup {"comment_start"}
    BY <2>6 DEF Waits, TopOk, LevelOk, TokStates, Pausing, Comments, Quotes, Escapes, Literals,
                ArrayStates, ObjectStates, Saveable
  <2>8. finish(t, c) = Goes("redo", u)
    BY <1>3 DEF finish, u
  <2>9. LooksLeft(u) < LooksLeft(t)
    BY <2>6 DEF LooksLeft, Step, Rung, Waits
  <2>10. QED
    BY <2>2, <2>5, <2>7, <2>8, <2>9, <1>1 DEF Handled, Goes
<1>4. QED
  BY <1>2, <1>3

\* One character of a word, or the word is complete.
LEMMA LiteralHandled ==
  ASSUME NEW t, NEW c, NEW rest \in Seq(Chr), Ready(t), Top(t).state \in Literals,
         NEW word, NEW val
  PROVE  Handled(t, c, rest, Literal(Append1(t, c), word, val))
<1> DEFINE s == Top(t).state
           v == Top(t).saved
           cur == Top(t).current
           q == t.quote_char
           a == Append1(t, c)
           n == [a EXCEPT !.st_pos = @ + 1]
<1>1. Shape(t) /\ LevelOk(s, v, cur, q)
  BY DEF Ready, Levels, TopOk
<1>2. Edited(t, a, s, v, cur, q)
  BY <1>1, Append1Edits
<1>3. Shape(a)
  BY <1>2 DEF Edited
<1>4. Edited(a, Complete(a, val), "eatws", "finish", val, a.quote_char)
  BY <1>3, CompleteEdits
<1>5. Edited(t, n, s, v, cur, q)
  BY <1>1, MaxDepthAssumption DEF Edited, Shape, Append1, Top, TokFields, LevelFields
<1>6. LevelOk("eatws", "finish", val, q) /\ s \notin Comments \cup {"comment_start", "eatws", "finish"}
  BY DEF LevelOk, TokStates, Pausing, Comments, Quotes, Escapes, Literals, ArrayStates,
         ObjectStates, Saveable
<1>7. a.quote_char = q /\ "eatws" \notin Comments \cup {"comment_start"}
  BY <1>2 DEF Edited, Comments
<1>0. Step("eatws", "finish") < LooksLeft(t)
  BY DEF LooksLeft, Step, Rung, Literals
<1> HIDE DEF s, v, cur, q, a, n
<1>8. Edited(t, Complete(a, val), "eatws", "finish", val, q)
  BY <1>2, <1>4, <1>7, EditedTwice
<1>9. Handled(t, c, rest, Goes("redo", Complete(a, val)))
  BY <1>0, <1>6, <1>7, <1>8, GoesOn
<1>10. Handled(t, c, rest, Goes("next", n))
  BY <1>1, <1>5, <1>6, GoesOn
<1>11. Literal(a, word, val) = IF a.st_pos = Len(word) THEN Goes("redo", Complete(a, val))
                               ELSE Goes("next", n)
  BY DEF Literal, n
<1>12. QED
  BY <1>9, <1>10, <1>11 DEF a

\* An error on a character that has been kept.
LEMMA AppendFails ==
  ASSUME NEW t, NEW c, NEW rest \in Seq(Chr), Ready(t), NEW e, e \notin {"none", "continue", "success"}
  PROVE  Handled(t, c, rest, Fail(Append1(t, c), e))
<1>1. Edited(t, Append1(t, c), Top(t).state, Top(t).saved, Top(t).current, t.quote_char)
  BY Append1Edits DEF Ready, Levels
<1>2. Levels(Append1(t, c))
  BY <1>1, EditedLevels DEF Ready
<1>3. QED
  BY <1>2, Fails

\* The literals.
LEMMA WordsHandled ==
  ASSUME NEW t, NEW c, NEW rest \in Seq(Chr), Ready(t)
  PROVE  /\ Top(t).state = "inf" => Handled(t, c, rest, inf(t, c))
         /\ Top(t).state = "null" => Handled(t, c, rest, null(t, c))
         /\ Top(t).state = "boolean" => Handled(t, c, rest, boolean(t, c))
<1> DEFINE a == Append1(t, c)
<1>1. ASSUME Top(t).state \in Literals, NEW word, NEW val
      PROVE  Handled(t, c, rest, Literal(a, word, val))
  BY <1>1, LiteralHandled
<1>2. ASSUME NEW e, e \notin {"none", "continue", "success"}
      PROVE  Handled(t, c, rest, Fail(a, e))
  BY <1>2, AppendFails
<1> HIDE DEF a
<1>3. ASSUME Top(t).state = "inf" PROVE Handled(t, c, rest, inf(t, c))
  <2> DEFINE neg == a.pb[1] = "-"
             word == Chars("Infinity")
             val == Double(Chars(IF neg THEN "-Infinity" ELSE "Infinity"))
             agrees == Agrees(a, word, IF neg THEN Tail(a.pb) ELSE a.pb)
  <2>1. inf(t, c) = IF agrees THEN Literal(a, word, val) ELSE Fail(a, "parse_unexpected")
    BY DEF inf, a
  <2>2. Handled(t, c, rest, Literal(a, word, val)) /\ Handled(t, c, rest, Fail(a, "parse_unexpected"))
    <3> HIDE DEF word, val
    <3>1. QED
      BY <1>1, <1>2, <1>3 DEF Literals
  <2> HIDE DEF agrees, word, val
  <2>3. QED
    BY <2>1, <2>2
<1>4. ASSUME Top(t).state = "null" PROVE Handled(t, c, rest, null(t, c))
  <2> DEFINE isNull == Agrees(a, Chars("null"), a.pb)
             isNaN == Agrees(a, Chars("NaN"), a.pb)
             nil == Literal(a, Chars("null"), JNull)
             nan == Literal(a, Chars("NaN"), Double(Chars("NaN")))
  <2>1. null(t, c) = CASE isNull -> nil [] ~isNull /\ isNaN -> nan
                       [] OTHER -> Fail(a, "parse_null")
    BY DEF null, a
  <2>2. Handled(t, c, rest, nil) /\ Handled(t, c, rest, nan)
        /\ Handled(t, c, rest, Fail(a, "parse_null"))
    BY <1>1, <1>2, <1>4 DEF Literals
  <2> HIDE DEF isNull, isNaN, nil, nan
  <2>3. QED
    BY <2>1, <2>2
<1>5. ASSUME Top(t).state = "boolean" PROVE Handled(t, c, rest, boolean(t, c))
  <2> DEFINE isTrue == Agrees(a, Chars("true"), a.pb)
             isFalse == Agrees(a, Chars("false"), a.pb)
             yes == Literal(a, Chars("true"), Bool(TRUE))
             no == Literal(a, Chars("false"), Bool(FALSE))
  <2>1. boolean(t, c) = CASE isTrue -> yes [] isFalse -> no [] OTHER -> Fail(a, "parse_boolean")
    BY DEF boolean, a
  <2>2. Handled(t, c, rest, yes) /\ Handled(t, c, rest, no)
        /\ Handled(t, c, rest, Fail(a, "parse_boolean"))
    BY <1>1, <1>2, <1>5 DEF Literals
  <2> HIDE DEF isTrue, isFalse, yes, no
  <2>3. QED
    BY <2>1, <2>2
<1>6. QED
  BY <1>3, <1>4, <1>5

\* Comments: those that begin, those that go on, and those that end.
LEMMA CommentsHandled ==
  ASSUME NEW t, NEW c, NEW rest \in Seq(Chr), Ready(t)
  PROVE  /\ Top(t).state = "comment_start" => Handled(t, c, rest, comment_start(t, c))
         /\ Top(t).state = "comment" => Handled(t, c, rest, comment(t, c))
         /\ Top(t).state = "comment_eol" => Handled(t, c, rest, comment_eol(t, c))
         /\ Top(t).state = "comment_end" => Handled(t, c, rest, comment_end(t, c))
<1> DEFINE v == Top(t).saved
           cur == Top(t).current
           q == t.quote_char
           a == Append1(t, c)
<1>1. Shape(t) /\ Levels(t) /\ LevelOk(Top(t).state, v, cur, q) /\ 0 \in 0 .. Len(rest)
  BY DEF Ready, Levels, TopOk
<1>2. Edited(t, a, Top(t).state, v, cur, q) /\ Shape(a)
  BY <1>1, Append1Edits DEF Edited
<1>3. \A s : Edited(t, State(a, s), s, v, cur, q)
  BY <1>1, MaxDepthAssumption DEF Edited, Shape, State, Append1, Top, TokFields, LevelFields
<1>4. \A s : Edited(t, State(t, s), s, v, cur, q)
  BY <1>1, StateEdits
<1>5. ASSUME Top(t).state \in Comments \cup {"comment_start"}
      PROVE  \A s \in Pausing : LevelOk(s, v, cur, q)
  BY <1>1, <1>5 DEF LevelOk, TokStates, Pausing, Comments, Quotes, Escapes, Literals,
                    ArrayStates, ObjectStates, Saveable
<1> HIDE DEF v, cur, q, a
\* The next character is looked at in state s of Pausing.
<1>6. ASSUME Top(t).state \in Comments \cup {"comment_start"}, NEW u,
             NEW s \in Pausing, Edited(t, u, s, v, cur, q),
             s # "comment_start", c = NUL => s # "eatws",
             Top(t).state = "comment_start" => c \in {"/", "*"}
      PROVE  Handled(t, c, rest, Goes("next", u))
  <2>1. Levels(u) /\ TopOk(u) /\ Top(u).state = s /\ u.err = t.err
    BY <1>1, <1>5, <1>6, EditedLevels DEF TopOk, Edited
  <2>2. s # "finish"
    BY DEF Pausing, Comments
  <2>3. QED
    BY <1>1, <1>6, <2>1, <2>2 DEF Handled, Goes
<1>7. {"eatws", "comment", "comment_eol", "comment_end"} \subseteq Pausing /\ "/" # NUL /\ "\n" # NUL
  BY DEF Pausing, Comments, NUL
<1>8. ASSUME Top(t).state = "comment_start" PROVE Handled(t, c, rest, comment_start(t, c))
  <2>1. c = "*" => Handled(t, c, rest, Goes("next", State(a, "comment")))
    BY <1>3, <1>6, <1>7, <1>8
  <2>2. c = "/" => Handled(t, c, rest, Goes("next", State(a, "comment_eol")))
    BY <1>3, <1>6, <1>7, <1>8
  <2>3. Handled(t, c, rest, Fail(t, "parse_comment"))
    BY <1>1, Fails
  <2>4. QED
    BY <2>1, <2>2, <2>3 DEF comment_start, a
<1>9. ASSUME Top(t).state = "comment" PROVE Handled(t, c, rest, comment(t, c))
  <2>1. Handled(t, c, rest, Goes("next", State(a, "comment_end")))
    BY <1>3, <1>6, <1>7, <1>9 DEF Comments
  <2>2. Handled(t, c, rest, Goes("next", a))
    BY <1>2, <1>6, <1>7, <1>9 DEF Comments
  <2>3. QED
    BY <2>1, <2>2 DEF comment, a
<1>10. ASSUME Top(t).state = "comment_eol" PROVE Handled(t, c, rest, comment_eol(t, c))
  <2>1. c = "\n" => Handled(t, c, rest, Goes("next", State(t, "eatws")))
    BY <1>4, <1>6, <1>7, <1>10 DEF Comments
  <2>2. Handled(t, c, rest, Goes("next", a))
    BY <1>2, <1>6, <1>7, <1>10 DEF Comments
  <2>3. QED
    BY <2>1, <2>2 DEF comment_eol, a
<1>11. ASSUME Top(t).state = "comment_end" PROVE Handled(t, c, rest, comment_end(t, c))
  <2>1. c = "/" => Handled(t, c, rest, Goes("next", State(a, "eatws")))
    BY <1>3, <1>6, <1>7, <1>11 DEF Comments
  <2>2. Handled(t, c, rest, Goes("next", State(a, "comment")))
    BY <1>3, <1>6, <1>7, <1>11 DEF Comments
  <2>3. QED
    BY <2>1, <2>2 DEF comment_end, a
<1>12. QED
  BY <1>8, <1>9, <1>10, <1>11

\* Strings, the names of members, and the letter behind a backslash.
LEMMA QuotesHandled ==
  ASSUME NEW t, NEW c, NEW rest \in Seq(Chr), Ready(t)
  PROVE  /\ Top(t).state = "string" => Handled(t, c, rest, string(t, c))
         /\ Top(t).state = "object_field" => Handled(t, c, rest, object_field(t, c))
         /\ Top(t).state = "string_escape" => Handled(t, c, rest, string_escape(t, c))
<1> DEFINE s == Top(t).state
           v == Top(t).saved
           cur == Top(t).current
           q == t.quote_char
           escape(back) == [State(t, "string_escape") EXCEPT !.stack[t.depth].saved = back]
           name == Blanks([t EXCEPT !.stack[t.depth].name = CString(t.pb)], "object_field_end")
           unicode == [State(t, "escape_unicode") EXCEPT !.ucs_char = 0, !.st_pos = 0, !.hi = 0]
<1>1. Shape(t) /\ Levels(t) /\ LevelOk(s, v, cur, q)
  BY DEF Ready, Levels, TopOk
<1>2. \A x : Edited(t, Append1(t, x), s, v, cur, q) /\ Edited(t, Complete(t, x), "eatws", "finish", x, q)
  BY <1>1, Append1Edits, CompleteEdits
<1>3. \A back : Edited(t, escape(back), "string_escape", back, cur, q)
  BY <1>1, MaxDepthAssumption DEF Edited, Shape, State, Top, TokFields, LevelFields
<1>4. Edited(t, name, "eatws", "object_field_end", cur, q)
  BY <1>1, MaxDepthAssumption DEF Edited, Shape, Blanks, Top, TokFields, LevelFields
<1>5. \A x : Edited(t, State(Append1(t, x), v), v, v, cur, q)
  BY <1>1, MaxDepthAssumption DEF Edited, Shape, State, Append1, Top, TokFields, LevelFields
<1>6. Edited(t, unicode, "escape_unicode", v, cur, q)
  BY <1>1, MaxDepthAssumption DEF Edited, Shape, State, Top, TokFields, LevelFields
<1>7. /\ s \in Quotes \cup Escapes => q # NUL
      /\ \A x : LevelOk("eatws", "finish", x, q)
      /\ s = "string" => LevelOk("string_escape", "string", cur, q)
      /\ s = "object_field" => /\ LevelOk("string_escape", "object_field", cur, q)
                               /\ LevelOk("eatws", "object_field_end", cur, q)
      /\ s = "string_escape" => v \in Quotes /\ LevelOk(v, v, cur, q) /\ LevelOk("escape_unicode", v, cur, q)
  BY <1>1 DEF LevelOk, TokStates, Pausing, Comments, Quotes, Escapes, Literals,
              ArrayStates, ObjectStates, Saveable
<1>8. {"eatws", "string_escape", "escape_unicode", "string", "object_field"}
        \cap (Comments \cup {"comment_start"}) = {}
  BY DEF Comments
<1> HIDE DEF s, v, cur, q, escape, name, unicode
<1>9. \A e : e \notin {"none", "continue", "success"} => Handled(t, c, rest, Fail(t, e))
  BY <1>1, Fails
<1>10. ASSUME s \in Quotes
       PROVE  Handled(t, c, rest, Goes("next", Append1(t, c)))
  BY <1>1, <1>2, <1>8, <1>10, GoesOn DEF Quotes
<1>11. ASSUME s = "string" PROVE Handled(t, c, rest, string(t, c))
  <2>1. c = q => Handled(t, c, rest, Goes("next", Complete(t, Str(t.pb))))
    BY <1>2, <1>7, <1>8, <1>11, GoesOn DEF Quotes
  <2>2. Handled(t, c, rest, Goes("next", escape("string")))
    BY <1>3, <1>7, <1>8, <1>11, GoesOn
  <2>3. QED
    BY <1>10, <1>11, <2>1, <2>2 DEF string, escape, q, Quotes
<1>12. ASSUME s = "object_field" PROVE Handled(t, c, rest, object_field(t, c))
  <2>1. c = q => Handled(t, c, rest, Goes("next", name))
    BY <1>4, <1>7, <1>8, <1>12, GoesOn DEF Quotes
  <2>2. Handled(t, c, rest, Goes("next", escape("object_field")))
    BY <1>3, <1>7, <1>8, <1>12, GoesOn
  <2>3. QED
    BY <1>10, <1>12, <2>1, <2>2 DEF object_field, escape, name, q, Quotes
<1>13. ASSUME s = "string_escape" PROVE Handled(t, c, rest, string_escape(t, c))
  <2>1. ASSUME NEW x PROVE Handled(t, c, rest, Goes("next", State(Append1(t, x), v)))
    BY <1>5, <1>7, <1>8, <1>13, GoesOn DEF Quotes
  <2>2. Handled(t, c, rest, Goes("next", unicode))
    BY <1>6, <1>7, <1>8, <1>13, GoesOn
  <2>3. QED
    BY <1>9, <2>1, <2>2 DEF string_escape, unicode, v
<1>14. QED
  BY <1>11, <1>12, <1>13 DEF s

\* The four digits behind \u, and the second half of a surrogate pair.
LEMMA UnicodeHandled ==
  ASSUME NEW t, NEW c, NEW rest \in Seq(Chr), Ready(t), Top(t).state = "escape_unicode"
  PROVE  Handled(t, c, rest, escape_unicode(t, c, rest))
<1> DEFINE v == Top(t).saved
           cur == Top(t).current
           q == t.quote_char
           u == [t EXCEPT !.ucs_char = @ + (IF t.st_pos > 3 THEN 0
                                            ELSE jt_hexdigit(c) * 16 ^ (3 - t.st_pos)),
                          !.st_pos = @ + 1]
<1>1. Shape(t) /\ Levels(t) /\ LevelOk("escape_unicode", v, cur, q)
  BY DEF Ready, Levels, TopOk
<1>2. Edited(t, u, "escape_unicode", v, cur, q)
  BY <1>1, MaxDepthAssumption DEF Edited, Shape, Top, TokFields, LevelFields
<1>3. LevelOk(v, v, cur, q) /\ v \in Quotes
  BY <1>1 DEF LevelOk, TokStates, Pausing, Comments, Quotes, Escapes, Literals,
              ArrayStates, ObjectStates, Saveable
<1>4. "escape_unicode" \notin Comments /\ Quotes \cap (Comments \cup {"comment_start"}) = {}
  BY DEF Comments, Quotes
<1>5. Handled(t, c, rest, Fail(t, "parse_string"))
  BY <1>1, Fails
<1>6. escape_unicode(t, c, rest) =
        IF ~IsHex(c) THEN Fail(t, "parse_string")
        ELSE IF u.st_pos = 4 THEN Unicode(u, rest) ELSE Goes("next", u)
  BY DEF escape_unicode
<1> HIDE DEF v, cur, q, u
<1>7. Handled(t, c, rest, Goes("next", u))
  BY <1>1, <1>2, <1>4, GoesOn
<1>8. Handled(t, c, rest, Unicode(u, rest))
  <2> DEFINE orphan == u.hi # 0 /\ ~IsLow(u.ucs_char)
             ucs == IF u.hi # 0 /\ ~orphan THEN DecodePair(u.hi, u.ucs_char) ELSE u.ucs_char
             pb == IF orphan THEN Append(u.pb, utf8_replacement_char) ELSE u.pb
             End(x) == State([u EXCEPT !.ucs_char = ucs, !.pb = Append(pb, x), !.hi = 0], Top(u).saved)
             pair == Len(rest) >= 2 /\ rest[1] = "\\" /\ rest[2] = "u"
             second == [u EXCEPT !.pb = pb, !.hi = ucs, !.ucs_char = 0, !.st_pos = 0]
             half == [u EXCEPT !.pb = Append(pb, utf8_replacement_char)]
  <2>1. /\ Edited(u, second, "escape_unicode", v, cur, q)
        /\ Edited(u, half, "escape_unicode", v, cur, q)
        /\ \A x : Edited(u, End(x), v, v, cur, q)
    <3> HIDE DEF ucs, pb
    <3>1. Shape(u) /\ Top(u).state = "escape_unicode" /\ Top(u).saved = v /\ Top(u).current = cur
          /\ u.quote_char = q
      BY <1>2 DEF Edited
    <3>2. Edited(u, second, "escape_unicode", v, cur, q) /\ Edited(u, half, "escape_unicode", v, cur, q)
      BY <3>1, MaxDepthAssumption DEF Edited, Shape, Top, TokFields, LevelFields
    <3>3. \A x : Edited(u, End(x), v, v, cur, q)
      BY <3>1, MaxDepthAssumption DEF Edited, Shape, State, Top, TokFields, LevelFields
    <3>4. QED
      BY <3>2, <3>3
  <2>2. Unicode(u, rest) =
          CASE IsHigh(ucs) /\ pair /\ Len(rest) > 2 -> [Goes("next", second) EXCEPT !.skip = 2]
            [] IsHigh(ucs) /\ pair /\ Len(rest) = 2 -> [Goes("next", half) EXCEPT !.skip = 2]
            [] (IsHigh(ucs) /\ ~pair) \/ IsLow(ucs) \/ ucs \notin 0..LastCodePoint ->
                 Goes("next", End(utf8_replacement_char))
            [] OTHER -> Goes("next", End(CharOf(ucs)))
    BY DEF Unicode
  <2> HIDE DEF second, half, End, ucs
  <2>3. \A x : Handled(t, c, rest, Goes("next", End(x)))
    <3> SUFFICES ASSUME NEW x PROVE Handled(t, c, rest, Goes("next", End(x)))
      OBVIOUS
    <3>1. Edited(t, End(x), v, v, cur, q)
      BY <1>2, <2>1, EditedTwice
    <3>2. v # "eatws" /\ v # "finish" /\ v \notin Comments \cup {"comment_start"}
      BY <1>3, <1>4 DEF Quotes
    <3>3. QED
      BY <1>3, <3>1, <3>2, GoesOn
  <2>4. ASSUME NEW w \in {second, half}, Len(rest) >= 2
        PROVE  Handled(t, c, rest, [Goes("next", w) EXCEPT !.skip = 2])
    <3>1. Edited(t, w, "escape_unicode", v, cur, q)
      BY <1>2, <2>1, EditedTwice
    <3>2. Handled(t, c, rest, Goes("next", w))
      BY <1>1, <1>4, <3>1, GoesOn
    <3>3. 2 \in 0 .. Len(rest) /\ Top(w).state = "escape_unicode"
      BY <2>4, <3>1 DEF Edited
    <3>4. QED
      BY <1>4, <3>2, <3>3 DEF Handled, Goes
  <2>5. pair => Len(rest) >= 2
    OBVIOUS
  <2> HIDE DEF pair
  <2>6. QED
    BY <2>2, <2>3, <2>4, <2>5
<1>9. QED
  BY <1>5, <1>6, <1>7, <1>8

\* A number goes on, becomes "-Infinity", or ends.
LEMMA NumberHandled ==
  ASSUME NEW t, NEW c, NEW rest \in Seq(Chr), Ready(t), Top(t).state = "number"
  PROVE  Handled(t, c, rest, number(t, c))
<1> DEFINE v == Top(t).saved
           cur == Top(t).current
           q == t.quote_char
           more == [Append1(t, c) EXCEPT !.case_len = @ + 1,
                                         !.is_double = @ \/ c \in {".", "e", "E"}]
<1>1. Shape(t) /\ Levels(t) /\ LevelOk("number", v, cur, q)
  BY DEF Ready, Levels, TopOk
<1>2. /\ Edited(t, more, "number", v, cur, q)
      /\ Edited(t, State(t, "inf"), "inf", v, cur, q)
      /\ \A x : Edited(t, Complete(t, x), "eatws", "finish", x, q)
  <2>1. Edited(t, more, "number", v, cur, q)
    BY <1>1, MaxDepthAssumption DEF Edited, Shape, Append1, Top, TokFields, LevelFields
  <2>2. QED
    BY <1>1, <2>1, StateEdits, CompleteEdits
<1>3. LevelOk("inf", v, cur, q) /\ \A x : LevelOk("eatws", "finish", x, q)
  BY <1>1 DEF LevelOk, TokStates, Pausing, Comments, Quotes, Escapes, Literals,
              ArrayStates, ObjectStates, Saveable
<1>4. {"number", "inf", "eatws"} \cap (Comments \cup {"comment_start"}) = {}
  BY DEF Comments
<1>0. Step("inf", v) < LooksLeft(t) /\ Step("eatws", "finish") < LooksLeft(t)
  BY DEF LooksLeft, Step, Rung
<1> HIDE DEF v, cur, q, more
<1>5. Handled(t, c, rest, Goes("next", more))
  BY <1>1, <1>2, <1>4, GoesOn
<1>6. Handled(t, c, rest, Goes("redo", State(t, "inf")))
  BY <1>0, <1>2, <1>3, <1>4, GoesOn
<1>7. ASSUME NEW x PROVE Handled(t, c, rest, Goes("redo", Complete(t, x)))
  BY <1>0, <1>2, <1>3, <1>4, GoesOn
<1>8. Handled(t, c, rest, Fail(t, "parse_number"))
  BY <1>1, Fails
<1>9. Handled(t, c, rest, NumberEnds(t))
  <2> DEFINE n == json_parse_int64(t.pb)
             a == ~t.is_double /\ n.ok /\ n.num # 0 /\ t.pb[1] = "0" /\ t.strict
             b == ~t.is_double /\ n.ok /\ ~(n.num # 0 /\ t.pb[1] = "0" /\ t.strict)
             d == t.is_double /\ json_parse_double(t.pb)
             int == Goes("redo", Complete(t, Num(n.num)))
             double == Goes("redo", Complete(t, Double(t.pb)))
  <2>1. NumberEnds(t) = CASE a -> Fail(t, "parse_number") [] b -> int [] d -> double
                          [] OTHER -> Fail(t, "parse_number")
    BY DEF NumberEnds
  <2>2. Handled(t, c, rest, int) /\ Handled(t, c, rest, double)
    <3> HIDE DEF n
    <3>1. QED
      BY <1>7
  <2> HIDE DEF a, b, d, int, double
  <2>3. QED
    BY <1>8, <2>1, <2>2
<1>10. QED
  BY <1>5, <1>6, <1>9 DEF number, more

\* A level more, or too many of them.
LEMMA DescendHandled ==
  ASSUME NEW t, NEW c, NEW rest \in Seq(Chr), Ready(t), NEW back,
         \/ Top(t).state \in {"array", "array_after_sep"} /\ back = "array_add"
         \/ Top(t).state = "object_value" /\ back = "object_value_add"
  PROVE  Handled(t, c, rest, Descend(t, back))
<1> DEFINE v == Top(t).saved
           cur == Top(t).current
           w == State(t, back)
           u == [w EXCEPT !.depth = @ + 1, !.stack[t.depth + 1] = Level0]
<1>1. Shape(t) /\ Levels(t) /\ LevelOk(Top(t).state, v, cur, t.quote_char) /\ t.depth \in 0 .. MaxDepth - 1
  BY DEF Ready, Levels, TopOk, Shape
<1>2. Edited(t, w, back, v, cur, t.quote_char)
  BY <1>1, StateEdits
<1>3. Waits(Top(w))
  BY <1>1, <1>2 DEF Edited, Waits, LevelOk, TokStates, Pausing, Comments, Quotes, Escapes, Literals,
                    ArrayStates, ObjectStates, Saveable
<1>4. CASE t.depth >= MaxDepth - 1
  BY <1>1, <1>4, Fails DEF Descend
<1>5. CASE ~(t.depth >= MaxDepth - 1)
  <2>1. t.depth + 1 \in 0 .. MaxDepth - 1 /\ 0 \in 0 .. Len(rest)
    BY <1>1, <1>5, MaxDepthAssumption
  <2>2. Shape(w) /\ w.depth = t.depth /\ w.err = t.err
        /\ \A d \in 0 .. MaxDepth - 1 : d # t.depth => w.stack[d] = t.stack[d]
    BY <1>2 DEF Edited
  <2> HIDE DEF w
  <2>3. /\ DOMAIN u = TokFields /\ u.depth = t.depth + 1 /\ u.err = t.err
        /\ DOMAIN u.stack = 0 .. MaxDepth - 1 /\ u.quote_char = w.quote_char
        /\ \A d \in 0 .. MaxDepth - 1 :
             u.stack[d] = IF d = t.depth + 1 THEN Level0 ELSE w.stack[d]
    BY <2>1, <2>2 DEF Shape, TokFields
  <2>4. DOMAIN Level0 = LevelFields
    BY DEF Level0, LevelFields
  <2> HIDE DEF u
  <2>5. Shape(u)
    BY <2>1, <2>2, <2>3, <2>4 DEF Shape
  <2>6. Top(w) = w.stack[t.depth]
    BY <2>2 DEF Top
  <2>7. Levels(u)
    <3> SUFFICES ASSUME NEW d \in 0 .. MaxDepth - 1
                 PROVE  (d > u.depth => u.stack[d] = Level0) /\ (d < u.depth => Waits(u.stack[d]))
      BY <2>5 DEF Levels
    <3>1. d > t.depth => t.stack[d] = Level0
      BY <1>1 DEF Levels
    <3>2. d < t.depth => Waits(t.stack[d])
      BY <1>1 DEF Levels
    <3>3. d = t.depth => Waits(w.stack[d])
      BY <1>3, <2>6
    <3>4. QED
      BY <1>1, <2>1, <2>2, <2>3, <3>1, <3>2, <3>3, MaxDepthAssumption
  <2>8. Top(u) = Level0
    BY <2>1, <2>3 DEF Top
  <2>9. TopOk(u) /\ Top(u).state = "eatws" /\ "eatws" \notin Comments
    BY <2>8 DEF TopOk, Level0, LevelOk, TokStates, Pausing, Comments, Quotes, Escapes, Literals,
                ArrayStates, ObjectStates, Saveable
  <2>10. Descend(t, back) = Goes("redo", u)
    BY <1>5 DEF Descend, u, w
  <2>11. LooksLeft(u) < LooksLeft(t)
    BY <2>8 DEF LooksLeft, Step, Rung, Level0
  <2>12. QED
    BY <2>1, <2>3, <2>7, <2>9, <2>10, <2>11 DEF Handled, Goes
<1>6. QED
  BY <1>4, <1>5

\* Arrays.
LEMMA ArraysHandled ==
  ASSUME NEW t, NEW c, NEW rest \in Seq(Chr), Ready(t)
  PROVE  /\ Top(t).state \in {"array", "array_after_sep"} => Handled(t, c, rest, array(t, c))
         /\ Top(t).state = "array_add" => Handled(t, c, rest, array_add(t, c))
         /\ Top(t).state = "array_sep" => Handled(t, c, rest, array_sep(t, c))
<1> DEFINE s == Top(t).state
           v == Top(t).saved
           cur == Top(t).current
           q == t.quote_char
           u == [t EXCEPT !.stack[t.depth].current.el = Append(@, t.obj)]
           more == [cur EXCEPT !.el = Append(@, t.obj)]
<1>1. Shape(t) /\ Levels(t) /\ LevelOk(s, v, cur, q)
  BY DEF Ready, Levels, TopOk
<1>2. \A x : Edited(t, Blanks(t, x), "eatws", x, cur, q)
  BY <1>1, BlanksEdits
<1>3. Edited(t, u, s, v, more, q) /\ u.quote_char = q
  BY <1>1, MaxDepthAssumption DEF Edited, Shape, Top, TokFields, LevelFields
<1>4. Edited(u, Blanks(u, "array_sep"), "eatws", "array_sep", more, q)
  <2>1. Shape(u) /\ Top(u).current = more
    BY <1>3 DEF Edited
  <2> HIDE DEF u, more
  <2>2. QED
    BY <1>3, <2>1, BlanksEdits
<1>5. s \in ArrayStates => /\ LevelOk("eatws", "finish", cur, q) /\ LevelOk("eatws", "array_after_sep", cur, q)
                           /\ LevelOk("eatws", "array_sep", more, q)
  <2>1. IsA(cur, "array") => IsA(more, "array")
    BY DEF IsA
  <2>2. s \in ArrayStates => IsA(cur, "array")
    BY <1>1 DEF LevelOk, Pausing, Comments, Escapes, ArrayStates
  <2> HIDE DEF s, cur, more, q
  <2>3. QED
    BY <2>1, <2>2 DEF LevelOk, TokStates, Pausing, Comments, Quotes, Escapes, Literals,
                      ArrayStates, ObjectStates, Saveable
<1>6. "eatws" \notin Comments \cup {"comment_start"} /\ "]" # NUL /\ "," # NUL
  BY DEF Comments, NUL
<1> HIDE DEF v, cur, q, u, more
<1>7. \A e : e \notin {"none", "continue", "success"} => Handled(t, c, rest, Fail(t, e))
  BY <1>1, Fails
<1>8. ASSUME s \in ArrayStates
      PROVE  /\ c = "]" => Handled(t, c, rest, Goes("next", Blanks(t, "finish")))
             /\ c = "," => Handled(t, c, rest, Goes("next", Blanks(t, "array_after_sep")))
             /\ s = "array_add" => Handled(t, c, rest, Goes("redo", Blanks(u, "array_sep")))
  <2>1. Edited(t, Blanks(u, "array_sep"), "eatws", "array_sep", more, q)
    BY <1>3, <1>4, EditedTwice
  <2>0. s = "array_add" => Step("eatws", "array_sep") < LooksLeft(t)
    BY DEF LooksLeft, Step, Rung
  <2> HIDE DEF s
  <2>2. s = "array_add" => Handled(t, c, rest, Goes("redo", Blanks(u, "array_sep")))
    BY <1>5, <1>6, <1>8, <2>0, <2>1, GoesOn
  <2>3. c = "]" => Handled(t, c, rest, Goes("next", Blanks(t, "finish")))
    BY <1>2, <1>5, <1>6, <1>8, GoesOn
  <2>4. c = "," => Handled(t, c, rest, Goes("next", Blanks(t, "array_after_sep")))
    BY <1>2, <1>5, <1>6, <1>8, GoesOn
  <2>5. QED
    BY <2>2, <2>3, <2>4
<1>9. s \in {"array", "array_after_sep"} => Handled(t, c, rest, Descend(t, "array_add"))
  BY DescendHandled
<1>10. s \in {"array", "array_after_sep"} => Handled(t, c, rest, array(t, c))
  BY <1>7, <1>8, <1>9 DEF array, ArrayStates
<1>11. s = "array_add" => Handled(t, c, rest, array_add(t, c))
  BY <1>8 DEF array_add, u, ArrayStates
<1>12. s = "array_sep" => Handled(t, c, rest, array_sep(t, c))
  BY <1>7, <1>8 DEF array_sep, ArrayStates
<1>13. QED
  BY <1>10, <1>11, <1>12 DEF s

\* Objects.
LEMMA ObjectsHandled ==
  ASSUME NEW t, NEW c, NEW rest \in Seq(Chr), Ready(t)
  PROVE  /\ Top(t).state \in {"object_field_start", "object_field_start_after_sep"} =>
              Handled(t, c, rest, object_field_start(t, c))
         /\ Top(t).state = "object_field_end" => Handled(t, c, rest, object_field_end(t, c))
         /\ Top(t).state = "object_value" => Handled(t, c, rest, object_value(t, c))
         /\ Top(t).state = "object_value_add" => Handled(t, c, rest, object_value_add(t, c))
         /\ Top(t).state = "object_sep" => Handled(t, c, rest, object_sep(t, c))
<1> DEFINE s == Top(t).state
           v == Top(t).saved
           cur == Top(t).current
           q == t.quote_char
           name == [Fresh(t, "object_field") EXCEPT !.quote_char = c]
           u == [t EXCEPT !.stack[t.depth].current.kv = ObjectAdd(@, Top(t).name, t.obj),
                          !.stack[t.depth].name = <<>>]
           more == [cur EXCEPT !.kv = ObjectAdd(@, Top(t).name, t.obj)]
<1>1. Shape(t) /\ Levels(t) /\ LevelOk(s, v, cur, q)
  BY DEF Ready, Levels, TopOk
<1>2. \A x : Edited(t, Blanks(t, x), "eatws", x, cur, q)
  BY <1>1, BlanksEdits
<1>3. Edited(t, u, s, v, more, q) /\ u.quote_char = q
  BY <1>1, MaxDepthAssumption DEF Edited, Shape, Top, TokFields, LevelFields
<1>4. Edited(t, name, "object_field", v, cur, c)
  BY <1>1, MaxDepthAssumption DEF Edited, Shape, Fresh, State, Top, TokFields, LevelFields
<1>5. Edited(u, Blanks(u, "object_sep"), "eatws", "object_sep", more, q)
  <2>1. Shape(u) /\ Top(u).current = more
    BY <1>3 DEF Edited
  <2> HIDE DEF u, more
  <2>2. QED
    BY <1>3, <2>1, BlanksEdits
<1>6. s \in ObjectStates =>
        /\ LevelOk("eatws", "finish", cur, q) /\ LevelOk("eatws", "object_field_start_after_sep", cur, q)
        /\ LevelOk("eatws", "object_value", cur, q) /\ LevelOk("eatws", "object_sep", more, q)
        /\ c # NUL => LevelOk("object_field", v, cur, c)
  <2>1. IsA(cur, "object") => IsA(more, "object")
    BY DEF IsA
  <2>2. s \in ObjectStates => IsA(cur, "object") /\ v \in Saveable \ {"finish"}
    BY <1>1 DEF LevelOk, Pausing, Comments, Escapes, ObjectStates
  <2> HIDE DEF s, v, cur, more, q
  <2>3. QED
    BY <2>1, <2>2 DEF LevelOk, TokStates, Pausing, Comments, Quotes, Escapes, Literals,
                      ArrayStates, ObjectStates, Saveable
<1>7. {"eatws", "object_field"} \cap (Comments \cup {"comment_start"}) = {}
      /\ "}" # NUL /\ "," # NUL /\ ":" # NUL /\ "\"" # NUL /\ "'" # NUL
  BY DEF Comments, NUL
<1> HIDE DEF v, cur, q, u, more, name
<1>8. \A e : e \notin {"none", "continue", "success"} => Handled(t, c, rest, Fail(t, e))
  BY <1>1, Fails
<1>9. ASSUME s \in ObjectStates
      PROVE  /\ c = "}" => Handled(t, c, rest, Goes("next", Blanks(t, "finish")))
             /\ c = "," => Handled(t, c, rest, Goes("next", Blanks(t, "object_field_start_after_sep")))
             /\ c = ":" => Handled(t, c, rest, Goes("next", Blanks(t, "object_value")))
             /\ c \in {"\"", "'"} => Handled(t, c, rest, Goes("next", name))
             /\ s = "object_value_add" => Handled(t, c, rest, Goes("redo", Blanks(u, "object_sep")))
  <2>1. Edited(t, Blanks(u, "object_sep"), "eatws", "object_sep", more, q)
    BY <1>3, <1>5, EditedTwice
  <2>0. s = "object_value_add" => Step("eatws", "object_sep") < LooksLeft(t)
    BY DEF LooksLeft, Step, Rung
  <2> HIDE DEF s
  <2>2. s = "object_value_add" => Handled(t, c, rest, Goes("redo", Blanks(u, "object_sep")))
    BY <1>6, <1>7, <1>9, <2>0, <2>1, GoesOn
  <2>3. c = "}" => Handled(t, c, rest, Goes("next", Blanks(t, "finish")))
    BY <1>2, <1>6, <1>7, <1>9, GoesOn
  <2>4. c = "," => Handled(t, c, rest, Goes("next", Blanks(t, "object_field_start_after_sep")))
    BY <1>2, <1>6, <1>7, <1>9, GoesOn
  <2>5. c = ":" => Handled(t, c, rest, Goes("next", Blanks(t, "object_value")))
    BY <1>2, <1>6, <1>7, <1>9, GoesOn
  <2>6. c \in {"\"", "'"} => Handled(t, c, rest, Goes("next", name))
    BY <1>4, <1>6, <1>7, <1>9, GoesOn
  <2>7. QED
    BY <2>2, <2>3, <2>4, <2>5, <2>6
<1>10. s \in {"object_field_start", "object_field_start_after_sep"} =>
         Handled(t, c, rest, object_field_start(t, c))
  BY <1>8, <1>9 DEF object_field_start, name, ObjectStates
<1>11. s = "object_field_end" => Handled(t, c, rest, object_field_end(t, c))
  BY <1>8, <1>9 DEF object_field_end, ObjectStates
<1>12. s = "object_value" => Handled(t, c, rest, object_value(t, c))
  BY DescendHandled DEF object_value
<1>13. s = "object_value_add" => Handled(t, c, rest, object_value_add(t, c))
  BY <1>9 DEF object_value_add, u, ObjectStates
<1>14. s = "object_sep" => Handled(t, c, rest, object_sep(t, c))
  BY <1>8, <1>9 DEF object_sep, ObjectStates
<1>15. QED
  BY <1>10, <1>11, <1>12, <1>13, <1>14 DEF s

\* Every turn.
LEMMA SwitchHandled ==
  ASSUME NEW t, NEW c, NEW rest \in Seq(Chr), Ready(t)
  PROVE  Handled(t, c, rest, Switch(t, c, rest))
<1> DEFINE s == Top(t).state
<1>1. s \in TokStates
  BY DEF Ready, TopOk, LevelOk
<1>2. CASE s \in {"eatws", "start", "finish"} \cup Literals
  BY <1>2, EatwsHandled, StartHandled, FinishHandled, WordsHandled, NumberHandled
  DEF Switch, Literals
<1>3. CASE s \in {"comment_start"} \cup Comments
  BY <1>3, CommentsHandled DEF Switch, Comments
<1>4. CASE s \in Quotes \cup Escapes
  BY <1>4, QuotesHandled, UnicodeHandled DEF Switch, Quotes, Escapes
<1>5. CASE s \in ArrayStates
  BY <1>5, ArraysHandled DEF Switch, ArrayStates
<1>6. CASE s \in ObjectStates
  BY <1>4, <1>6, ObjectsHandled DEF Switch, ObjectStates, Quotes
<1>7. QED
  BY <1>1, <1>2, <1>3, <1>4, <1>5, <1>6
  DEF TokStates, Pausing, Quotes

\* The text has the beginning of a comment.
HasComment(text) == Has(text, <<"/", "*">>) \/ Has(text, <<"/", "/">>)

\* A document that began on the ground: until it ends the levels are sound; a
\* level is in a comment only where the text has one. After a success nothing
\* is left on any level.
GroundInv ==
  /\ Shape(tok) /\ jpos \in 0 .. Len(jfed)
  /\ ~Ended => /\ Levels(tok) /\ TopOk(tok)
               /\ jcall => tok.err = "success"
               /\ Top(tok).state = "comment_start" => jpos > 0 /\ jfed[jpos] = "/"
               /\ Top(tok).state \in Comments => HasComment(jfed)
  /\ Ended /\ jret.err # "success" => Levels(tok)
  /\ Ended /\ jret.err = "success" => /\ \A d \in 0 .. MaxDepth - 1 : tok.stack[d] = Level0
                                      /\ tok.depth = 0 \/ HasComment(jfed)

TokInv ==
  /\ jold.used \in BOOLEAN /\ (jold.depth # 0 => jold.used)
  /\ jdoc \in Seq(Chr) /\ jfed \in Seq(Chr) /\ jcall \in BOOLEAN
  /\ jcall => jret.err \in {"none", "continue"}
  /\ FromGround => GroundInv

\* A document with its terminator is a text.
LEMMA NulText == /\ <<NUL>> \in Seq(Chr)
                 /\ \A d \in Docs \cup AgainDocs : Append(d, NUL) \in Seq(Chr)
<1>1. NUL \in Chr /\ STRING \subseteq Chr
  BY DEF Chr
<1> HIDE DEF NUL, Chr
<1>2. <<NUL>> \in Seq(Chr)
  BY <1>1
<1>3. ASSUME NEW d \in Docs \cup AgainDocs
      PROVE  Append(d, NUL) \in Seq(Chr)
  <2>1. d \in Seq(STRING)
    BY DocsAssumption
  <2> DEFINE S == STRING
  <2>2. d \in Seq(S) /\ S \subseteq Chr
    BY <1>1, <2>1
  <2> HIDE DEF S
  <2>3. d \in Seq(Chr)
    BY <2>2
  <2>4. QED
    BY <1>1, <2>3
<1>4. QED
  BY <1>2, <1>3

\* Two characters in a row begin a comment.
LEMMA CommentSeen ==
  ASSUME NEW text \in Seq(Chr), NEW i \in 1 .. Len(text) - 1,
         text[i] = "/", text[i + 1] \in {"/", "*"}
  PROVE  HasComment(text)
<1>1. i - 1 \in 0 .. Len(text) - 2
  OBVIOUS
<1>2. ASSUME NEW b, text[i + 1] = b
      PROVE  Has(text, <<"/", b>>)
  <2>1. Len(<<"/", b>>) = 2
    OBVIOUS
  <2>2. \A j \in 1 .. 2 : text[(i - 1) + j] = <<"/", b>>[j]
    <3>1. text[(i - 1) + 1] = "/" /\ text[(i - 1) + 2] = b
      BY <1>2
    <3>2. QED
      BY <3>1
  <2>3. QED
    BY <1>1, <2>1, <2>2 DEF Has
<1>3. QED
  BY <1>2 DEF HasComment

\* A comment is still there when the text is longer.
LEMMA CommentStays ==
  ASSUME NEW text \in Seq(Chr), NEW piece \in Seq(Chr), HasComment(text)
  PROVE  HasComment(text \o piece)
<1>1. ASSUME NEW b \in {"/", "*"}, Has(text, <<"/", b>>)
      PROVE  HasComment(text \o piece)
  <2>1. Len(<<"/", b>>) = 2
    OBVIOUS
  <2>2. PICK i \in 0 .. Len(text) - 2 : \A j \in 1 .. 2 : text[i + j] = <<"/", b>>[j]
    BY <1>1, <2>1 DEF Has
  <2>3. text[i + 1] = "/" /\ text[i + 2] = b
    <3>1. 1 \in 1 .. 2 /\ 2 \in 1 .. 2
      OBVIOUS
    <3>2. QED
      BY <2>2, <3>1
  <2>4. (text \o piece)[i + 1] = "/" /\ (text \o piece)[(i + 1) + 1] = b
        /\ i + 1 \in 1 .. Len(text \o piece) - 1 /\ text \o piece \in Seq(Chr)
    BY <2>3
  <2>5. QED
    BY <2>4, CommentSeen
<1>2. QED
  BY <1>1 DEF HasComment

\* The end of a call: an error keeps the levels, a success clears them.
LEMMA CallEnds ==
  ASSUME NEW t, NEW c, Levels(t), NEW r, r = Return(Out(t, c))
  PROVE  /\ Shape(r.t) /\ r.t.depth = t.depth
         /\ r.ret.err # "success" => Levels(r.t) /\ (TopOk(t) => TopOk(r.t)) /\ Top(r.t) = Top(t)
         /\ r.ret.err = "success" => \A d \in 0 .. MaxDepth - 1 : r.t.stack[d] = Level0
         /\ r.ret.err \in {t.err, "parse_unexpected", "parse_eof"}
         /\ r.ret.err = "success" /\ c = NUL => "finish" \in {Top(t).state, Top(t).saved}
<1> DEFINE o == Out(t, c)
<1>1. PICK e : /\ o = [t EXCEPT !.err = e] /\ e \in {t.err, "parse_unexpected", "parse_eof"}
               /\ e = "success" /\ c = NUL => "finish" \in {Top(t).state, Top(t).saved}
  BY DEF Out
<1>2. Levels(o) /\ Shape(o) /\ o.depth = t.depth /\ o.err = e /\ Top(o) = Top(t) /\ o.stack = t.stack
      /\ o.quote_char = t.quote_char
  BY <1>1 DEF Levels, Shape, Top, TokFields
<1> HIDE DEF o
<1>3. CASE o.err # "success"
  <2>1. r.t = o /\ r.ret.err = o.err
    BY <1>3 DEF Return, o
  <2>2. QED
    BY <1>1, <1>2, <1>3, <2>1 DEF TopOk
<1>4. CASE o.err = "success"
  <2> DEFINE w == json_tokener_reset_levels(o)
  <2>1. r.t = w /\ r.ret.err = "success"
    BY <1>4 DEF Return, o
  <2>2. /\ DOMAIN w = TokFields /\ w.depth = o.depth /\ DOMAIN w.stack = 0 .. MaxDepth - 1
        /\ \A d \in 0 .. MaxDepth - 1 : w.stack[d] = IF d <= o.depth THEN Level0 ELSE o.stack[d]
    BY <1>2 DEF json_tokener_reset_levels, Shape, TokFields
  <2>3. o.depth \in 0 .. MaxDepth - 1 /\ \A d \in 0 .. MaxDepth - 1 : d > o.depth => o.stack[d] = Level0
    BY <1>2 DEF Levels, Shape
  <2> HIDE DEF w
  <2>4. \A d \in 0 .. MaxDepth - 1 : w.stack[d] = Level0
    BY <2>2, <2>3, MaxDepthAssumption
  <2>5. DOMAIN Level0 = LevelFields
    BY DEF Level0, LevelFields
  <2>6. Shape(w)
    BY <2>2, <2>3, <2>4, <2>5 DEF Shape
  <2>7. QED
    BY <1>1, <1>2, <1>4, <2>1, <2>2, <2>4, <2>6
<1>5. QED
  BY <1>3, <1>4

\* A new tokener.
LEMMA TokInitially == JtInit => TokInv
<1> SUFFICES ASSUME JtInit PROVE TokInv
  OBVIOUS
<1>1. PICK strict \in BOOLEAN : tok = [json_tokener_new_ex EXCEPT !.strict = strict]
  BY DEF JtInit
<1>2. /\ DOMAIN tok = TokFields /\ tok.depth = 0 /\ tok.err = "success"
      /\ DOMAIN tok.stack = 0 .. MaxDepth - 1 /\ \A d \in 0 .. MaxDepth - 1 : tok.stack[d] = Level0
  BY <1>1 DEF json_tokener_new_ex, TokFields
<1>3. DOMAIN Level0 = LevelFields /\ 0 \in 0 .. MaxDepth - 1
  BY MaxDepthAssumption DEF Level0, LevelFields
<1>4. Shape(tok)
  BY <1>2, <1>3 DEF Shape
<1>5. Levels(tok)
  BY <1>2, <1>4 DEF Levels
<1>6. Top(tok) = Level0
  BY <1>2, <1>3 DEF Top
<1>7. TopOk(tok) /\ Top(tok).state = "eatws" /\ "eatws" \notin Comments
  BY <1>6 DEF TopOk, Level0, LevelOk, TokStates, Pausing, Comments, Quotes, Escapes, Literals,
              ArrayStates, ObjectStates, Saveable
<1>8. PICK d \in Docs : jdoc = Append(d, NUL)
  BY DEF JtInit
<1>9. jdoc \in Seq(Chr)
  BY <1>8, NulText
<1>10. /\ jfed = <<>> /\ jpos = 0 /\ jcall = FALSE /\ jret.err = "none"
       /\ jold.used = FALSE /\ jold.depth = 0
  BY DEF JtInit, Pending
<1>11. GroundInv
  <2> HIDE DEF Comments
  <2>1. QED
    BY <1>2, <1>4, <1>5, <1>7, <1>10 DEF GroundInv, Ended
<1>12. jfed \in Seq(Chr)
  BY <1>10
<1> HIDE DEF GroundInv
<1>13. QED
  BY <1>9, <1>10, <1>11, <1>12 DEF TokInv

\* A call begins: the errors and locals of the last one are gone.
LEMMA FeedKeeps ==
  ASSUME TokInv, NEW piece \in Seq(Chr), Feed(piece)
  PROVE  TokInv'
<1>1. jfed' \in Seq(Chr) /\ Len(jfed) <= Len(jfed') /\ jcall' = TRUE
      /\ \A i \in 1 .. Len(jfed) : jfed'[i] = jfed[i]
  BY DEF TokInv, Feed
<1>2. ~Ended /\ ~Ended' /\ jret' = jret /\ jold' = jold /\ jdoc' = jdoc /\ jpos' = jpos
      /\ jret.err \in {"none", "continue"}
  BY DEF Feed, Ended
<1>3. ASSUME FromGround PROVE GroundInv'
  <2>1. Shape(tok) /\ Levels(tok) /\ TopOk(tok)
        /\ (Top(tok).state = "comment_start" => jpos > 0 /\ jfed[jpos] = "/")
        /\ (Top(tok).state \in Comments => HasComment(jfed)) /\ jpos \in 0 .. Len(jfed)
    BY <1>2, <1>3 DEF TokInv, GroundInv
  <2>2. tok' = Called(tok)
    BY DEF Feed
  <2>3. Shape(tok') /\ tok'.stack = tok.stack /\ tok'.depth = tok.depth /\ tok'.err = "success"
        /\ tok'.quote_char = tok.quote_char
    BY <2>1, <2>2 DEF Called, Shape, TokFields
  <2>4. Levels(tok') /\ Top(tok') = Top(tok)
    BY <2>1, <2>3 DEF Levels, Top
  <2>5. TopOk(tok')
    BY <2>1, <2>3, <2>4 DEF TopOk
  <2>6. HasComment(jfed) => HasComment(jfed')
    BY CommentStays DEF TokInv, Feed
  <2>7. jpos \in 0 .. Len(jfed') /\ (jpos > 0 => jfed'[jpos] = jfed[jpos])
    BY <1>1, <2>1 DEF TokInv
  <2> HIDE DEF Comments, HasComment
  <2>8. QED
    BY <1>2, <2>1, <2>3, <2>4, <2>5, <2>6, <2>7 DEF GroundInv
<1>4. FromGround' <=> FromGround
  BY <1>2 DEF FromGround
<1>5. QED
  BY <1>1, <1>2, <1>3, <1>4 DEF TokInv

\* The call is over, and what it left is known.
LEMMA LeaveKeeps ==
  ASSUME TokInv, jcall, NEW t, NEW c, Leave(t, c), UNCHANGED <<jdoc, jfed, jpos, jold>>,
         FromGround => /\ Levels(t)
                       /\ t.err = "continue" => TopOk(t) /\ Top(t) = Top(tok)
                       /\ t.err # "none"
                       /\ t.err = "success" /\ (c = NUL => "finish" \in {Top(t).state, Top(t).saved})
                            => t.depth = 0 \/ HasComment(jfed)
  PROVE  TokInv'
<1>1. PICK r : r = Return(Out(t, c)) /\ tok' = r.t /\ jret' = r.ret /\ jcall' = FALSE
  BY DEF Leave
<1>2. ASSUME FromGround PROVE GroundInv'
  <2>1. /\ Shape(tok') /\ tok'.depth = t.depth
        /\ jret'.err # "success" => Levels(tok') /\ (TopOk(t) => TopOk(tok')) /\ Top(tok') = Top(t)
        /\ jret'.err = "success" => \A d \in 0 .. MaxDepth - 1 : tok'.stack[d] = Level0
        /\ jret'.err \in {t.err, "parse_unexpected", "parse_eof"}
        /\ jret'.err = "success" /\ c = NUL => "finish" \in {Top(t).state, Top(t).saved}
    BY <1>1, <1>2, CallEnds
  <2>2. GroundInv /\ ~Ended
    BY <1>2 DEF TokInv, Ended
  <2>3. CASE Ended'
    <3>1. jret'.err = "success" => t.err = "success"
      BY <2>1
    <3> HIDE DEF HasComment
    <3>2. jret'.err = "success" => tok'.depth = 0 \/ HasComment(jfed')
      BY <1>2, <2>1, <3>1
    <3>3. jpos' \in 0 .. Len(jfed')
      BY <2>2 DEF GroundInv
    <3> HIDE DEF Ended
    <3>4. QED
      BY <2>1, <2>3, <3>2, <3>3 DEF GroundInv
  <2>4. CASE ~Ended'
    <3>1. jret'.err = "continue" /\ t.err = "continue"
      BY <1>1, <1>2, <2>1, <2>4 DEF Ended
    <3>2. TopOk(tok') /\ Levels(tok') /\ Top(tok') = Top(tok)
      BY <1>2, <2>1, <3>1
    <3> HIDE DEF HasComment, Comments
    <3>3. QED
      BY <1>1, <2>1, <2>2, <2>4, <3>2 DEF GroundInv
  <2>5. QED
    BY <2>3, <2>4
<1>3. FromGround' <=> FromGround
  BY DEF FromGround
<1>4. QED
  BY <1>1, <1>2, <1>3 DEF TokInv

\* One turn of the loop.
LEMMA TurnKeeps == ASSUME TokInv, Turn PROVE TokInv'
<1>1. PICK c, r : /\ c = jfed[jpos + 1] /\ r = Switch(tok, c, SubSeq(jfed, jpos + 2, Len(jfed)))
                  /\ \/ r.go = "redo" /\ tok' = r.t /\ UNCHANGED <<jpos, jcall, jret>>
                     \/ /\ r.go = "next" /\ c # NUL
                        /\ tok' = r.t /\ jpos' = jpos + 1 + r.skip /\ UNCHANGED <<jcall, jret>>
                     \/ (r.go = "out" \/ (r.go = "next" /\ c = NUL)) /\ Leave(r.t, c) /\ UNCHANGED jpos
  BY DEF Turn
<1>2. jcall /\ jpos < Len(jfed) /\ UNCHANGED <<jdoc, jfed, jold>>
  BY DEF Turn
<1> DEFINE rest == SubSeq(jfed, jpos + 2, Len(jfed))
<1>3. FromGround => /\ jpos \in 0 .. Len(jfed) /\ rest \in Seq(Chr)
                    /\ Len(rest) = Len(jfed) - jpos - 1 /\ jpos + 1 \in 1 .. Len(jfed)
  BY <1>2 DEF TokInv, GroundInv
<1>4. ~Ended /\ jret.err \in {"none", "continue"} /\ (FromGround' <=> FromGround)
  BY <1>2 DEF TokInv, Ended, FromGround
<1>5. ASSUME FromGround
      PROVE  /\ Ready(tok) /\ Handled(tok, c, rest, r)
             /\ Top(tok).state = "comment_start" => jpos > 0 /\ jfed[jpos] = "/"
             /\ Top(tok).state \in Comments => HasComment(jfed)
  <2>1. Ready(tok)
    BY <1>2, <1>4, <1>5 DEF TokInv, GroundInv, Ready
  <2>2. Handled(tok, c, rest, Switch(tok, c, rest))
    BY <1>3, <1>5, <2>1, SwitchHandled
  <2>3. QED
    BY <1>1, <1>4, <1>5, <2>1, <2>2 DEF TokInv, GroundInv
<1> HIDE DEF rest
<1>6. CASE r.go = "redo" /\ tok' = r.t /\ UNCHANGED <<jpos, jcall, jret>>
  <2>1. ASSUME FromGround PROVE GroundInv'
    <3> HIDE DEF Comments, HasComment
    <3>1. Levels(tok') /\ TopOk(tok') /\ tok'.err = "success"
          /\ Top(tok').state # "comment_start" /\ (Top(tok').state \in Comments => HasComment(jfed))
      BY <1>5, <1>6, <2>1 DEF Handled, Ready
    <3>2. ~Ended' /\ Shape(tok')
      BY <1>2, <1>4, <1>6, <3>1 DEF Ended, Levels
    <3>3. QED
      BY <1>2, <1>3, <1>6, <2>1, <3>1, <3>2 DEF GroundInv
  <2>2. QED
    BY <1>2, <1>4, <1>6, <2>1 DEF TokInv
<1>7. CASE r.go = "next" /\ c # NUL /\ tok' = r.t /\ jpos' = jpos + 1 + r.skip /\ UNCHANGED <<jcall, jret>>
  <2>1. ASSUME FromGround PROVE GroundInv'
    <3>1. Levels(tok') /\ TopOk(tok') /\ tok'.err = "success" /\ r.skip \in 0 .. Len(rest)
      BY <1>5, <1>7, <2>1 DEF Handled, Ready
    <3>2. Top(tok').state = "comment_start" => c = "/" /\ r.skip = 0
      BY <1>5, <1>7, <2>1 DEF Handled
    <3>3. Top(tok').state \in Comments => HasComment(jfed)
      <4>1. SUFFICES ASSUME Top(tok').state \in Comments, Top(tok).state \notin Comments
                     PROVE  HasComment(jfed)
        BY <1>5, <2>1
      <4>2. Top(tok).state = "comment_start" /\ c \in {"/", "*"}
        BY <1>5, <1>7, <2>1, <4>1 DEF Handled
      <4>3. jpos \in 1 .. Len(jfed) - 1 /\ jfed[jpos] = "/" /\ jfed[jpos + 1] \in {"/", "*"}
        BY <1>1, <1>3, <1>5, <2>1, <4>2
      <4>4. QED
        BY <4>3, CommentSeen DEF TokInv
    <3>4. jpos' \in 0 .. Len(jfed)
      BY <1>3, <1>7, <2>1, <3>1
    <3>5. Top(tok').state = "comment_start" => jpos' > 0 /\ jfed[jpos'] = "/"
      BY <1>1, <1>3, <1>7, <2>1, <3>2
    <3>6. ~Ended' /\ Shape(tok')
      BY <1>2, <1>4, <1>7, <3>1 DEF Ended, Levels
    <3> HIDE DEF Comments, HasComment
    <3>7. QED
      BY <1>2, <3>1, <3>3, <3>4, <3>5, <3>6 DEF GroundInv
  <2>2. QED
    BY <1>2, <1>4, <1>7, <2>1 DEF TokInv
<1>8. CASE (r.go = "out" \/ (r.go = "next" /\ c = NUL)) /\ Leave(r.t, c) /\ UNCHANGED jpos
  <2> DEFINE t == r.t
  <2>1. ASSUME FromGround
        PROVE  /\ Levels(t) /\ t.err \notin {"none", "continue"}
               /\ t.err = "success" /\ (c = NUL => "finish" \in {Top(t).state, Top(t).saved})
                    => t.depth = 0 \/ HasComment(jfed)
    <3>1. CASE r.go = "out"
      <4>1. Levels(t) /\ (t.err \notin {"none", "continue", "success"} \/ (t = tok /\ t.depth = 0))
        BY <1>5, <2>1, <3>1 DEF Handled
      <4>2. tok.err = "success"
        BY <1>5, <2>1 DEF Ready
      <4>3. QED
        BY <4>1, <4>2
    <3>2. CASE r.go = "next" /\ c = NUL
      <4>1. Levels(t) /\ TopOk(t) /\ t.err = "success"
            /\ Top(t).state \notin {"eatws", "finish", "comment_start"}
        BY <1>5, <2>1, <3>2 DEF Handled, Ready
      <4>2. Top(t).saved = "finish" => Top(t).state \in Comments
        BY <4>1 DEF TopOk, LevelOk, Pausing
      <4>3. Top(t).state \in Comments => Top(tok).state \in Comments
        BY <1>5, <2>1, <3>2 DEF Handled, NUL
      <4>4. Top(t).saved = "finish" => HasComment(jfed)
        BY <1>5, <2>1, <4>2, <4>3
      <4> HIDE DEF HasComment
      <4>5. QED
        BY <3>2, <4>1, <4>4
    <3>3. QED
      BY <1>8, <3>1, <3>2
  <2>2. UNCHANGED <<jdoc, jfed, jpos, jold>> /\ Leave(t, c)
    BY <1>2, <1>8
  <2> HIDE DEF t, HasComment
  <2>3. QED
    BY <1>2, <2>1, <2>2, LeaveKeeps
<1>9. QED
  BY <1>1, <1>6, <1>7, <1>8

\* The piece is used up.
LEMMA PieceEndsKeeps == ASSUME TokInv, PieceEnds PROVE TokInv'
<1> DEFINE t == AtEnd(tok)
           c == jfed[jpos]
<1>1. jcall /\ Leave(t, c) /\ UNCHANGED <<jdoc, jfed, jpos, jold>>
  BY DEF PieceEnds
<1>2. ASSUME FromGround
      PROVE  /\ Levels(t) /\ TopOk(t) /\ Top(t) = Top(tok)
             /\ t.err \in {"success", "continue"}
             /\ t.err = "success" => t.depth = 0
  <2>1. Levels(tok) /\ TopOk(tok) /\ Shape(tok)
    BY <1>1, <1>2 DEF TokInv, GroundInv, Ended
  <2>2. /\ Shape(t) /\ t.stack = tok.stack /\ t.depth = tok.depth /\ t.quote_char = tok.quote_char
        /\ t.err = IF tok.depth = 0 /\ Top(tok).state = "eatws" /\ Top(tok).saved = "finish"
                   THEN "success" ELSE "continue"
    BY <2>1 DEF AtEnd, Shape, TokFields
  <2>3. QED
    BY <2>1, <2>2 DEF Levels, TopOk, Top
<1> HIDE DEF t, c
<1>3. QED
  BY <1>1, <1>2, LeaveKeeps DEF t

\* The second document.
LEMMA NextDocumentKeeps == ASSUME TokInv, NextDocument PROVE TokInv'
<1>1. ~jold.used /\ Ended /\ jcall' = FALSE /\ jret' = Pending /\ jfed' = <<>> /\ jpos' = 0
      /\ jold' = [used |-> TRUE, depth |-> tok'.depth]
      /\ (tok' = json_tokener_reset(tok) \/ (jret.err = "success" /\ tok' = tok))
  BY DEF NextDocument, Ended, TokInv
<1>2. FromGround /\ GroundInv
  BY <1>1 DEF TokInv, FromGround
<1>3. jdoc' \in Seq(Chr)
  <2>1. PICK d \in AgainDocs : jdoc' = Append(d, NUL)
    BY DEF NextDocument
  <2>2. QED
    BY <2>1, NulText
<1>4. ASSUME FromGround' PROVE GroundInv'
  <2>1. tok'.depth = 0
    BY <1>1, <1>4 DEF FromGround
  <2>2. DOMAIN Level0 = LevelFields /\ 0 \in 0 .. MaxDepth - 1
    BY MaxDepthAssumption DEF Level0, LevelFields
  <2>3. Shape(tok') /\ \A d \in 0 .. MaxDepth - 1 : tok'.stack[d] = Level0
    <3>1. CASE jret.err = "success" /\ tok' = tok
      BY <1>1, <1>2, <3>1 DEF GroundInv
    <3>2. CASE tok' = json_tokener_reset(tok)
      <4>1. Shape(tok) /\ \A d \in 0 .. MaxDepth - 1 : d > tok.depth => tok.stack[d] = Level0
        BY <1>1, <1>2 DEF GroundInv, Levels
      <4>2. /\ DOMAIN tok' = TokFields /\ DOMAIN tok'.stack = 0 .. MaxDepth - 1
            /\ \A d \in 0 .. MaxDepth - 1 :
                 tok'.stack[d] = IF d <= tok.depth THEN Level0 ELSE tok.stack[d]
        BY <3>2, <4>1 DEF json_tokener_reset, json_tokener_reset_levels, Shape, TokFields
      <4>3. \A d \in 0 .. MaxDepth - 1 : tok'.stack[d] = Level0
        BY <4>1, <4>2, MaxDepthAssumption DEF Shape
      <4>4. QED
        BY <2>1, <2>2, <4>2, <4>3 DEF Shape
    <3>3. QED
      BY <1>1, <3>1, <3>2
  <2>4. Levels(tok') /\ Top(tok') = Level0
    BY <2>1, <2>2, <2>3 DEF Levels, Top
  <2>5. TopOk(tok') /\ Top(tok').state = "eatws" /\ "eatws" \notin Comments
    BY <2>4 DEF TopOk, Level0, LevelOk, TokStates, Pausing, Comments, Quotes, Escapes, Literals,
                ArrayStates, ObjectStates, Saveable
  <2>6. ~Ended' /\ jcall' = FALSE
    BY <1>1 DEF Ended, Pending
  <2>7. jpos' \in 0 .. Len(jfed')
    BY <1>1
  <2> HIDE DEF Comments, HasComment, Ended
  <2>8. QED
    BY <2>3, <2>4, <2>5, <2>6, <2>7 DEF GroundInv
<1>5. /\ jold'.used = TRUE /\ jcall' = FALSE /\ jfed' \in Seq(Chr)
  BY <1>1
<1>6. QED
  BY <1>3, <1>4, <1>5 DEF TokInv

\* Every step keeps the invariant.
LEMMA TokKept == ASSUME TokInv, [JtNext]_jtVars PROVE TokInv'
<1>1. CASE FeedPiece
  <2>1. PICK n \in PieceSizes \cup {Len(jdoc) - Len(jfed)} :
          /\ n <= Len(jdoc) - Len(jfed) /\ n > 0
          /\ Feed(SubSeq(jdoc, Len(jfed) + 1, Len(jfed) + n))
    BY <1>1 DEF FeedPiece
  <2>2. SubSeq(jdoc, Len(jfed) + 1, Len(jfed) + n) \in Seq(Chr)
    BY <2>1, PieceSizesAssumption DEF TokInv
  <2>3. QED
    BY <2>1, <2>2, FeedKeeps
<1>2. CASE FeedEnd
  <2>1. <<NUL>> \in Seq(Chr) /\ Feed(<<NUL>>)
    BY <1>2, NulText DEF FeedEnd
  <2>2. QED
    BY <2>1, FeedKeeps
<1>3. CASE Turn
  BY <1>3, TurnKeeps
<1>4. CASE PieceEnds
  BY <1>4, PieceEndsKeeps
<1>5. CASE NextDocument
  BY <1>5, NextDocumentKeeps
<1>6. CASE UNCHANGED jtVars
  BY <1>6 DEF jtVars, TokInv, GroundInv, FromGround, Ended
<1>7. QED
  BY <1>1, <1>2, <1>3, <1>4, <1>5, <1>6 DEF JtNext

\* The invariant says what LevelsClean says.
LEMMA TokClean == ASSUME TokInv PROVE LevelsClean
<1>1. SuccessLeavesGround
  <2> SUFFICES ASSUME Ended, FromGround, jret.err = "success",
                      ~Has(jfed, <<"/", "*">>), ~Has(jfed, <<"/", "/">>)
               PROVE  tok.depth = 0 /\ \A d \in DOMAIN tok.stack : tok.stack[d] = Level0
    BY DEF SuccessLeavesGround
  <2>1. QED
    BY DEF TokInv, GroundInv, HasComment, Shape
<1>2. OpenLevelsAgree
  <2> SUFFICES ASSUME FromGround, NEW d \in DOMAIN tok.stack
               PROVE  /\ d > tok.depth => tok.stack[d] = Level0
                      /\ d < tok.depth /\ ~(Ended /\ jret.err = "success") =>
                           \/ tok.stack[d].state = "array_add" /\ tok.stack[d].current.t = "array"
                           \/ tok.stack[d].state = "object_value_add" /\ tok.stack[d].current.t = "object"
    BY DEF OpenLevelsAgree
  <2>1. GroundInv /\ d \in 0 .. MaxDepth - 1
    BY DEF TokInv, GroundInv, Shape
  <2>2. CASE Ended /\ jret.err = "success"
    BY <2>1, <2>2 DEF GroundInv
  <2>3. CASE ~(Ended /\ jret.err = "success")
    <3>1. Levels(tok)
      BY <2>1, <2>3 DEF GroundInv
    <3>2. QED
      BY <2>1, <2>3, <3>1 DEF Levels, Waits, IsA
  <2>4. QED
    BY <2>2, <2>3
<1>3. QED
  BY <1>1, <1>2 DEF LevelsClean

\* For every set of documents, every way to cut them and every depth, in each
\* turn of json_tokener_parse_ex: the levels below wait with the container they
\* will store into, those above are clean, and a success without a comment in
\* the text leaves nothing behind (json_tokener.c).
THEOREM LevelsAlwaysClean == JtSpec => []LevelsClean
<1>1. JtInit => TokInv
  BY TokInitially
<1>2. TokInv /\ [JtNext]_jtVars => TokInv'
  BY TokKept
<1>3. TokInv => LevelsClean
  BY TokClean
<1>4. QED
  BY <1>1, <1>2, <1>3, PTL DEF JtSpec

\* Inside a call every turn gets on: to a later character, or, at the same one,
\* to a lower rung of at most eleven.
EachTurnGetsOn ==
  FromGround /\ jcall /\ jcall' =>
    /\ jfed' = jfed /\ jpos' \in jpos .. Len(jfed) /\ LooksLeft(tok) \in 0 .. 10
    /\ jpos' = jpos => LooksLeft(tok') \in 0 .. LooksLeft(tok) - 1

\* There are no more rungs.
LEMMA ElevenRungs == ASSUME NEW t PROVE LooksLeft(t) \in 0 .. 10
<1>1. \A s : Rung(s) \in 0 .. 9
  BY DEF Rung
<1>2. QED
  BY <1>1 DEF LooksLeft, Step

\* A turn that does not end the call.
LEMMA TurnGetsOn == ASSUME TokInv, Turn PROVE EachTurnGetsOn
<1> SUFFICES ASSUME FromGround, jcall' = TRUE
             PROVE  /\ jfed' = jfed /\ jpos' \in jpos .. Len(jfed)
                    /\ jpos' = jpos => LooksLeft(tok') < LooksLeft(tok)
  <2>1. LooksLeft(tok) \in 0 .. 10 /\ LooksLeft(tok') \in 0 .. 10
    BY ElevenRungs
  <2>2. jcall' => jcall' = TRUE
    BY DEF Turn, Leave, TokInv
  <2>3. QED
    BY <2>1, <2>2 DEF EachTurnGetsOn
<1>1. PICK c, r : /\ c = jfed[jpos + 1] /\ r = Switch(tok, c, SubSeq(jfed, jpos + 2, Len(jfed)))
                  /\ \/ r.go = "redo" /\ tok' = r.t /\ jpos' = jpos
                     \/ r.go = "next" /\ jpos' = jpos + 1 + r.skip
  BY DEF Turn, Leave
<1>2. jcall /\ jpos < Len(jfed) /\ jfed' = jfed
  BY DEF Turn
<1> DEFINE rest == SubSeq(jfed, jpos + 2, Len(jfed))
<1>3. /\ jpos \in 0 .. Len(jfed) /\ rest \in Seq(Chr)
      /\ Len(rest) = Len(jfed) - jpos - 1 /\ Len(jfed) \in Nat
  BY <1>2 DEF TokInv, GroundInv
<1>4. Ready(tok)
  BY <1>2 DEF TokInv, GroundInv, Ended, Ready
<1>5. Handled(tok, c, rest, r)
  <2>1. Handled(tok, c, rest, Switch(tok, c, rest))
    BY <1>3, <1>4, SwitchHandled
  <2>2. QED
    BY <1>1, <2>1
<1> HIDE DEF rest
<1>6. r.skip \in 0 .. Len(rest) /\ (r.go = "redo" => LooksLeft(r.t) < LooksLeft(tok))
  BY <1>5 DEF Handled
<1>7. QED
  BY <1>1, <1>2, <1>3, <1>6

\* Every call of json_tokener_parse_ex comes to its end, whatever it is fed: the
\* redos of a character (json_tokener.c:260, goto redo_char) cannot chase each
\* other, so that a call takes at most eleven turns for each character.
THEOREM CallsGetOn == JtSpec => [][EachTurnGetsOn]_jtVars
<1>1. JtInit => TokInv
  BY TokInitially
<1>2. TokInv /\ [JtNext]_jtVars => TokInv'
  BY TokKept
<1>3. TokInv /\ [JtNext]_jtVars => [EachTurnGetsOn]_jtVars
  <2> SUFFICES ASSUME TokInv, JtNext PROVE EachTurnGetsOn
    OBVIOUS
  <2>1. CASE FeedPiece \/ FeedEnd
    BY <2>1 DEF FeedPiece, FeedEnd, Feed, EachTurnGetsOn
  <2>2. CASE PieceEnds \/ NextDocument
    BY <2>2 DEF PieceEnds, NextDocument, Leave, EachTurnGetsOn
  <2>3. CASE Turn
    BY <2>3, TurnGetsOn
  <2>4. QED
    BY <2>1, <2>2, <2>3 DEF JtNext
<1>4. QED
  BY <1>1, <1>2, <1>3, PTL DEF JtSpec

-----------------------------------------------------------------------------
(* JsonFile: what is loaded is what was saved.                             *)

\* A text that the file gets.
IsTextOf(text, v) == v \in FileValues \ {JNull} /\ \E f \in FileFlags : text = TextOf(v, f)

\* A beginning of a text, and not the whole of it.
IsCutOff(part, v) ==
  \E text \in Seq(STRING), n \in Nat :
    IsTextOf(text, v) /\ n < Len(text) /\ part = SubSeq(text, 1, n)

\* The file holds the whole text of the value saved last, a beginning of it
\* after a failure, and with what is still to write the whole text; what has
\* been read is a beginning of the file; and a value that was loaded is the
\* one that was saved.
FileInv ==
  /\ jfile \in Seq(STRING) /\ jfbuf \in Seq(STRING) /\ jfpc \in {"idle", "saving", "loading"}
  /\ jfsaved.how \in {"none", "open", "done", "failed"}
  /\ DOMAIN jfsaved = {"v", "how"}
  /\ jfpc = "saving" <=> jfsaved.how = "open"
  /\ jfpc = "saving" => IsTextOf(jfile \o jfbuf, jfsaved.v) /\ jfload = NoLoad
  /\ jfpc # "saving" => /\ jfsaved.how = "none" => jfile = <<>>
                        /\ jfsaved.how = "done" => IsTextOf(jfile, jfsaved.v)
                        /\ jfsaved.how = "failed" => IsCutOff(jfile, jfsaved.v)
  /\ jfpc = "loading" => Len(jfbuf) <= Len(jfile) /\ jfbuf = SubSeq(jfile, 1, Len(jfbuf))
  /\ jfile # <<>> /\ jfload.how = "value" => jfsaved.how = "done" /\ jfload.v = Says(jfsaved.v)

\* What is assumed of the printer and the parser, for one text.
LEMMA TextReadBack ==
  ASSUME NEW text, NEW v, IsTextOf(text, v)
  PROVE  /\ text \in Seq(STRING) /\ text # <<>>
         /\ ParseOf(text) = [err |-> "success", v |-> Says(v)]
         /\ \A n \in 1 .. Len(text) - 1 : ParseOf(SubSeq(text, 1, n)).err # "success"
BY ReadBackAssumption DEF IsTextOf

\* A call moves some of what is left.
LEMMA SomeMoves == ASSUME NEW left \in Nat, NEW n \in Amount(left) PROVE n \in 1 .. left
BY TransfersAssumption DEF Amount

\* One text behind another.
LEMMA Joined ==
  ASSUME NEW S, NEW x \in Seq(S), NEW y \in Seq(S)
  PROVE  /\ x \o y \in Seq(S) /\ Len(x \o y) = Len(x) + Len(y) /\ Len(x) \in Nat /\ Len(y) \in Nat
         /\ \A i \in 1 .. Len(x) + Len(y) : (x \o y)[i] = IF i <= Len(x) THEN x[i] ELSE y[i - Len(x)]
OBVIOUS

\* An empty text before another.
LEMMA NothingBefore == ASSUME NEW S, NEW x \in Seq(S) PROVE <<>> \in Seq(S) /\ <<>> \o x = x
OBVIOUS

\* A write takes the first characters of what is left to the file.
LEMMA WriteMoves ==
  ASSUME NEW S, NEW file \in Seq(S), NEW buf \in Seq(S), NEW n \in 1 .. Len(buf)
  PROVE  /\ file \o SubSeq(buf, 1, n) \in Seq(S) /\ SubSeq(buf, n + 1, Len(buf)) \in Seq(S)
         /\ (file \o SubSeq(buf, 1, n)) \o SubSeq(buf, n + 1, Len(buf)) = file \o buf
<1> DEFINE a == SubSeq(buf, 1, n)
           b == SubSeq(buf, n + 1, Len(buf))
<1>1. a \in Seq(S) /\ Len(a) = n /\ \A i \in 1 .. n : a[i] = buf[i]
  OBVIOUS
<1>2. b \in Seq(S) /\ Len(b) = Len(buf) - n /\ \A i \in 1 .. Len(buf) - n : b[i] = buf[n + i]
  OBVIOUS
<1> HIDE DEF a, b
<1> DEFINE c == file \o a
           d == c \o b
           e == file \o buf
<1>0. Len(file) \in Nat /\ Len(buf) \in Nat /\ n \in Nat /\ 1 <= n /\ n <= Len(buf)
  OBVIOUS
<1>3. c \in Seq(S) /\ Len(c) = Len(file) + n
      /\ \A i \in 1 .. Len(file) + n : c[i] = IF i <= Len(file) THEN file[i] ELSE a[i - Len(file)]
  BY <1>1, Joined
<1>4. e \in Seq(S) /\ Len(e) = Len(file) + Len(buf)
      /\ \A i \in 1 .. Len(file) + Len(buf) : e[i] = IF i <= Len(file) THEN file[i] ELSE buf[i - Len(file)]
  BY Joined
<1> HIDE DEF c, e
<1>5. d \in Seq(S) /\ Len(d) = Len(c) + Len(b)
      /\ \A i \in 1 .. Len(c) + Len(b) : d[i] = IF i <= Len(c) THEN c[i] ELSE b[i - Len(c)]
  BY <1>2, <1>3, Joined
<1> HIDE DEF d
<1>6. Len(d) = Len(e) /\ Len(c) + Len(b) = Len(file) + Len(buf)
  BY <1>0, <1>2, <1>3, <1>4, <1>5
<1>7. ASSUME NEW i \in 1 .. Len(file) + Len(buf) PROVE d[i] = e[i]
  <2>0. i \in Int /\ d[i] = IF i <= Len(c) THEN c[i] ELSE b[i - Len(c)]
    BY <1>0, <1>5, <1>6
  <2>1. CASE i <= Len(file)
    <3>1. i \in 1 .. Len(file) + n /\ i <= Len(c)
      BY <1>0, <1>3, <2>1
    <3>2. QED
      BY <1>3, <1>4, <2>0, <2>1, <3>1
  <2>2. CASE i > Len(file) /\ i <= Len(file) + n
    <3>1. i - Len(file) \in 1 .. n /\ i \in 1 .. Len(file) + n /\ i <= Len(c)
      BY <1>0, <1>3, <2>2
    <3>2. c[i] = buf[i - Len(file)] /\ e[i] = buf[i - Len(file)]
      BY <1>0, <1>1, <1>3, <1>4, <2>2, <3>1
    <3>3. d[i] = c[i]
      BY <2>0, <3>1
    <3>4. QED
      BY <3>2, <3>3
  <2>3. CASE i > Len(file) + n
    <3>1. /\ i - Len(c) \in 1 .. Len(buf) - n /\ n + (i - Len(c)) = i - Len(file)
          /\ ~(i <= Len(c)) /\ ~(i <= Len(file))
      BY <1>0, <1>3, <2>3
    <3>2. d[i] = b[i - Len(c)]
      BY <2>0, <3>1
    <3>3. QED
      BY <1>2, <1>4, <3>1, <3>2
  <2>4. QED
    BY <1>0, <2>1, <2>2, <2>3
<1>8. d = e
  BY <1>0, <1>2, <1>3, <1>4, <1>5, <1>6, <1>7
<1>9. QED
  BY <1>2, <1>3, <1>8 DEF a, b, c, d, e

\* Every system call keeps the invariant.
LEMMA FileKept == ASSUME FileInv, [FileNext]_fileVars PROVE FileInv'
<1> DEFINE S == STRING
<1>1. jfile \in Seq(S) /\ jfbuf \in Seq(S)
  BY DEF FileInv
<1> HIDE DEF S
<1>2. CASE SaveOpen
  <2>1. PICK v \in FileValues \ {JNull}, f \in FileFlags :
          /\ jfpc' = "saving" /\ jfile' = <<>> /\ jfsaved' = [v |-> v, how |-> "open"]
          /\ jfbuf' = TextOf(v, f) /\ jfload' = NoLoad
    BY <1>2 DEF SaveOpen
  <2>2. IsTextOf(jfbuf', v)
    BY <2>1 DEF IsTextOf
  <2>3. jfbuf' \in Seq(S) /\ jfile' \in Seq(S) /\ jfile' \o jfbuf' = jfbuf'
    <3>1. jfbuf' \in Seq(S)
      BY <2>2, TextReadBack, Zenon DEF S
    <3>2. <<>> \in Seq(S) /\ <<>> \o jfbuf' = jfbuf'
      BY <3>1, NothingBefore
    <3>3. jfile' = <<>>
      BY <2>1
    <3>4. QED
      BY <3>1, <3>2, <3>3, Zenon
  <2>4. QED
    BY <2>1, <2>2, <2>3 DEF FileInv, NoLoad, S
<1>3. CASE SaveRefused
  BY <1>3 DEF SaveRefused, fileVars, FileInv
<1>4. CASE SaveWrite
  <2>1. PICK n \in Amount(Len(jfbuf)) : /\ jfile' = jfile \o SubSeq(jfbuf, 1, n)
                                        /\ jfbuf' = SubSeq(jfbuf, n + 1, Len(jfbuf))
    BY <1>4 DEF SaveWrite
  <2>2. n \in 1 .. Len(jfbuf)
    BY <1>1, <2>1, SomeMoves
  <2>3. jfile' \in Seq(S) /\ jfbuf' \in Seq(S) /\ jfile' \o jfbuf' = jfile \o jfbuf
    BY <1>1, <2>1, <2>2, WriteMoves, ZenonT(60)
  <2>4. UNCHANGED <<jfpc, jfsaved, jfload>> /\ jfpc = "saving"
    BY <1>4 DEF SaveWrite
  <2>5. QED
    BY <2>3, <2>4 DEF FileInv, NoLoad, S
<1>5. CASE SaveEnd
  <2>1. jfile \o jfbuf = jfile
    BY <1>1, <1>5 DEF SaveEnd
  <2>2. IsTextOf(jfile, jfsaved.v) /\ jfload = NoLoad
    BY <1>5, <2>1 DEF SaveEnd, FileInv
  <2>3. jfsaved' = [jfsaved EXCEPT !.how = "done"] /\ jfsaved'.how = "done" /\ jfsaved'.v = jfsaved.v
        /\ DOMAIN jfsaved' = {"v", "how"}
    BY <1>5 DEF SaveEnd, FileInv
  <2>4. QED
    BY <1>5, <2>2, <2>3 DEF SaveEnd, FileInv, NoLoad
<1>6. CASE SaveBroken
  <2>1. jfsaved'.how = "failed" /\ jfsaved'.v = jfsaved.v /\ DOMAIN jfsaved' = {"v", "how"}
        /\ jfile' = jfile /\ jfbuf' = <<>> /\ jfpc' = "idle" /\ jfload' = jfload
    BY <1>6 DEF SaveBroken, FileInv
  <2> DEFINE text == jfile \o jfbuf
  <2>2. IsTextOf(text, jfsaved.v) /\ jfload = NoLoad
    BY <1>6 DEF SaveBroken, FileInv
  <2>3. text \in Seq(S) /\ Len(jfile) \in Nat /\ Len(jfile) < Len(text)
        /\ jfile = SubSeq(text, 1, Len(jfile))
    BY <1>1, <1>6 DEF SaveBroken
  <2> HIDE DEF text
  <2>4. IsCutOff(jfile, jfsaved.v)
    BY <2>2, <2>3 DEF IsCutOff, S
  <2>5. jfbuf' \in Seq(S)
    BY <2>1
  <2>6. QED
    BY <1>1, <2>1, <2>2, <2>4, <2>5 DEF FileInv, NoLoad, S
<1>7. CASE LoadOpen
  <2>1. jfbuf' \in Seq(S) /\ jfbuf' = SubSeq(jfile, 1, 0) /\ Len(jfbuf') = 0
    BY <1>1, <1>7 DEF LoadOpen
  <2>2. QED
    BY <1>1, <1>7, <2>1 DEF LoadOpen, FileInv, NoLoad, S
<1>8. CASE LoadRead
  <2>1. PICK n \in Amount(Len(jfile) - Len(jfbuf)) : jfbuf' = SubSeq(jfile, 1, Len(jfbuf) + n)
    BY <1>8 DEF LoadRead
  <2>2. n \in 1 .. Len(jfile) - Len(jfbuf)
    BY <1>1, <1>8, <2>1, SomeMoves DEF LoadRead
  <2>3. jfbuf' \in Seq(S) /\ Len(jfbuf') <= Len(jfile) /\ jfbuf' = SubSeq(jfile, 1, Len(jfbuf'))
    BY <1>1, <2>1, <2>2
  <2>4. QED
    BY <1>1, <1>8, <2>3 DEF LoadRead, FileInv, S
<1>9. CASE LoadFails
  <2>1. jfbuf' \in Seq(S)
    BY <1>9 DEF LoadFails
  <2>2. QED
    BY <1>1, <1>9, <2>1 DEF LoadFails, FileInv, S
<1>10. CASE LoadEnd
  <2>1. jfpc = "loading" /\ Len(jfbuf) = Len(jfile) /\ jfpc' = "idle" /\ jfbuf' = <<>>
        /\ UNCHANGED <<jfile, jfsaved>>
        /\ (jfbuf # <<>> => jfload' = [how |-> IF ParseOf(jfbuf).err = "success" THEN "value" ELSE "null",
                                       v |-> ParseOf(jfbuf).v])
    BY <1>10 DEF LoadEnd
  <2>2. jfbuf = jfile
    BY <1>1, <2>1 DEF FileInv
  <2>3. jfbuf' \in Seq(S)
    BY <2>1
  <2>4. ASSUME jfile # <<>>, jfload'.how = "value"
        PROVE  jfsaved.how = "done" /\ jfload'.v = Says(jfsaved.v)
    <3>1. ParseOf(jfile).err = "success" /\ jfload'.v = ParseOf(jfile).v
      BY <2>1, <2>2, <2>4
    <3>2. jfsaved.how # "none" /\ jfsaved.how # "open"
      BY <2>1, <2>4 DEF FileInv
    <3>3. jfsaved.how # "failed"
      <4>1. SUFFICES ASSUME jfsaved.how = "failed" PROVE FALSE
        OBVIOUS
      <4>2. PICK text \in Seq(STRING), n \in Nat :
              IsTextOf(text, jfsaved.v) /\ n < Len(text) /\ jfile = SubSeq(text, 1, n)
        BY <2>1, <4>1 DEF FileInv, IsCutOff
      <4>3. n # 0
        BY <2>4, <4>2
      <4>4. n \in 1 .. Len(text) - 1
        BY <4>2, <4>3
      <4>5. QED
        BY <3>1, <4>2, <4>4, TextReadBack
    <3>4. jfsaved.how = "done"
      BY <3>2, <3>3 DEF FileInv
    <3>5. QED
      BY <2>1, <3>1, <3>4, TextReadBack DEF FileInv
  <2>5. QED
    BY <1>1, <2>1, <2>3, <2>4 DEF FileInv, S
<1>11. CASE UNCHANGED fileVars
  BY <1>11 DEF fileVars, FileInv
<1>12. QED
  BY <1>2, <1>3, <1>4, <1>5, <1>6, <1>7, <1>8, <1>9, <1>10, <1>11 DEF FileNext

\* For every set of values, however little a call moves, whichever fails and
\* wherever the program ends: json_object_from_file returns the value that was
\* saved last by a json_object_to_file that succeeded, or nothing, as long as
\* the parser reads back what the printer prints (json_util.c).
THEOREM FileAlwaysSound == FileSpec => []LoadedWasSaved
<1>1. FileInit => FileInv
  <2> SUFFICES ASSUME FileInit PROVE FileInv
    OBVIOUS
  <2> DEFINE S == STRING
  <2>1. jfile \in Seq(S) /\ jfbuf \in Seq(S)
    BY DEF FileInit
  <2> HIDE DEF S
  <2>2. QED
    BY <2>1 DEF FileInit, FileInv, NoLoad, S
<1>2. FileInv /\ [FileNext]_fileVars => FileInv'
  BY FileKept
<1>3. FileInv => LoadedWasSaved
  <2> SUFFICES ASSUME FileInv, jfpc = "idle", jfile # <<>>
               PROVE  /\ jfsaved.how = "done" =>
                           ParseOf(jfile) = [err |-> "success", v |-> Says(jfsaved.v)]
                      /\ jfload.how = "value" => jfsaved.how = "done" /\ jfload.v = Says(jfsaved.v)
    BY DEF LoadedWasSaved
  <2>1. jfsaved.how = "done" => IsTextOf(jfile, jfsaved.v)
    BY DEF FileInv
  <2>2. QED
    BY <2>1, TextReadBack DEF FileInv
<1>4. QED
  BY <1>1, <1>2, <1>3, PTL DEF FileSpec
=============================================================================
