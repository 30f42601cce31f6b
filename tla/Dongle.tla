------------------------------- MODULE Dongle -------------------------------
(***************************************************************************)
(* The display dongle, src/dongle.cpp: one task whose main loop calls      *)
(*   updateTemp, processTempIndication, processButton, updateLed,          *)
(*   updateScreen, processReceiver, delay                                  *)
(* for ever.  What the code writes twice, for "top" and for "bot", is      *)
(* written once here, for every site.                                      *)
(*                                                                         *)
(* millis() is a counter that wraps at MILLIS_RANGE.  Time passes where    *)
(* the code waits: in the poll and debounce delays of processButton, in    *)
(* xQueueReceive() and in the delay that ends the loop; CPU_MS bounds what *)
(* the rest of one iteration costs.  age, sinceToggle, drawnAgo and        *)
(* shownAge are history variables: true time, which no counter wraps.      *)
(***************************************************************************)
EXTENDS TempHistory

CONSTANTS
  Sites,              \* the sensors shown: "Balcony2" on top, "Balcony3" below
  Temps,              \* temperatures a packet may carry
  RED_C, YELLOW_C,    \* thresholds, by site
  MILLIS_RANGE,       \* 2^32: millis() is an unsigned long
  TEMP_LIFE_TIME_MS,  \* a reading is dropped when older than this
  TFT_OFF_MS,         \* intMs of processButton()
  HOLD_MS,            \* longest wait for the button to be let go
  POLL_MS,            \* delay(10) while it is held
  DEBOUNCE_MS,        \* delay(100) after it
  SCREEN_MS,          \* shortest time between two drawings
  RX_WAIT_MS,         \* xQueueReceive()'s 100 ticks
  DELAY_MS,           \* delay(30) at the end of the loop
  CPU_MS              \* bound: computing and drawing in one iteration

\* The longest stay in processButton(), and the longest iteration.
BUTTON_MAX == HOLD_MS + POLL_MS + DEBOUNCE_MS
ITER_MAX   == BUTTON_MAX + RX_WAIT_MS + DELAY_MS + CPU_MS

ASSUME DongleAssumption ==
  /\ Temps \subseteq Int \ {NO_TEMP}
  /\ RED_C \in [Sites -> Int] /\ YELLOW_C \in [Sites -> Int]
  /\ \A s \in Sites : RED_C[s] > YELLOW_C[s] /\ YELLOW_C[s] > NO_TEMP

ASSUME TimeAssumption ==
  /\ {TEMP_LIFE_TIME_MS, TFT_OFF_MS, HOLD_MS, DEBOUNCE_MS, SCREEN_MS,
      RX_WAIT_MS, DELAY_MS, CPU_MS} \subseteq Nat
  /\ MILLIS_RANGE \in Nat /\ POLL_MS \in Nat \ {0}
  /\ HOLD_MS <= TFT_OFF_MS
  /\ MILLIS_RANGE > TEMP_LIFE_TIME_MS + ITER_MAX
  /\ MILLIS_RANGE > TFT_OFF_MS + ITER_MAX
  /\ MILLIS_RANGE > SCREEN_MS + ITER_MAX

VARIABLES
  pc,                   \* the call of the main loop that comes next
  millis,               \* the Arduino clock
  temp,                 \* topTemp, botTemp
  lastRcvd,             \* lastTopRcvd, lastBotRcvd
  history,              \* topHistory, botHistory
  zone,                 \* which of ledOk() ... ledRedZone() set the colours
  font,                 \* topFontColor, botFontColor
  leds,                 \* what FastLED.show() last showed
  tftActive, ledStatus, \* backlight on; bright LED colours
  lastPressedMs,
  lastScreenUpdatedMs,
  screen,               \* what updateScreen() drew for each site
  pressed,              \* the button is down
  upSinceToggle,        \* history: it was up at some time since the last toggle
  sinceToggle,          \* history: true time since then, up to SINCE_CAP
  age,                  \* history: true age of a reading, 0 for NO_TEMP
  drawnAgo,             \* history: true time since the last drawing
  shownAge              \* history: true age of a reading when it was drawn

clockVars   == <<millis, sinceToggle, age, drawnAgo>>
readingVars == <<temp, lastRcvd, history>>
ledVars     == <<zone, font, leds>>
buttonVars  == <<tftActive, ledStatus, lastPressedMs, pressed, upSinceToggle>>
screenVars  == <<lastScreenUpdatedMs, screen, shownAge>>
dongleVars  == <<pc, clockVars, readingVars, ledVars, buttonVars, screenVars>>

(* Unsigned long arithmetic: t milliseconds after m, and from n to m.      *)

\* Mutant of After: a clock that never wraps.
AfterUnwrapped(m, t) == m + t

After(m, t) == IF m + t >= MILLIS_RANGE THEN m + t - MILLIS_RANGE ELSE m + t

\* Mutant of Since: signed arithmetic, a wrapped difference is negative.
SinceSigned(m, n) == m - n

Since(m, n) == IF m >= n THEN m - n ELSE m - n + MILLIS_RANGE

\* The display is off by then; longer times are not told apart.
SINCE_CAP == TFT_OFF_MS + ITER_MAX + 1
Capped(t) == IF t > SINCE_CAP THEN SINCE_CAP ELSE t

\* t milliseconds pass.  New readings have age 0, and so has what is unknown.
Elapse(t, new) ==
  /\ millis' = After(millis, t)
  /\ age' = [s \in Sites |-> IF s \in new \/ temp'[s] = NO_TEMP THEN 0 ELSE age[s] + t]
  /\ sinceToggle' = Capped(sinceToggle + t)
  /\ drawnAgo' = drawnAgo + t

Init ==
  /\ pc = "updateTemp"
  /\ millis = 0
  /\ temp = [s \in Sites |-> NO_TEMP]
  /\ lastRcvd = [s \in Sites |-> 0]
  /\ history = [s \in Sites |-> ResetHistory]
  /\ zone = "start" /\ leds = [zone |-> "start", bright |-> TRUE]
  /\ font = [s \in Sites |-> "green"]
  /\ tftActive = TRUE /\ ledStatus = TRUE
  /\ lastPressedMs = 0 /\ lastScreenUpdatedMs = 0
  /\ screen = [s \in Sites |-> [temp |-> NO_TEMP, font |-> "green",
                                range |-> [min |-> NO_TEMP, max |-> NO_TEMP]]]
  /\ pressed \in BOOLEAN /\ upSinceToggle = TRUE
  /\ sinceToggle = 0 /\ drawnAgo = 0
  /\ age = [s \in Sites |-> 0] /\ shownAge = [s \in Sites |-> 0]

-----------------------------------------------------------------------------

\* updateTemp(): a reading older than its life time is dropped.
UpdateTemp ==
  /\ pc = "updateTemp" /\ pc' = "processTempIndication"
  /\ temp' = [s \in Sites |->
                IF Since(millis, lastRcvd[s]) > TEMP_LIFE_TIME_MS THEN NO_TEMP ELSE temp[s]]
  /\ Elapse(0, {})
  /\ UNCHANGED <<lastRcvd, history, ledVars, buttonVars, screenVars>>

Unknown == \E s \in Sites : temp[s] = NO_TEMP

\* Mutant of LedZone: the yellow test comes after the red one.
LedZoneYellowLast ==
  LET z1 == IF Unknown THEN "noData" ELSE "ok"
      z2 == IF \E s \in Sites : temp[s] > RED_C[s] THEN "red" ELSE z1
  IN  IF \E s \in Sites : temp[s] > YELLOW_C[s] THEN "yellow" ELSE z2

\* processTempIndication(), the LED: each test overrides the ones before it.
LedZone ==
  LET z1 == IF Unknown THEN "noData" ELSE "ok"
      z2 == IF \E s \in Sites : temp[s] > YELLOW_C[s] THEN "yellow" ELSE z1
  IN  IF \E s \in Sites : temp[s] > RED_C[s] THEN "red" ELSE z2

\* Mutant of FontColor: "no data" goes before the thresholds.
FontColorNoDataFirst(s) == CASE Unknown -> "blue"
                             [] ~Unknown /\ temp[s] > RED_C[s] -> "red"
                             [] ~Unknown /\ temp[s] <= RED_C[s] /\ temp[s] > YELLOW_C[s] -> "yellow"
                             [] ~Unknown /\ temp[s] <= YELLOW_C[s] -> "darkgreen"

\* processTempIndication(), the colour a site's temperature is written in.
FontColor(s) == CASE temp[s] > RED_C[s]    -> "red"
                  [] temp[s] <= RED_C[s] /\ temp[s] > YELLOW_C[s] -> "yellow"
                  [] temp[s] <= YELLOW_C[s] /\ Unknown  -> "blue"
                  [] temp[s] <= YELLOW_C[s] /\ ~Unknown -> "darkgreen"

ProcessTempIndication ==
  /\ pc = "processTempIndication" /\ pc' = "processButton"
  /\ zone' = LedZone
  /\ font' = [s \in Sites |-> FontColor(s)]
  /\ UNCHANGED <<leds, clockVars, readingVars, buttonVars, screenVars>>

\* processButton() switches the display and the LED over and starts to wait.
Toggle(on) == /\ tftActive' = on /\ ledStatus' = on
              /\ lastPressedMs' = millis
              /\ pc' = "hold"
              /\ sinceToggle' = 0
              /\ upSinceToggle' = ~pressed
              /\ UNCHANGED <<pressed, millis, age, drawnAgo>>

\* Mutant of ProcessButton: the time only counts while the button is down.
ProcessButtonAnd ==
  /\ pc = "processButton"
  /\ \/ /\ tftActive
        /\ Since(millis, lastPressedMs) > TFT_OFF_MS /\ pressed
        /\ Toggle(FALSE)
     \/ ~tftActive /\ pressed /\ Toggle(TRUE)
     \/ /\ ~pressed \/ (tftActive /\ Since(millis, lastPressedMs) <= TFT_OFF_MS)
        /\ pc' = "updateLed"
        /\ UNCHANGED <<clockVars, buttonVars>>
  /\ UNCHANGED <<readingVars, ledVars, screenVars>>

\* processButton(): off when the button is down or the time is up, on when it
\* is down.
ProcessButton ==
  /\ pc = "processButton"
  /\ \/ /\ tftActive
        /\ Since(millis, lastPressedMs) > TFT_OFF_MS \/ pressed
        /\ Toggle(FALSE)
     \/ ~tftActive /\ pressed /\ Toggle(TRUE)
     \/ /\ ~pressed
        /\ tftActive => Since(millis, lastPressedMs) <= TFT_OFF_MS
        /\ pc' = "updateLed"
        /\ UNCHANGED <<clockVars, buttonVars>>
  /\ UNCHANGED <<readingVars, ledVars, screenVars>>

\* Mutant of Hold: the button is not waited for.
HoldOnlyDebounces ==
  /\ pc = "hold"
  /\ UNCHANGED readingVars
  /\ Elapse(DEBOUNCE_MS, {}) /\ pc' = "updateLed"
  /\ UNCHANGED <<ledVars, buttonVars, screenVars>>

\* The wait in processButton(): one poll, or the debounce delay that ends it.
Hold ==
  /\ pc = "hold"
  /\ UNCHANGED readingVars
  /\ IF Since(millis, lastPressedMs) < HOLD_MS /\ pressed
       THEN Elapse(POLL_MS, {}) /\ UNCHANGED pc
       ELSE Elapse(DEBOUNCE_MS, {}) /\ pc' = "updateLed"
  /\ UNCHANGED <<ledVars, buttonVars, screenVars>>

UpdateLed ==
  /\ pc = "updateLed" /\ pc' = "updateScreen"
  /\ leds' = [zone |-> zone, bright |-> ledStatus]
  /\ UNCHANGED <<zone, font, clockVars, readingVars, buttonVars, screenVars>>

\* Mutant of UpdateScreen: an unknown temperature leaves the old number there.
UpdateScreenKeepsOld ==
  /\ pc = "updateScreen" /\ pc' = "processReceiver"
  /\ IF Since(millis, lastScreenUpdatedMs) < SCREEN_MS
       THEN UNCHANGED <<screenVars, drawnAgo>>
       ELSE /\ lastScreenUpdatedMs' = millis
            /\ screen' = [s \in Sites |-> IF temp[s] = NO_TEMP THEN screen[s]
                              ELSE [temp |-> temp[s], font |-> font[s],
                                    range |-> FindInHistory(history[s])]]
            /\ shownAge' = [s \in Sites |-> IF temp[s] = NO_TEMP THEN shownAge[s] + drawnAgo
                                            ELSE age[s]]
            /\ drawnAgo' = 0
  /\ UNCHANGED <<millis, sinceToggle, age, readingVars, ledVars, buttonVars>>

\* updateScreen(): nothing within SCREEN_MS of the last drawing.
UpdateScreen ==
  /\ pc = "updateScreen" /\ pc' = "processReceiver"
  /\ IF Since(millis, lastScreenUpdatedMs) < SCREEN_MS
       THEN UNCHANGED <<screenVars, drawnAgo>>
       ELSE /\ lastScreenUpdatedMs' = millis
            /\ screen' = [s \in Sites |-> [temp |-> temp[s], font |-> font[s],
                                           range |-> FindInHistory(history[s])]]
            /\ shownAge' = age
            /\ drawnAgo' = 0
  /\ UNCHANGED <<millis, sinceToggle, age, readingVars, ledVars, buttonVars>>

\* Mutant of Store: the reading is entered in the history of every site.
StoreInAll(s, t, now) ==
  /\ temp' = [temp EXCEPT ![s] = t]
  /\ lastRcvd' = [lastRcvd EXCEPT ![s] = now]
  /\ history' = [r \in Sites |-> AddToHistory(history[r], t)]

\* Mutant of Store: only a temperature that is new counts as received.
StoreIfNew(s, t, now) ==
  /\ temp' = [temp EXCEPT ![s] = t]
  /\ lastRcvd' = [lastRcvd EXCEPT ![s] = IF temp[s] = t THEN @ ELSE now]
  /\ history' = [history EXCEPT ![s] = AddToHistory(@, t)]

\* processReceiver() finds the name of site s in the packet.
Store(s, t, now) ==
  /\ temp' = [temp EXCEPT ![s] = t]
  /\ lastRcvd' = [lastRcvd EXCEPT ![s] = now]
  /\ history' = [history EXCEPT ![s] = AddToHistory(@, t)]

\* processReceiver(): after a wait of at most RX_WAIT_MS a packet of a site, or
\* none (or one whose deviceName is neither).
ProcessReceiver ==
  /\ pc = "processReceiver" /\ pc' = "delay"
  /\ \E wait \in 0..RX_WAIT_MS :
       \/ UNCHANGED readingVars /\ Elapse(wait, {})
       \/ \E s \in Sites, t \in Temps :
            Store(s, t, After(millis, wait)) /\ Elapse(wait, {s})
  /\ UNCHANGED <<ledVars, buttonVars, screenVars>>

\* delay(30), and whatever the iteration has cost.
Delay ==
  /\ pc = "delay" /\ pc' = "updateTemp"
  /\ \E cpu \in 0..CPU_MS : UNCHANGED readingVars /\ Elapse(DELAY_MS + cpu, {})
  /\ UNCHANGED <<ledVars, buttonVars, screenVars>>

\* The user, at any time.
PressOrRelease ==
  /\ pressed' = ~pressed
  /\ upSinceToggle' = (upSinceToggle \/ pressed)
  /\ UNCHANGED <<pc, clockVars, readingVars, ledVars, tftActive, ledStatus,
                 lastPressedMs, screenVars>>

MainLoop == UpdateTemp \/ ProcessTempIndication \/ ProcessButton \/ Hold
              \/ UpdateLed \/ UpdateScreen \/ ProcessReceiver \/ Delay

Next == MainLoop \/ PressOrRelease

Spec == Init /\ [][Next]_dongleVars

-----------------------------------------------------------------------------
(* Properties.                                                             *)

Reported == Temps \union {NO_TEMP}
Calls    == {"updateTemp", "processTempIndication", "processButton", "hold",
             "updateLed", "updateScreen", "processReceiver", "delay"}
Colors   == {"green", "darkgreen", "blue", "yellow", "red"}
Zones    == {"start", "ok", "noData", "yellow", "red"}
Millis   == 0..(MILLIS_RANGE - 1)

DongleTypeOK ==
  /\ pc \in Calls
  /\ millis \in Millis
  /\ temp \in [Sites -> Reported]
  /\ lastRcvd \in [Sites -> Millis]
  /\ \A s \in Sites : history[s] \in Seq(Reported) /\ Len(history[s]) = HISTORY_SIZE
  /\ zone \in Zones /\ font \in [Sites -> Colors]
  /\ leds \in [zone : Zones, bright : BOOLEAN]
  /\ tftActive \in BOOLEAN /\ ledStatus \in BOOLEAN
  /\ lastPressedMs \in Millis /\ lastScreenUpdatedMs \in Millis
  /\ DOMAIN screen = Sites
  /\ \A s \in Sites : screen[s].temp \in Reported /\ screen[s].font \in Colors
  /\ pressed \in BOOLEAN /\ upSinceToggle \in BOOLEAN
  /\ sinceToggle \in Nat /\ drawnAgo \in Nat
  /\ age \in [Sites -> Nat] /\ shownAge \in [Sites -> Nat]

\* A reading is never used past its life time and one iteration, measured in
\* true time: the wrap of millis() neither keeps an old reading nor revives it.
ReadingIsFresh ==
  \A s \in Sites : temp[s] # NO_TEMP => age[s] <= TEMP_LIFE_TIME_MS + ITER_MAX

\* Nor does a stale number stay on the screen longer than that and the time
\* between two drawings, though updateScreen() skips most iterations.
ShownIsFresh ==
  \A s \in Sites : screen[s].temp # NO_TEMP =>
     shownAge[s] + drawnAgo <= TEMP_LIFE_TIME_MS + BUTTON_MAX + SCREEN_MS + ITER_MAX

\* From the packet to the LED at most one delay and one held button go by, and
\* neither a missing reading nor a yellow one of another site hides the alarm.
AlarmShownInTime ==
  \A s \in Sites : temp[s] > RED_C[s] /\ age[s] > DELAY_MS + CPU_MS + BUTTON_MAX
                     => leds.zone = "red"

\* A colour that site s may have for temperature t.
Fits(color, t, s) == /\ color = "red"    <=> t > RED_C[s]
                     /\ color = "yellow" <=> t > YELLOW_C[s] /\ t <= RED_C[s]

\* The number on the screen has the colour of its own zone, although the colour
\* is chosen in one call of the loop and drawn in another, and an unknown one is
\* neither red nor yellow.
ColourFitsNumber == \A s \in Sites : Fits(screen[s].font, screen[s].temp, s)

\* The range drawn beside a number contains it: the reading and the history of a
\* site go together.
RangeHoldsNumber ==
  \A s \in Sites : screen[s].temp # NO_TEMP =>
    screen[s].range.min <= screen[s].temp /\ screen[s].temp <= screen[s].range.max

\* An untouched display goes dark in time, also when millis() wraps meanwhile.
DisplayTurnsOff == tftActive => sinceToggle <= TFT_OFF_MS + ITER_MAX

\* Holding the button toggles the display once: the next toggle needs the button
\* to have been up, or HOLD_MS to have passed.
OneToggleAPress ==
  [][tftActive' # tftActive => upSinceToggle \/ sinceToggle >= HOLD_MS]_dongleVars

-----------------------------------------------------------------------------
(* The inductive invariant behind the timing properties.                   *)

\* The wrapped differences the code computes are true times.
ClocksAgree ==
  /\ \A s \in Sites : temp[s] # NO_TEMP => Since(millis, lastRcvd[s]) = age[s]
  /\ tftActive \/ pc = "hold" => Since(millis, lastPressedMs) = sinceToggle
  /\ Since(millis, lastScreenUpdatedMs) = drawnAgo

\* True time since the last step of that kind, at most, when pc comes next: the
\* iteration is counted from updateTemp, the drawing and the packet.
HoldSoFar == IF pc = "hold" THEN sinceToggle ELSE BUTTON_MAX

AgeLimit == TEMP_LIFE_TIME_MS +
  CASE pc = "updateTemp" -> ITER_MAX
    [] pc \in {"processTempIndication", "processButton"} -> 0
    [] pc \in {"hold", "updateLed", "updateScreen", "processReceiver"} -> HoldSoFar
    [] pc = "delay" -> BUTTON_MAX + RX_WAIT_MS

ActiveLimit == TFT_OFF_MS +
  CASE pc \in {"updateTemp", "processTempIndication", "processButton"} -> ITER_MAX
    [] pc \in {"hold", "updateLed", "updateScreen", "processReceiver"} -> BUTTON_MAX
    [] pc = "delay" -> BUTTON_MAX + RX_WAIT_MS

DrawnLimit == SCREEN_MS +
  CASE pc = "processReceiver" -> 0
    [] pc = "delay" -> RX_WAIT_MS
    [] pc \in {"updateTemp", "processTempIndication", "processButton"} ->
         RX_WAIT_MS + DELAY_MS + CPU_MS
    [] pc \in {"hold", "updateLed", "updateScreen"} ->
         RX_WAIT_MS + DELAY_MS + CPU_MS + HoldSoFar

AlarmLimit == IF pc = "delay" THEN 0 ELSE DELAY_MS + CPU_MS +
  CASE pc \in {"updateTemp", "processTempIndication", "processButton"} -> 0
    [] pc \in {"hold", "updateLed"} -> HoldSoFar
    [] pc \in {"updateScreen", "processReceiver"} -> BUTTON_MAX

WithinLimits ==
  /\ \A s \in Sites : temp[s] # NO_TEMP => age[s] <= AgeLimit
  /\ pc = "hold" => sinceToggle < HOLD_MS + POLL_MS
  /\ tftActive => sinceToggle <= ActiveLimit
  /\ drawnAgo <= DrawnLimit
  /\ \A s \in Sites : screen[s].temp # NO_TEMP =>
       shownAge[s] <= TEMP_LIFE_TIME_MS + BUTTON_MAX

\* How far an alarm has got on its way from the packet to the LED.
AlarmOnItsWay ==
  \A s \in Sites : temp[s] > RED_C[s] =>
    /\ pc \in {"processButton", "hold", "updateLed"} => zone = "red"
    /\ pc \in {"updateScreen", "processReceiver"} => leds.zone = "red"
    /\ leds.zone = "red" \/ age[s] <= AlarmLimit

\* The wait of processButton() ends when the button is up or the time is over.
ButtonWaited ==
  /\ pc = "hold" /\ ~upSinceToggle => pressed
  /\ pc # "hold" => upSinceToggle \/ sinceToggle >= HOLD_MS

\* From processTempIndication() to updateScreen() nothing changes the temperature
\* that the colour was chosen for.
ColourOnItsWay ==
  /\ pc \in {"processButton", "hold", "updateLed", "updateScreen"} =>
       \A s \in Sites : Fits(font[s], temp[s], s)
  /\ ColourFitsNumber

\* The reading of a site is the newest of its history, until it expires.
RangeOnItsWay ==
  /\ DOMAIN history = Sites
  /\ \A s \in Sites : temp[s] # NO_TEMP => history[s][HISTORY_SIZE] = temp[s]
  /\ RangeHoldsNumber

DongleInv == DongleTypeOK /\ ClocksAgree /\ WithinLimits /\ AlarmOnItsWay /\ ButtonWaited
=============================================================================
