---------------------------- MODULE DongleProofs ----------------------------
(***************************************************************************)
(* Proofs about Dongle, for every set of sites, every threshold, every     *)
(* waiting time and every width of the clock that TimeAssumption allows,   *)
(* and about Network, for every set of sensors, every cycle and every      *)
(* number of lost packets that NetworkAssumption allows.                   *)
(***************************************************************************)
EXTENDS Network, TempHistoryProofs, FiniteSetTheorems

-----------------------------------------------------------------------------
(* The clock.                                                              *)

LEMMA TimesTyped ==
  /\ TEMP_LIFE_TIME_MS \in Nat /\ TFT_OFF_MS \in Nat /\ HOLD_MS \in Nat
  /\ DEBOUNCE_MS \in Nat /\ SCREEN_MS \in Nat /\ RX_WAIT_MS \in Nat
  /\ DELAY_MS \in Nat /\ CPU_MS \in Nat /\ POLL_MS \in Nat \ {0}
  /\ MILLIS_RANGE \in Nat
  /\ BUTTON_MAX \in Nat /\ ITER_MAX \in Nat /\ SINCE_CAP \in Nat
  /\ BUTTON_MAX = HOLD_MS + POLL_MS + DEBOUNCE_MS
  /\ ITER_MAX = BUTTON_MAX + RX_WAIT_MS + DELAY_MS + CPU_MS
  /\ SINCE_CAP = TFT_OFF_MS + ITER_MAX + 1
  /\ HOLD_MS <= TFT_OFF_MS
  /\ MILLIS_RANGE > TEMP_LIFE_TIME_MS + ITER_MAX
  /\ MILLIS_RANGE > TFT_OFF_MS + ITER_MAX
  /\ MILLIS_RANGE > SCREEN_MS + ITER_MAX
  BY TimeAssumption DEF BUTTON_MAX, ITER_MAX, SINCE_CAP

\* The wrapped difference grows with time as long as it is not a full turn.
LEMMA SinceAfter ==
  ASSUME NEW m \in Millis, NEW n \in Millis, NEW t \in Nat,
         Since(m, n) + t < MILLIS_RANGE
  PROVE  /\ After(m, t) \in Millis
         /\ Since(After(m, t), n) = Since(m, n) + t
  BY TimesTyped DEF Since, After, Millis

LEMMA SinceTyped ==
  ASSUME NEW m \in Millis, NEW n \in Millis
  PROVE  /\ Since(m, n) \in Nat
         /\ Since(m, m) = 0
         /\ Since(m, n) < MILLIS_RANGE
  BY TimesTyped DEF Since, Millis

LEMMA AfterTyped ==
  ASSUME NEW m \in Millis, NEW t \in Nat, t < MILLIS_RANGE
  PROVE  After(m, t) \in Millis
  BY TimesTyped DEF After, Millis
-----------------------------------------------------------------------------
(* Types.                                                                  *)

LEMMA ReportedTyped == NO_TEMP \in Reported /\ Temps \subseteq Reported
  BY DEF Reported

LEMMA HistoryTyped ==
  ASSUME NEW h \in Seq(Reported), Len(h) = HISTORY_SIZE, NEW t \in Reported
  PROVE  AddToHistory(h, t) \in Seq(Reported) /\ Len(AddToHistory(h, t)) = HISTORY_SIZE
  <1>1. h # <<>>
    BY HistoryAssumption, EmptySeq
  <1>2. Tail(h) \in Seq(Reported) /\ Len(Tail(h)) = HISTORY_SIZE - 1
    BY <1>1, HeadTailProperties
  <1>. QED  BY <1>2, HistoryAssumption, AppendProperties DEF AddToHistory

LEMMA ElapseTyped ==
  ASSUME DongleTypeOK, NEW t \in Nat, t < MILLIS_RANGE, NEW new, Elapse(t, new)
  PROVE  /\ millis' \in Millis
         /\ sinceToggle' \in Nat /\ drawnAgo' \in Nat
         /\ age' \in [Sites -> Nat]
  BY AfterTyped, TimesTyped DEF DongleTypeOK, Elapse, Capped

LEMMA TypeInit == Init => DongleTypeOK
  <1> SUFFICES ASSUME Init PROVE DongleTypeOK
    OBVIOUS
  <1> USE ReportedTyped DEF Init
  <1>1. /\ millis \in Millis /\ lastPressedMs \in Millis /\ lastScreenUpdatedMs \in Millis
        /\ lastRcvd \in [Sites -> Millis]
    BY TimesTyped DEF Millis
  <1>2. temp \in [Sites -> Reported] /\ font \in [Sites -> Colors]
    BY DEF Colors
  <1>3. ASSUME NEW s \in Sites
        PROVE  history[s] \in Seq(Reported) /\ Len(history[s]) = HISTORY_SIZE
    <2>1. ResetHistory \in Seq(Reported) /\ Len(ResetHistory) = HISTORY_SIZE
      BY HistoryAssumption DEF ResetHistory
    <2>. QED  BY <2>1
  <1>4. pc \in Calls /\ zone \in Zones /\ leds \in [zone : Zones, bright : BOOLEAN]
    BY DEF Calls, Zones
  <1>5. DOMAIN screen = Sites /\ \A s \in Sites : screen[s].temp \in Reported /\ screen[s].font \in Colors
    BY DEF Colors
  <1>6. /\ tftActive \in BOOLEAN /\ ledStatus \in BOOLEAN
        /\ pressed \in BOOLEAN /\ upSinceToggle \in BOOLEAN
    OBVIOUS
  <1>7. /\ sinceToggle \in Nat /\ drawnAgo \in Nat
        /\ age \in [Sites -> Nat] /\ shownAge \in [Sites -> Nat]
    OBVIOUS
  <1>. QED  BY <1>1, <1>2, <1>3, <1>4, <1>5, <1>6, <1>7 DEF DongleTypeOK

LEMMA TypeStep == DongleTypeOK /\ [Next]_dongleVars => DongleTypeOK'
  <1> SUFFICES ASSUME DongleTypeOK, [Next]_dongleVars PROVE DongleTypeOK'
    OBVIOUS
  <1> USE DEF DongleTypeOK, clockVars, readingVars, ledVars, buttonVars, screenVars
  <1>1. CASE UpdateTemp
    <2>1. temp' \in [Sites -> Reported] /\ pc' \in Calls
      BY <1>1, ReportedTyped DEF UpdateTemp, Calls
    <2>2. Elapse(0, {})
      BY <1>1 DEF UpdateTemp
    <2>3. /\ millis' \in Millis /\ sinceToggle' \in Nat /\ drawnAgo' \in Nat
          /\ age' \in [Sites -> Nat]
      BY <2>2, ElapseTyped, TimesTyped
    <2>4. /\ UNCHANGED <<lastRcvd, history>> /\ UNCHANGED ledVars /\ UNCHANGED buttonVars
          /\ UNCHANGED screenVars
      BY <1>1 DEF UpdateTemp
    <2>. QED  BY <2>1, <2>3, <2>4
  <1>2. CASE ProcessTempIndication
    <2>1. zone' \in Zones
      BY <1>2 DEF ProcessTempIndication, LedZone, Zones
    <2>2. font' \in [Sites -> Colors]
      <3>1. ASSUME NEW s \in Sites PROVE FontColor(s) \in Colors
        <4>1. temp[s] \in Int /\ RED_C[s] \in Int /\ YELLOW_C[s] \in Int
          BY DongleAssumption, HistoryAssumption DEF Reported
        <4>2. \/ temp[s] > RED_C[s]
              \/ temp[s] <= RED_C[s] /\ temp[s] > YELLOW_C[s]
              \/ temp[s] <= YELLOW_C[s]
          BY <4>1
        <4>3. FontColor(s) \in {"red", "yellow", "blue", "darkgreen"}
          BY <4>2 DEF FontColor
        <4>. QED  BY <4>3 DEF Colors
      <3>. QED  BY <1>2, <3>1 DEF ProcessTempIndication
    <2>. QED  BY <1>2, <2>1, <2>2 DEF ProcessTempIndication, Calls
  <1>3. CASE ProcessButton
    <2>1. UNCHANGED readingVars /\ UNCHANGED ledVars /\ UNCHANGED screenVars
      BY <1>3 DEF ProcessButton
    <2>2. ASSUME NEW on \in BOOLEAN, Toggle(on) PROVE DongleTypeOK'
      <3>1. tftActive' \in BOOLEAN /\ ledStatus' \in BOOLEAN
        BY <2>2 DEF Toggle
      <3>2. pressed' \in BOOLEAN /\ upSinceToggle' \in BOOLEAN /\ pc' \in Calls
        BY <2>2 DEF Toggle, Calls
      <3>3. UNCHANGED <<millis, age, drawnAgo>> /\ lastPressedMs' = millis /\ sinceToggle' = 0
        BY <2>2 DEF Toggle
      <3>. QED  BY <2>1, <3>1, <3>2, <3>3
    <2>3. CASE pc' = "updateLed" /\ UNCHANGED <<clockVars, buttonVars>>
      BY <2>1, <2>3 DEF Calls
    <2>. QED  BY <1>3, <2>2, <2>3 DEF ProcessButton
  <1>4. CASE Hold
    <2>1. Elapse(POLL_MS, {}) \/ Elapse(DEBOUNCE_MS, {})
      BY <1>4 DEF Hold
    <2>2. /\ millis' \in Millis /\ sinceToggle' \in Nat /\ drawnAgo' \in Nat
          /\ age' \in [Sites -> Nat]
      BY <2>1, ElapseTyped, TimesTyped
    <2>. QED  BY <1>4, <2>2 DEF Hold, Calls
  <1>5. CASE UpdateLed
    BY <1>5 DEF UpdateLed, Calls
  <1>6. CASE UpdateScreen
    BY <1>6 DEF UpdateScreen, Calls
  <1>7. CASE ProcessReceiver
    <2>0. PICK wait \in 0..RX_WAIT_MS :
            \/ UNCHANGED readingVars /\ Elapse(wait, {})
            \/ \E s \in Sites, t \in Temps : Store(s, t, After(millis, wait)) /\ Elapse(wait, {s})
      BY <1>7 DEF ProcessReceiver
    <2>1. wait \in Nat /\ wait < MILLIS_RANGE
      BY TimesTyped
    <2>2. CASE UNCHANGED readingVars /\ Elapse(wait, {})
      <3>1. /\ millis' \in Millis /\ sinceToggle' \in Nat /\ drawnAgo' \in Nat
            /\ age' \in [Sites -> Nat]
        BY <2>1, <2>2, ElapseTyped
      <3>2. /\ UNCHANGED readingVars /\ UNCHANGED ledVars /\ UNCHANGED buttonVars
            /\ UNCHANGED screenVars /\ pc' \in Calls
        BY <1>7, <2>2 DEF ProcessReceiver, Calls
      <3>. QED  BY <3>1, <3>2
    <2>3. ASSUME NEW s \in Sites, NEW t \in Temps,
                 Store(s, t, After(millis, wait)), Elapse(wait, {s})
          PROVE  DongleTypeOK'
      <3>1. /\ millis' \in Millis /\ sinceToggle' \in Nat /\ drawnAgo' \in Nat
            /\ age' \in [Sites -> Nat]
        BY <2>1, <2>3, ElapseTyped
      <3>2. temp' \in [Sites -> Reported]
        BY <2>3, ReportedTyped DEF Store
      <3>3. lastRcvd' \in [Sites -> Millis]
        <4>1. After(millis, wait) \in Millis
          BY <2>1, AfterTyped
        <4>. QED  BY <2>3, <4>1 DEF Store
      <3>4. ASSUME NEW r \in Sites
            PROVE  history'[r] \in Seq(Reported) /\ Len(history'[r]) = HISTORY_SIZE
        <4>1. history'[r] = history[r] \/ history'[r] = AddToHistory(history[r], t)
          BY <2>3 DEF Store
        <4>2. t \in Reported /\ history[r] \in Seq(Reported) /\ Len(history[r]) = HISTORY_SIZE
          BY ReportedTyped
        <4>3. AddToHistory(history[r], t) \in Seq(Reported)
              /\ Len(AddToHistory(history[r], t)) = HISTORY_SIZE
          BY <4>2, HistoryTyped
        <4>. QED  BY <4>1, <4>2, <4>3
      <3>5. UNCHANGED ledVars /\ UNCHANGED buttonVars /\ UNCHANGED screenVars /\ pc' \in Calls
        BY <1>7 DEF ProcessReceiver, Calls
      <3>. QED  BY <3>1, <3>2, <3>3, <3>4, <3>5
    <2>. QED  BY <2>0, <2>2, <2>3
  <1>8. CASE Delay
    <2>1. PICK cpu \in 0..CPU_MS : Elapse(DELAY_MS + cpu, {})
      BY <1>8 DEF Delay
    <2>2. DELAY_MS + cpu \in Nat /\ DELAY_MS + cpu < MILLIS_RANGE
      BY TimesTyped
    <2>3. /\ millis' \in Millis /\ sinceToggle' \in Nat /\ drawnAgo' \in Nat
          /\ age' \in [Sites -> Nat]
      BY <2>1, <2>2, ElapseTyped
    <2>. QED  BY <1>8, <2>3 DEF Delay, Calls
  <1>9. CASE PressOrRelease
    BY <1>9 DEF PressOrRelease
  <1>10. CASE UNCHANGED dongleVars
    BY <1>10 DEF dongleVars
  <1>. QED
    BY <1>1, <1>2, <1>3, <1>4, <1>5, <1>6, <1>7, <1>8, <1>9, <1>10 DEF Next, MainLoop

\* Types: the clocks stay within the width of an unsigned long and the
\* histories keep their length.
THEOREM DongleTypeCorrect == Spec => []DongleTypeOK
  BY TypeInit, TypeStep, PTL DEF Spec
-----------------------------------------------------------------------------
(* Time.                                                                   *)

\* While a time passes that no timer overflows in, the clocks go on agreeing.
LEMMA ElapseAgrees ==
  ASSUME DongleTypeOK, ClocksAgree, NEW t \in Nat, t < MILLIS_RANGE,
         NEW new \in SUBSET Sites, Elapse(t, new),
         \A s \in Sites \ new : temp'[s] # NO_TEMP =>
            /\ temp[s] # NO_TEMP /\ lastRcvd'[s] = lastRcvd[s]
            /\ age[s] + t < MILLIS_RANGE,
         \A s \in new : lastRcvd'[s] = After(millis, t),
         UNCHANGED <<lastPressedMs, lastScreenUpdatedMs>>,
         drawnAgo + t < MILLIS_RANGE,
         tftActive' \/ pc' = "hold" =>
            /\ tftActive \/ pc = "hold"
            /\ sinceToggle + t <= TFT_OFF_MS + ITER_MAX
  PROVE  /\ ClocksAgree'
         /\ tftActive' \/ pc' = "hold" => sinceToggle' = sinceToggle + t
         /\ \A s \in Sites : temp'[s] # NO_TEMP =>
              age'[s] = IF s \in new THEN 0 ELSE age[s] + t
         /\ drawnAgo' = drawnAgo + t
  <1>1. /\ millis \in Millis /\ After(millis, t) \in Millis /\ millis' = After(millis, t)
        /\ lastPressedMs \in Millis /\ lastScreenUpdatedMs \in Millis
        /\ \A s \in Sites : lastRcvd[s] \in Millis /\ age[s] \in Nat
        /\ sinceToggle \in Nat /\ drawnAgo \in Nat
    BY AfterTyped DEF DongleTypeOK, Elapse
  <1>2. /\ drawnAgo' = drawnAgo + t
        /\ sinceToggle + t <= TFT_OFF_MS + ITER_MAX => sinceToggle' = sinceToggle + t
        /\ \A s \in Sites : temp'[s] # NO_TEMP =>
              age'[s] = IF s \in new THEN 0 ELSE age[s] + t
    BY <1>1, TimesTyped DEF Elapse, Capped
  <1>3. Since(millis', lastScreenUpdatedMs') = drawnAgo'
    BY <1>1, <1>2, SinceAfter DEF ClocksAgree
  <1>4. ASSUME tftActive' \/ pc' = "hold"
        PROVE  Since(millis', lastPressedMs') = sinceToggle' /\ sinceToggle' = sinceToggle + t
    <2>1. Since(millis, lastPressedMs) = sinceToggle /\ sinceToggle + t < MILLIS_RANGE
      BY <1>1, <1>4, TimesTyped DEF ClocksAgree
    <2>. QED  BY <1>1, <1>2, <1>4, <2>1, SinceAfter
  <1>5. ASSUME NEW s \in Sites, temp'[s] # NO_TEMP
        PROVE  Since(millis', lastRcvd'[s]) = age'[s]
    <2>1. CASE s \in new
      BY <2>1, <1>1, <1>2, <1>5, SinceTyped
    <2>2. CASE s \notin new
      <3>1. Since(millis, lastRcvd[s]) = age[s] /\ age[s] + t < MILLIS_RANGE
        BY <2>2, <1>5 DEF ClocksAgree
      <3>. QED  BY <2>2, <3>1, <1>1, <1>2, <1>5, SinceAfter
    <2>. QED  BY <2>1, <2>2
  <1>. QED  BY <1>2, <1>3, <1>4, <1>5 DEF ClocksAgree

\* The steps that take no time and set no timer.
LEMMA ClocksKept ==
  ASSUME ClocksAgree,
         UNCHANGED <<millis, lastRcvd, lastPressedMs, lastScreenUpdatedMs,
                     sinceToggle, age, drawnAgo, temp, tftActive>>,
         pc' # "hold"
  PROVE  ClocksAgree'
  BY DEF ClocksAgree

TimeInv == ClocksAgree /\ WithinLimits

\* Before ProcessButton: nothing is drawn or toggled, what is too old goes.
LEMMA TimeUpdateTemp ==
  ASSUME DongleTypeOK, TimeInv, UpdateTemp
  PROVE  TimeInv'
  <1>1. /\ pc = "updateTemp" /\ pc' = "processTempIndication" /\ Elapse(0, {})
        /\ UNCHANGED <<lastRcvd, tftActive, lastPressedMs, lastScreenUpdatedMs, screen, shownAge>>
        /\ \A s \in Sites : temp'[s] = IF Since(millis, lastRcvd[s]) > TEMP_LIFE_TIME_MS
                                       THEN NO_TEMP ELSE temp[s]
    BY DEF UpdateTemp, buttonVars, screenVars
  <1>2. /\ AgeLimit = TEMP_LIFE_TIME_MS + ITER_MAX /\ AgeLimit' = TEMP_LIFE_TIME_MS + 0
        /\ ActiveLimit = TFT_OFF_MS + ITER_MAX /\ ActiveLimit' = ActiveLimit
        /\ DrawnLimit = SCREEN_MS + (RX_WAIT_MS + DELAY_MS + CPU_MS) /\ DrawnLimit' = DrawnLimit
    BY <1>1 DEF AgeLimit, ActiveLimit, DrawnLimit
  <1>3. \A s \in Sites : age[s] \in Nat
    BY DEF DongleTypeOK
  <1>4. drawnAgo \in Nat /\ sinceToggle \in Nat
    BY DEF DongleTypeOK
  <1>5. /\ ClocksAgree'
        /\ tftActive' => sinceToggle' = sinceToggle + 0
        /\ \A s \in Sites : temp'[s] # NO_TEMP => age'[s] = age[s] + 0
        /\ drawnAgo' = drawnAgo + 0
    <2>1. \A s \in Sites : temp'[s] # NO_TEMP => temp[s] # NO_TEMP /\ age[s] + 0 < MILLIS_RANGE
      BY <1>1, <1>2, <1>3, TimesTyped DEF TimeInv, WithinLimits
    <2>2. drawnAgo + 0 < MILLIS_RANGE
      BY <1>2, <1>4, TimesTyped DEF TimeInv, WithinLimits
    <2>3. tftActive' \/ pc' = "hold" => tftActive /\ sinceToggle + 0 <= TFT_OFF_MS + ITER_MAX
      BY <1>1, <1>2, <1>4, TimesTyped DEF TimeInv, WithinLimits
    <2>. QED  BY <2>1, <2>2, <2>3, <1>1, ElapseAgrees, TimesTyped DEF TimeInv
  <1>6. ASSUME NEW s \in Sites, temp'[s] # NO_TEMP
        PROVE  age'[s] <= AgeLimit'
    <2>1. Since(millis, lastRcvd[s]) = age[s] /\ ~(Since(millis, lastRcvd[s]) > TEMP_LIFE_TIME_MS)
      BY <1>1, <1>6 DEF TimeInv, ClocksAgree
    <2>. QED  BY <2>1, <1>2, <1>3, <1>5, <1>6, TimesTyped
  <1>7. drawnAgo' <= DrawnLimit' /\ (tftActive' => sinceToggle' <= ActiveLimit')
    BY <1>1, <1>2, <1>4, <1>5 DEF TimeInv, WithinLimits
  <1>. QED  BY <1>1, <1>5, <1>6, <1>7 DEF TimeInv, WithinLimits

LEMMA TimeIndication ==
  ASSUME DongleTypeOK, TimeInv, ProcessTempIndication
  PROVE  TimeInv'
  <1>1. /\ pc = "processTempIndication" /\ pc' = "processButton"
        /\ UNCHANGED <<millis, lastRcvd, lastPressedMs, lastScreenUpdatedMs,
                       sinceToggle, age, drawnAgo, temp, tftActive, screen, shownAge>>
    BY DEF ProcessTempIndication, clockVars, readingVars, buttonVars, screenVars
  <1>2. /\ AgeLimit' = AgeLimit /\ ActiveLimit' = ActiveLimit /\ DrawnLimit' = DrawnLimit
    BY <1>1 DEF AgeLimit, ActiveLimit, DrawnLimit
  <1>. QED  BY <1>1, <1>2, ClocksKept DEF TimeInv, WithinLimits

LEMMA TimeButton ==
  ASSUME DongleTypeOK, TimeInv, ProcessButton
  PROVE  TimeInv'
  <1>1. /\ pc = "processButton"
        /\ UNCHANGED <<lastRcvd, lastScreenUpdatedMs, temp, screen, shownAge>>
    BY DEF ProcessButton, readingVars, screenVars
  <1>2. /\ AgeLimit = TEMP_LIFE_TIME_MS + 0 /\ ActiveLimit = TFT_OFF_MS + ITER_MAX
        /\ DrawnLimit = SCREEN_MS + (RX_WAIT_MS + DELAY_MS + CPU_MS)
    BY <1>1 DEF AgeLimit, ActiveLimit, DrawnLimit
  <1>3. /\ \A s \in Sites : age[s] \in Nat
        /\ drawnAgo \in Nat /\ sinceToggle \in Nat /\ millis \in Millis
    BY DEF DongleTypeOK
  <1>4. ASSUME NEW on \in BOOLEAN, Toggle(on)
        PROVE  TimeInv'
    <2>1. /\ pc' = "hold" /\ sinceToggle' = 0 /\ lastPressedMs' = millis
          /\ UNCHANGED <<millis, age, drawnAgo>>
      BY <1>4 DEF Toggle
    <2>2. /\ AgeLimit' = TEMP_LIFE_TIME_MS + 0 /\ ActiveLimit' = TFT_OFF_MS + BUTTON_MAX
          /\ DrawnLimit' = SCREEN_MS + (RX_WAIT_MS + DELAY_MS + CPU_MS + 0)
      BY <2>1 DEF AgeLimit, ActiveLimit, DrawnLimit, HoldSoFar
    <2>3. ClocksAgree'
      BY <1>1, <1>3, <2>1, SinceTyped DEF TimeInv, ClocksAgree
    <2>4. WithinLimits'
      BY <1>1, <1>2, <1>3, <2>1, <2>2, TimesTyped DEF TimeInv, WithinLimits
    <2>. QED  BY <2>3, <2>4 DEF TimeInv
  <1>5. ASSUME tftActive => Since(millis, lastPressedMs) <= TFT_OFF_MS,
               pc' = "updateLed", UNCHANGED <<clockVars, buttonVars>>
        PROVE  TimeInv'
    <2>1. UNCHANGED <<millis, age, drawnAgo, sinceToggle, tftActive, lastPressedMs>>
      BY <1>5 DEF clockVars, buttonVars
    <2>2. /\ AgeLimit' = TEMP_LIFE_TIME_MS + BUTTON_MAX /\ ActiveLimit' = TFT_OFF_MS + BUTTON_MAX
          /\ DrawnLimit' = SCREEN_MS + (RX_WAIT_MS + DELAY_MS + CPU_MS + BUTTON_MAX)
      BY <1>5 DEF AgeLimit, ActiveLimit, DrawnLimit, HoldSoFar
    <2>3. ClocksAgree'
      BY <1>1, <1>5, <2>1, ClocksKept DEF TimeInv
    <2>4. tftActive => sinceToggle <= TFT_OFF_MS
      BY <1>5 DEF TimeInv, ClocksAgree
    <2>5. WithinLimits'
      BY <1>1, <1>2, <1>3, <1>5, <2>1, <2>2, <2>4, TimesTyped DEF TimeInv, WithinLimits
    <2>. QED  BY <2>3, <2>5 DEF TimeInv
  <1>. QED  BY <1>4, <1>5 DEF ProcessButton

LEMMA TimeHold ==
  ASSUME DongleTypeOK, TimeInv, Hold
  PROVE  TimeInv'
  <1>1. /\ pc = "hold" /\ pc' \in {"hold", "updateLed"}
        /\ UNCHANGED <<temp, lastRcvd, tftActive, lastPressedMs, lastScreenUpdatedMs, screen, shownAge>>
    BY DEF Hold, readingVars, buttonVars, screenVars
  <1>2. /\ AgeLimit = TEMP_LIFE_TIME_MS + sinceToggle /\ ActiveLimit = TFT_OFF_MS + BUTTON_MAX
        /\ DrawnLimit = SCREEN_MS + (RX_WAIT_MS + DELAY_MS + CPU_MS + sinceToggle)
    BY <1>1 DEF AgeLimit, ActiveLimit, DrawnLimit, HoldSoFar
  <1>3. /\ \A s \in Sites : age[s] \in Nat
        /\ drawnAgo \in Nat /\ sinceToggle \in Nat
    BY DEF DongleTypeOK
  <1>4. /\ sinceToggle < HOLD_MS + POLL_MS /\ Since(millis, lastPressedMs) = sinceToggle
        /\ \A s \in Sites : temp[s] # NO_TEMP => age[s] <= TEMP_LIFE_TIME_MS + sinceToggle
        /\ drawnAgo <= SCREEN_MS + (RX_WAIT_MS + DELAY_MS + CPU_MS + sinceToggle)
    BY <1>1, <1>2 DEF TimeInv, WithinLimits, ClocksAgree
  <1>5. ASSUME NEW t \in Nat, Elapse(t, {}), sinceToggle + t <= BUTTON_MAX
        PROVE  /\ ClocksAgree'
               /\ tftActive' \/ pc' = "hold" => sinceToggle' = sinceToggle + t
               /\ \A s \in Sites : temp'[s] # NO_TEMP => age'[s] = age[s] + t
               /\ drawnAgo' = drawnAgo + t
    <2>1. \A s \in Sites : temp'[s] # NO_TEMP => temp[s] # NO_TEMP /\ age[s] + t < MILLIS_RANGE
      BY <1>1, <1>3, <1>4, <1>5, TimesTyped
    <2>2. drawnAgo + t < MILLIS_RANGE /\ t < MILLIS_RANGE
      BY <1>3, <1>4, <1>5, TimesTyped
    <2>3. sinceToggle + t <= TFT_OFF_MS + ITER_MAX
      BY <1>3, <1>5, TimesTyped
    <2>. QED  BY <1>1, <1>5, <2>1, <2>2, <2>3, ElapseAgrees DEF TimeInv
  <1>6. CASE pc' = "hold" /\ sinceToggle < HOLD_MS /\ Elapse(POLL_MS, {})
    <2>1. /\ ClocksAgree' /\ sinceToggle' = sinceToggle + POLL_MS
          /\ \A s \in Sites : temp'[s] # NO_TEMP => age'[s] = age[s] + POLL_MS
          /\ drawnAgo' = drawnAgo + POLL_MS
      BY <1>3, <1>5, <1>6, TimesTyped
    <2>2. /\ AgeLimit' = TEMP_LIFE_TIME_MS + sinceToggle' /\ ActiveLimit' = TFT_OFF_MS + BUTTON_MAX
          /\ DrawnLimit' = SCREEN_MS + (RX_WAIT_MS + DELAY_MS + CPU_MS + sinceToggle')
      BY <1>6 DEF AgeLimit, ActiveLimit, DrawnLimit, HoldSoFar
    <2>3. WithinLimits'
      BY <1>1, <1>3, <1>4, <1>6, <2>1, <2>2, TimesTyped DEF TimeInv, WithinLimits
    <2>. QED  BY <2>1, <2>3 DEF TimeInv
  <1>7. CASE pc' = "updateLed" /\ Elapse(DEBOUNCE_MS, {})
    <2>1. /\ ClocksAgree'
          /\ tftActive' => sinceToggle' = sinceToggle + DEBOUNCE_MS
          /\ \A s \in Sites : temp'[s] # NO_TEMP => age'[s] = age[s] + DEBOUNCE_MS
          /\ drawnAgo' = drawnAgo + DEBOUNCE_MS
      BY <1>3, <1>4, <1>5, <1>7, TimesTyped
    <2>2. /\ AgeLimit' = TEMP_LIFE_TIME_MS + BUTTON_MAX /\ ActiveLimit' = TFT_OFF_MS + BUTTON_MAX
          /\ DrawnLimit' = SCREEN_MS + (RX_WAIT_MS + DELAY_MS + CPU_MS + BUTTON_MAX)
      BY <1>7 DEF AgeLimit, ActiveLimit, DrawnLimit, HoldSoFar
    <2>3. WithinLimits'
      BY <1>1, <1>3, <1>4, <1>7, <2>1, <2>2, TimesTyped DEF TimeInv, WithinLimits
    <2>. QED  BY <2>1, <2>3 DEF TimeInv
  <1>. QED  BY <1>1, <1>4, <1>6, <1>7 DEF Hold

LEMMA TimeLed ==
  ASSUME DongleTypeOK, TimeInv, UpdateLed
  PROVE  TimeInv'
  <1>1. /\ pc = "updateLed" /\ pc' = "updateScreen"
        /\ UNCHANGED <<millis, lastRcvd, lastPressedMs, lastScreenUpdatedMs,
                       sinceToggle, age, drawnAgo, temp, tftActive, screen, shownAge>>
    BY DEF UpdateLed, clockVars, readingVars, buttonVars, screenVars
  <1>2. /\ AgeLimit' = AgeLimit /\ ActiveLimit' = ActiveLimit /\ DrawnLimit' = DrawnLimit
    BY <1>1 DEF AgeLimit, ActiveLimit, DrawnLimit, HoldSoFar
  <1>. QED  BY <1>1, <1>2, ClocksKept DEF TimeInv, WithinLimits

LEMMA TimeScreen ==
  ASSUME DongleTypeOK, TimeInv, UpdateScreen
  PROVE  TimeInv'
  <1>1. /\ pc = "updateScreen" /\ pc' = "processReceiver"
        /\ UNCHANGED <<millis, lastRcvd, lastPressedMs, sinceToggle, age, temp, tftActive>>
    BY DEF UpdateScreen, readingVars, buttonVars
  <1>2. /\ AgeLimit = TEMP_LIFE_TIME_MS + BUTTON_MAX /\ AgeLimit' = AgeLimit
        /\ ActiveLimit' = ActiveLimit /\ DrawnLimit' = SCREEN_MS + 0
    BY <1>1 DEF AgeLimit, ActiveLimit, DrawnLimit, HoldSoFar
  <1>3. /\ millis \in Millis /\ lastScreenUpdatedMs \in Millis /\ drawnAgo \in Nat
    BY DEF DongleTypeOK
  <1>4. CASE Since(millis, lastScreenUpdatedMs) < SCREEN_MS /\ UNCHANGED <<screenVars, drawnAgo>>
    <2>1. UNCHANGED <<lastScreenUpdatedMs, screen, shownAge, drawnAgo>> /\ drawnAgo < SCREEN_MS
      BY <1>4 DEF screenVars, TimeInv, ClocksAgree
    <2>2. ClocksAgree'
      BY <1>1, <2>1, ClocksKept DEF TimeInv
    <2>3. WithinLimits'
      BY <1>1, <1>2, <1>3, <2>1, TimesTyped DEF TimeInv, WithinLimits
    <2>. QED  BY <2>2, <2>3 DEF TimeInv
  <1>5. CASE /\ lastScreenUpdatedMs' = millis /\ drawnAgo' = 0 /\ shownAge' = age
             /\ \A s \in Sites : screen'[s].temp = temp[s]
    <2>1. ClocksAgree'
      BY <1>1, <1>3, <1>5, SinceTyped DEF TimeInv, ClocksAgree
    <2>2. WithinLimits'
      BY <1>1, <1>2, <1>5, TimesTyped DEF TimeInv, WithinLimits
    <2>. QED  BY <2>1, <2>2 DEF TimeInv
  <1>. QED  BY <1>4, <1>5 DEF UpdateScreen

LEMMA TimeReceiver ==
  ASSUME DongleTypeOK, TimeInv, ProcessReceiver
  PROVE  TimeInv'
  <1>1. /\ pc = "processReceiver" /\ pc' = "delay"
        /\ UNCHANGED <<tftActive, lastPressedMs, lastScreenUpdatedMs, screen, shownAge>>
    BY DEF ProcessReceiver, buttonVars, screenVars
  <1>2. /\ AgeLimit = TEMP_LIFE_TIME_MS + BUTTON_MAX
        /\ AgeLimit' = TEMP_LIFE_TIME_MS + (BUTTON_MAX + RX_WAIT_MS)
        /\ ActiveLimit = TFT_OFF_MS + BUTTON_MAX
        /\ ActiveLimit' = TFT_OFF_MS + (BUTTON_MAX + RX_WAIT_MS)
        /\ DrawnLimit = SCREEN_MS + 0 /\ DrawnLimit' = SCREEN_MS + RX_WAIT_MS
    BY <1>1 DEF AgeLimit, ActiveLimit, DrawnLimit, HoldSoFar
  <1>3. /\ \A s \in Sites : age[s] \in Nat
        /\ drawnAgo \in Nat /\ sinceToggle \in Nat
    BY DEF DongleTypeOK
  <1>4. PICK wait \in 0..RX_WAIT_MS :
          \/ UNCHANGED readingVars /\ Elapse(wait, {})
          \/ \E s \in Sites, t \in Temps : Store(s, t, After(millis, wait)) /\ Elapse(wait, {s})
    BY DEF ProcessReceiver
  <1>5. wait \in Nat /\ wait <= RX_WAIT_MS
    BY TimesTyped
  <1>6. PICK new \in SUBSET Sites :
          /\ Elapse(wait, new)
          /\ \A s \in Sites \ new : temp'[s] = temp[s] /\ lastRcvd'[s] = lastRcvd[s]
          /\ \A s \in new : lastRcvd'[s] = After(millis, wait)
    <2>1. CASE UNCHANGED readingVars /\ Elapse(wait, {})
      BY <2>1 DEF readingVars
    <2>2. ASSUME NEW s \in Sites, NEW t \in Temps,
                 Store(s, t, After(millis, wait)), Elapse(wait, {s})
          PROVE  \E new \in SUBSET Sites :
                   /\ Elapse(wait, new)
                   /\ \A r \in Sites \ new : temp'[r] = temp[r] /\ lastRcvd'[r] = lastRcvd[r]
                   /\ \A r \in new : lastRcvd'[r] = After(millis, wait)
      <3>1. /\ \A r \in Sites \ {s} : temp'[r] = temp[r] /\ lastRcvd'[r] = lastRcvd[r]
            /\ lastRcvd'[s] = After(millis, wait)
        BY <2>2 DEF Store, DongleTypeOK
      <3>. QED  BY <2>2, <3>1
    <2>. QED  BY <1>4, <2>1, <2>2
  <1>7. /\ \A s \in Sites \ new : temp'[s] # NO_TEMP =>
             temp[s] # NO_TEMP /\ lastRcvd'[s] = lastRcvd[s] /\ age[s] + wait < MILLIS_RANGE
        /\ drawnAgo + wait < MILLIS_RANGE /\ wait < MILLIS_RANGE
        /\ tftActive' \/ pc' = "hold" =>
             (tftActive \/ pc = "hold") /\ sinceToggle + wait <= TFT_OFF_MS + ITER_MAX
    BY <1>1, <1>2, <1>3, <1>5, <1>6, TimesTyped DEF TimeInv, WithinLimits
  <1>8. /\ ClocksAgree'
        /\ tftActive' => sinceToggle' = sinceToggle + wait
        /\ \A s \in Sites : temp'[s] # NO_TEMP => age'[s] = IF s \in new THEN 0 ELSE age[s] + wait
        /\ drawnAgo' = drawnAgo + wait
    BY <1>1, <1>5, <1>6, <1>7, ElapseAgrees DEF TimeInv
  <1>9. ASSUME NEW s \in Sites, temp'[s] # NO_TEMP
        PROVE  age'[s] <= AgeLimit'
    BY <1>2, <1>3, <1>5, <1>6, <1>7, <1>8, <1>9, TimesTyped DEF TimeInv, WithinLimits
  <1>10. drawnAgo' <= DrawnLimit' /\ (tftActive' => sinceToggle' <= ActiveLimit')
    BY <1>1, <1>2, <1>3, <1>5, <1>8, TimesTyped DEF TimeInv, WithinLimits
  <1>. QED  BY <1>1, <1>8, <1>9, <1>10 DEF TimeInv, WithinLimits

LEMMA TimeDelay ==
  ASSUME DongleTypeOK, TimeInv, Delay
  PROVE  TimeInv'
  <1>1. /\ pc = "delay" /\ pc' = "updateTemp"
        /\ UNCHANGED <<temp, lastRcvd, tftActive, lastPressedMs, lastScreenUpdatedMs, screen, shownAge>>
    BY DEF Delay, readingVars, buttonVars, screenVars
  <1>2. /\ AgeLimit = TEMP_LIFE_TIME_MS + (BUTTON_MAX + RX_WAIT_MS)
        /\ AgeLimit' = TEMP_LIFE_TIME_MS + ITER_MAX
        /\ ActiveLimit = TFT_OFF_MS + (BUTTON_MAX + RX_WAIT_MS)
        /\ ActiveLimit' = TFT_OFF_MS + ITER_MAX
        /\ DrawnLimit = SCREEN_MS + RX_WAIT_MS
        /\ DrawnLimit' = SCREEN_MS + (RX_WAIT_MS + DELAY_MS + CPU_MS)
    BY <1>1 DEF AgeLimit, ActiveLimit, DrawnLimit
  <1>3. /\ \A s \in Sites : age[s] \in Nat
        /\ drawnAgo \in Nat /\ sinceToggle \in Nat
    BY DEF DongleTypeOK
  <1>4. PICK cpu \in 0..CPU_MS : Elapse(DELAY_MS + cpu, {})
    BY DEF Delay
  <1> DEFINE t == DELAY_MS + cpu
  <1>5. t \in Nat /\ t <= DELAY_MS + CPU_MS /\ Elapse(t, {})
    BY <1>4, TimesTyped
  <1> HIDE DEF t
  <1>6. /\ \A s \in Sites : temp'[s] # NO_TEMP =>
             temp[s] # NO_TEMP /\ lastRcvd'[s] = lastRcvd[s] /\ age[s] + t < MILLIS_RANGE
        /\ drawnAgo + t < MILLIS_RANGE /\ t < MILLIS_RANGE
        /\ tftActive' \/ pc' = "hold" =>
             (tftActive \/ pc = "hold") /\ sinceToggle + t <= TFT_OFF_MS + ITER_MAX
    BY <1>1, <1>2, <1>3, <1>5, TimesTyped DEF TimeInv, WithinLimits
  <1>7. /\ ClocksAgree'
        /\ tftActive' => sinceToggle' = sinceToggle + t
        /\ \A s \in Sites : temp'[s] # NO_TEMP => age'[s] = age[s] + t
        /\ drawnAgo' = drawnAgo + t
    BY <1>1, <1>5, <1>6, ElapseAgrees DEF TimeInv
  <1>8. ASSUME NEW s \in Sites, temp'[s] # NO_TEMP
        PROVE  age'[s] <= AgeLimit'
    BY <1>2, <1>3, <1>5, <1>6, <1>7, <1>8, TimesTyped DEF TimeInv, WithinLimits
  <1>9. drawnAgo' <= DrawnLimit' /\ (tftActive' => sinceToggle' <= ActiveLimit')
    BY <1>1, <1>2, <1>3, <1>5, <1>7, TimesTyped DEF TimeInv, WithinLimits
  <1>. QED  BY <1>1, <1>7, <1>8, <1>9 DEF TimeInv, WithinLimits

LEMMA TimeInit == Init => TimeInv
  <1> SUFFICES ASSUME Init PROVE TimeInv
    OBVIOUS
  <1>1. /\ pc = "updateTemp" /\ millis = 0 /\ lastPressedMs = 0 /\ lastScreenUpdatedMs = 0
        /\ sinceToggle = 0 /\ drawnAgo = 0
        /\ \A s \in Sites : temp[s] = NO_TEMP /\ screen[s].temp = NO_TEMP
    BY DEF Init
  <1>2. ActiveLimit = TFT_OFF_MS + ITER_MAX
        /\ DrawnLimit = SCREEN_MS + (RX_WAIT_MS + DELAY_MS + CPU_MS)
    BY <1>1 DEF ActiveLimit, DrawnLimit
  <1>3. ClocksAgree
    BY <1>1 DEF ClocksAgree, Since
  <1>4. WithinLimits
    BY <1>1, <1>2, TimesTyped DEF WithinLimits
  <1>. QED  BY <1>3, <1>4 DEF TimeInv

LEMMA TimeStep == DongleTypeOK /\ TimeInv /\ [Next]_dongleVars => TimeInv'
  <1> SUFFICES ASSUME DongleTypeOK, TimeInv, [Next]_dongleVars PROVE TimeInv'
    OBVIOUS
  <1>1. CASE PressOrRelease \/ UNCHANGED dongleVars
    <2>1. UNCHANGED <<pc, millis, temp, lastRcvd, tftActive, lastPressedMs, sinceToggle, age,
                      drawnAgo, lastScreenUpdatedMs, screen, shownAge>>
      BY <1>1 DEF PressOrRelease, dongleVars, clockVars, readingVars, buttonVars, screenVars
    <2>2. ClocksAgree'
      BY <2>1 DEF TimeInv, ClocksAgree
    <2>3. AgeLimit' = AgeLimit /\ ActiveLimit' = ActiveLimit /\ DrawnLimit' = DrawnLimit
      BY <2>1 DEF AgeLimit, ActiveLimit, DrawnLimit, HoldSoFar
    <2>4. WithinLimits'
      BY <2>1, <2>3 DEF TimeInv, WithinLimits
    <2>. QED  BY <2>2, <2>4 DEF TimeInv
  <1>. QED
    BY <1>1, TimeUpdateTemp, TimeIndication, TimeButton, TimeHold, TimeLed, TimeScreen,
       TimeReceiver, TimeDelay DEF Next, MainLoop

LEMMA TimeInvariant == Spec => [](DongleTypeOK /\ TimeInv)
  BY TypeInit, TypeStep, TimeInit, TimeStep, PTL DEF Spec

\* No reading outlives TEMP_LIFE_TIME_MS by more than one iteration, and the
\* wrap of millis() never revives one.
THEOREM ReadingsStayFresh == Spec => []ReadingIsFresh
  <1>1. DongleTypeOK /\ TimeInv => ReadingIsFresh
    <2> SUFFICES ASSUME DongleTypeOK, TimeInv, NEW s \in Sites, temp[s] # NO_TEMP
                 PROVE  age[s] <= TEMP_LIFE_TIME_MS + ITER_MAX
      BY DEF ReadingIsFresh
    <2>1. pc \in Calls /\ age[s] \in Nat /\ sinceToggle \in Nat
      BY DEF DongleTypeOK
    <2>2. age[s] <= AgeLimit /\ (pc = "hold" => sinceToggle < HOLD_MS + POLL_MS)
      BY DEF TimeInv, WithinLimits
    <2>3. CASE pc = "hold"
      BY <2>1, <2>2, <2>3, TimesTyped DEF AgeLimit, HoldSoFar
    <2>4. CASE pc = "updateTemp"
      BY <2>1, <2>2, <2>4, TimesTyped DEF AgeLimit
    <2>5. CASE pc \in {"processTempIndication", "processButton"}
      BY <2>1, <2>2, <2>5, TimesTyped DEF AgeLimit
    <2>6. CASE pc \in {"updateLed", "updateScreen", "processReceiver"}
      BY <2>1, <2>2, <2>6, TimesTyped DEF AgeLimit, HoldSoFar
    <2>7. CASE pc = "delay"
      BY <2>1, <2>2, <2>7, TimesTyped DEF AgeLimit
    <2>. QED  BY <2>1, <2>3, <2>4, <2>5, <2>6, <2>7 DEF Calls
  <1>. QED  BY <1>1, TimeInvariant, PTL

\* No number stays on the screen longer than the bound of ShownIsFresh.
THEOREM ShownStaysFresh == Spec => []ShownIsFresh
  <1>1. DongleTypeOK /\ TimeInv => ShownIsFresh
    <2> SUFFICES ASSUME DongleTypeOK, TimeInv, NEW s \in Sites, screen[s].temp # NO_TEMP
                 PROVE  shownAge[s] + drawnAgo
                          <= TEMP_LIFE_TIME_MS + BUTTON_MAX + SCREEN_MS + ITER_MAX
      BY DEF ShownIsFresh
    <2>1. pc \in Calls /\ shownAge[s] \in Nat /\ sinceToggle \in Nat /\ drawnAgo \in Nat
      BY DEF DongleTypeOK
    <2>2. /\ shownAge[s] <= TEMP_LIFE_TIME_MS + BUTTON_MAX /\ drawnAgo <= DrawnLimit
          /\ pc = "hold" => sinceToggle < HOLD_MS + POLL_MS
      BY DEF TimeInv, WithinLimits
    <2>3. drawnAgo <= SCREEN_MS + ITER_MAX
      <3>1. CASE pc = "hold"
        BY <2>1, <2>2, <3>1, TimesTyped DEF DrawnLimit, HoldSoFar
      <3>2. CASE pc \in {"updateTemp", "processTempIndication", "processButton"}
        BY <2>1, <2>2, <3>2, TimesTyped DEF DrawnLimit
      <3>3. CASE pc \in {"updateLed", "updateScreen"}
        BY <2>1, <2>2, <3>3, TimesTyped DEF DrawnLimit, HoldSoFar
      <3>4. CASE pc = "processReceiver"
        BY <2>1, <2>2, <3>4, TimesTyped DEF DrawnLimit
      <3>5. CASE pc = "delay"
        BY <2>1, <2>2, <3>5, TimesTyped DEF DrawnLimit
      <3>. QED  BY <2>1, <3>1, <3>2, <3>3, <3>4, <3>5 DEF Calls
    <2>. QED  BY <2>1, <2>2, <2>3, TimesTyped
  <1>. QED  BY <1>1, TimeInvariant, PTL

\* An untouched display is off after TFT_OFF_MS and one iteration.
THEOREM DisplayGoesDark == Spec => []DisplayTurnsOff
  <1>1. DongleTypeOK /\ TimeInv => DisplayTurnsOff
    <2> SUFFICES ASSUME DongleTypeOK, TimeInv, tftActive
                 PROVE  sinceToggle <= TFT_OFF_MS + ITER_MAX
      BY DEF DisplayTurnsOff
    <2>1. pc \in Calls /\ sinceToggle \in Nat /\ sinceToggle <= ActiveLimit
      BY DEF DongleTypeOK, TimeInv, WithinLimits
    <2>2. CASE pc \in {"updateTemp", "processTempIndication", "processButton"}
      BY <2>1, <2>2, TimesTyped DEF ActiveLimit
    <2>3. CASE pc \in {"hold", "updateLed", "updateScreen", "processReceiver"}
      BY <2>1, <2>3, TimesTyped DEF ActiveLimit
    <2>4. CASE pc = "delay"
      BY <2>1, <2>4, TimesTyped DEF ActiveLimit
    <2>. QED  BY <2>1, <2>2, <2>3, <2>4 DEF Calls
  <1>. QED  BY <1>1, TimeInvariant, PTL
-----------------------------------------------------------------------------
(* The alarm and the button.                                               *)

LEMMA ElapseAges ==
  ASSUME DongleTypeOK, NEW t \in Nat, NEW new \in SUBSET Sites, Elapse(t, new)
  PROVE  \A s \in Sites : age'[s] \in Nat /\ age'[s] <= age[s] + t /\ (s \in new => age'[s] = 0)
  BY DEF Elapse, DongleTypeOK

LEMMA AlarmAboveNoTemp == \A s \in Sites : RED_C[s] \in Int /\ RED_C[s] > NO_TEMP
  <1>. SUFFICES ASSUME NEW s \in Sites
                PROVE  RED_C[s] \in Int /\ RED_C[s] > NO_TEMP
    OBVIOUS
  <1>1. RED_C[s] \in Int /\ YELLOW_C[s] \in Int /\ NO_TEMP \in Int
    BY DongleAssumption, HistoryAssumption
  <1>2. RED_C[s] > YELLOW_C[s] /\ YELLOW_C[s] > NO_TEMP
    BY DongleAssumption
  <1>. QED  BY <1>1, <1>2

LEMMA AlarmStep ==
  ASSUME DongleTypeOK, TimeInv, AlarmOnItsWay, [Next]_dongleVars
  PROVE  AlarmOnItsWay'
  <1>0. /\ \A s \in Sites : age[s] \in Nat
        /\ \A s \in Sites : RED_C[s] \in Int /\ RED_C[s] > NO_TEMP
        /\ \A s \in Sites : temp[s] \in Int
        /\ NO_TEMP \in Int /\ sinceToggle \in Nat
    <2>1. \A s \in Sites : age[s] \in Nat
      BY DEF DongleTypeOK
    <2>2. \A s \in Sites : RED_C[s] \in Int /\ RED_C[s] > NO_TEMP
      BY AlarmAboveNoTemp
    <2>3. \A s \in Sites : temp[s] \in Temps \/ temp[s] = NO_TEMP
      BY DEF DongleTypeOK, Reported
    <2>4. \A s \in Sites : temp[s] \in Int
      BY <2>3, DongleAssumption, HistoryAssumption
    <2>5. NO_TEMP \in Int /\ sinceToggle \in Nat
      BY HistoryAssumption DEF DongleTypeOK
    <2>. QED  BY <2>1, <2>2, <2>4, <2>5
  <1>1. CASE PressOrRelease \/ UNCHANGED dongleVars
    <2>1. UNCHANGED <<pc, temp, zone, leds, age, sinceToggle>>
      BY <1>1 DEF PressOrRelease, dongleVars, clockVars, readingVars, ledVars
    <2>2. AlarmLimit' = AlarmLimit
      BY <2>1 DEF AlarmLimit, HoldSoFar
    <2>. QED  BY <2>1, <2>2 DEF AlarmOnItsWay
  <1>2. CASE UpdateTemp
    <2>1. /\ pc = "updateTemp" /\ pc' = "processTempIndication" /\ Elapse(0, {})
          /\ UNCHANGED <<zone, leds>>
          /\ \A s \in Sites : temp'[s] = temp[s] \/ temp'[s] = NO_TEMP
      BY <1>2 DEF UpdateTemp, ledVars, DongleTypeOK
    <2>2. AlarmLimit = DELAY_MS + CPU_MS + 0 /\ AlarmLimit' = AlarmLimit
      BY <2>1 DEF AlarmLimit
    <2>3. \A s \in Sites : age'[s] <= age[s] + 0 /\ age'[s] \in Nat
      BY <2>1, ElapseAges
    <2>4. ASSUME NEW s \in Sites, temp'[s] > RED_C[s]
          PROVE  temp[s] > RED_C[s] /\ age'[s] <= age[s] + 0
      <3>1. temp'[s] # NO_TEMP
        BY <2>4, <1>0
      <3>. QED  BY <2>1, <2>3, <2>4, <3>1
    <2>5. AlarmLimit' = AlarmLimit /\ AlarmLimit \in Nat
      BY <2>2, TimesTyped
    <2>6. ASSUME NEW s \in Sites, temp'[s] > RED_C[s]
          PROVE  leds.zone = "red" \/ age'[s] <= AlarmLimit
      <3>1. leds.zone = "red" \/ age[s] <= AlarmLimit
        BY <2>4, <2>6 DEF AlarmOnItsWay
      <3>2. age'[s] <= age[s]
        BY <2>4, <2>6, <2>3, <1>0
      <3>. QED  BY <3>1, <3>2, <2>3, <2>5, <1>0
    <2>. QED  BY <2>1, <2>5, <2>6 DEF AlarmOnItsWay
  <1>3. CASE ProcessTempIndication
    <2>1. /\ pc = "processTempIndication" /\ pc' = "processButton" /\ zone' = LedZone
          /\ UNCHANGED <<temp, leds, age, sinceToggle>>
      BY <1>3 DEF ProcessTempIndication, clockVars, readingVars
    <2>2. AlarmLimit' = AlarmLimit
      BY <2>1 DEF AlarmLimit
    <2>3. (\E s \in Sites : temp[s] > RED_C[s]) => zone' = "red"
      BY <2>1 DEF LedZone
    <2>. QED  BY <2>1, <2>2, <2>3 DEF AlarmOnItsWay
  <1>4. CASE ProcessButton
    <2>1. /\ pc = "processButton" /\ pc' \in {"hold", "updateLed"}
          /\ UNCHANGED <<temp, zone, leds, age>>
          /\ pc' = "hold" => sinceToggle' = 0
      BY <1>4 DEF ProcessButton, Toggle, clockVars, readingVars, ledVars
    <2>2. /\ AlarmLimit = DELAY_MS + CPU_MS + 0
          /\ pc' = "hold" => AlarmLimit' = DELAY_MS + CPU_MS + 0
          /\ pc' = "updateLed" => AlarmLimit' = DELAY_MS + CPU_MS + BUTTON_MAX
      BY <2>1 DEF AlarmLimit, HoldSoFar
    <2>. QED  BY <1>0, <2>1, <2>2, TimesTyped DEF AlarmOnItsWay
  <1>5. CASE Hold
    <2>1. /\ pc = "hold" /\ UNCHANGED <<temp, zone, leds>>
          /\ Since(millis, lastPressedMs) = sinceToggle /\ sinceToggle < HOLD_MS + POLL_MS
      BY <1>5 DEF Hold, readingVars, ledVars, TimeInv, ClocksAgree, WithinLimits
    <2>2. AlarmLimit = DELAY_MS + CPU_MS + sinceToggle
      BY <2>1 DEF AlarmLimit, HoldSoFar
    <2>3. CASE pc' = "hold" /\ sinceToggle < HOLD_MS /\ Elapse(POLL_MS, {})
      <3>1. sinceToggle' = sinceToggle + POLL_MS
        BY <1>0, <2>3, TimesTyped DEF Elapse, Capped
      <3>2. AlarmLimit' = DELAY_MS + CPU_MS + sinceToggle'
        BY <2>3 DEF AlarmLimit, HoldSoFar
      <3>3. \A s \in Sites : age'[s] <= age[s] + POLL_MS /\ age'[s] \in Nat
        BY <2>3, TimesTyped, ElapseAges
      <3>. QED  BY <1>0, <2>1, <2>2, <2>3, <3>1, <3>2, <3>3, TimesTyped DEF AlarmOnItsWay
    <2>4. CASE pc' = "updateLed" /\ Elapse(DEBOUNCE_MS, {})
      <3>1. AlarmLimit' = DELAY_MS + CPU_MS + BUTTON_MAX
        BY <2>4 DEF AlarmLimit, HoldSoFar
      <3>2. \A s \in Sites : age'[s] <= age[s] + DEBOUNCE_MS /\ age'[s] \in Nat
        BY <2>4, TimesTyped, ElapseAges
      <3>. QED  BY <1>0, <2>1, <2>2, <2>4, <3>1, <3>2, TimesTyped DEF AlarmOnItsWay
    <2>. QED  BY <1>5, <2>1, <2>3, <2>4 DEF Hold
  <1>6. CASE UpdateLed
    <2>1. /\ pc = "updateLed" /\ pc' = "updateScreen" /\ leds'.zone = zone
          /\ UNCHANGED <<temp, zone, age>>
      BY <1>6 DEF UpdateLed, clockVars, readingVars
    <2>. QED  BY <2>1 DEF AlarmOnItsWay
  <1>7. CASE UpdateScreen
    <2>1. /\ pc = "updateScreen" /\ pc' = "processReceiver"
          /\ UNCHANGED <<temp, zone, leds, age>>
      BY <1>7 DEF UpdateScreen, readingVars, ledVars
    <2>. QED  BY <2>1 DEF AlarmOnItsWay
  <1>8. CASE ProcessReceiver
    <2>1. /\ pc = "processReceiver" /\ pc' = "delay" /\ UNCHANGED <<zone, leds>>
          /\ AlarmLimit' = 0
      BY <1>8 DEF ProcessReceiver, ledVars, AlarmLimit
    <2>2. PICK wait \in 0..RX_WAIT_MS :
            \/ UNCHANGED readingVars /\ Elapse(wait, {})
            \/ \E s \in Sites, t \in Temps : Store(s, t, After(millis, wait)) /\ Elapse(wait, {s})
      BY <1>8 DEF ProcessReceiver
    <2>3. CASE UNCHANGED readingVars
      BY <2>1, <2>3 DEF AlarmOnItsWay, readingVars
    <2>4. ASSUME NEW s \in Sites, NEW t \in Temps,
                 Store(s, t, After(millis, wait)), Elapse(wait, {s})
          PROVE  AlarmOnItsWay'
      <3>1. \A r \in Sites : r # s => temp'[r] = temp[r]
        BY <2>4 DEF Store, DongleTypeOK
      <3>2. age'[s] = 0
        BY <2>4 DEF Elapse
      <3>. QED  BY <2>1, <3>1, <3>2 DEF AlarmOnItsWay
    <2>. QED  BY <2>2, <2>3, <2>4
  <1>9. CASE Delay
    <2>1. /\ pc = "delay" /\ pc' = "updateTemp" /\ UNCHANGED <<temp, zone, leds>>
          /\ AlarmLimit = 0 /\ AlarmLimit' = DELAY_MS + CPU_MS + 0
      BY <1>9 DEF Delay, readingVars, ledVars, AlarmLimit
    <2>2. PICK cpu \in 0..CPU_MS : Elapse(DELAY_MS + cpu, {})
      BY <1>9 DEF Delay
    <2>3. DELAY_MS + cpu \in Nat /\ DELAY_MS + cpu <= DELAY_MS + CPU_MS
      BY TimesTyped
    <2>4. \A s \in Sites : age'[s] <= age[s] + (DELAY_MS + cpu) /\ age'[s] \in Nat
      BY <2>2, <2>3, ElapseAges
    <2>. QED  BY <1>0, <2>1, <2>3, <2>4, TimesTyped DEF AlarmOnItsWay
  <1>. QED
    BY <1>1, <1>2, <1>3, <1>4, <1>5, <1>6, <1>7, <1>8, <1>9 DEF Next, MainLoop

LEMMA AlarmInit == Init => AlarmOnItsWay
  <1>1. \A s \in Sites : RED_C[s] \in Int /\ RED_C[s] > NO_TEMP /\ NO_TEMP \in Int
    BY DongleAssumption, HistoryAssumption
  <1>. QED  BY <1>1 DEF Init, AlarmOnItsWay

\* A red reading is on the LED at the latest one delay and one held button after
\* its packet, whatever the readings of the other sites are.
THEOREM AlarmReachesLed == Spec => []AlarmShownInTime
  <1>1. DongleTypeOK /\ TimeInv /\ AlarmOnItsWay => AlarmShownInTime
    <2> SUFFICES ASSUME DongleTypeOK, TimeInv, AlarmOnItsWay, NEW s \in Sites,
                        temp[s] > RED_C[s], age[s] > DELAY_MS + CPU_MS + BUTTON_MAX
                 PROVE  leds.zone = "red"
      BY DEF AlarmShownInTime
    <2>1. /\ pc \in Calls /\ age[s] \in Nat /\ sinceToggle \in Nat
          /\ leds.zone = "red" \/ age[s] <= AlarmLimit
          /\ pc = "hold" => sinceToggle < HOLD_MS + POLL_MS
      BY DEF DongleTypeOK, AlarmOnItsWay, TimeInv, WithinLimits
    <2>2. CASE pc \in {"updateTemp", "processTempIndication", "processButton"}
      BY <2>1, <2>2, TimesTyped DEF AlarmLimit
    <2>3. CASE pc = "hold"
      BY <2>1, <2>3, TimesTyped DEF AlarmLimit, HoldSoFar
    <2>4. CASE pc = "updateLed"
      BY <2>1, <2>4, TimesTyped DEF AlarmLimit, HoldSoFar
    <2>5. CASE pc \in {"updateScreen", "processReceiver"}
      BY <2>1, <2>5, TimesTyped DEF AlarmLimit
    <2>6. CASE pc = "delay"
      BY <2>1, <2>6, TimesTyped DEF AlarmLimit
    <2>. QED  BY <2>1, <2>2, <2>3, <2>4, <2>5, <2>6 DEF Calls
  <1>. QED  BY <1>1, AlarmInit, AlarmStep, TimeInvariant, PTL DEF Spec

LEMMA ButtonStep ==
  ASSUME DongleTypeOK, TimeInv, ButtonWaited, [Next]_dongleVars
  PROVE  ButtonWaited'
  <1>0. pressed \in BOOLEAN /\ upSinceToggle \in BOOLEAN /\ sinceToggle \in Nat /\ pc \in Calls
    BY DEF DongleTypeOK
  <1>1. CASE UNCHANGED dongleVars
    BY <1>1 DEF dongleVars, clockVars, buttonVars, ButtonWaited
  <1>2. CASE PressOrRelease
    <2>1. /\ UNCHANGED <<pc, sinceToggle>> /\ pressed' = ~pressed
          /\ upSinceToggle' = (upSinceToggle \/ pressed)
      BY <1>2 DEF PressOrRelease, clockVars
    <2>. QED  BY <2>1, <1>0 DEF ButtonWaited
  <1>3. CASE ProcessButton
    <2>1. CASE \E on \in BOOLEAN : Toggle(on)
      <3>1. pc' = "hold" /\ pressed' = pressed /\ upSinceToggle' = ~pressed
        BY <2>1 DEF Toggle
      <3>2. ~upSinceToggle' => pressed'
        <4>1. CASE pressed
          BY <4>1, <3>1
        <4>2. CASE ~pressed
          <5>1. upSinceToggle'
            BY <4>2, <3>1
          <5>. QED  BY <5>1
        <4>. QED  BY <4>1, <4>2
      <3>. QED  BY <3>1, <3>2 DEF ButtonWaited
    <2>2. CASE pc' = "updateLed" /\ UNCHANGED <<clockVars, buttonVars>>
      BY <1>3, <2>2 DEF ProcessButton, clockVars, buttonVars, ButtonWaited
    <2>. QED  BY <1>3, <2>1, <2>2 DEF ProcessButton
  <1>4. CASE Hold
    <2>1. /\ pc = "hold" /\ UNCHANGED <<pressed, upSinceToggle>>
          /\ Since(millis, lastPressedMs) = sinceToggle
      BY <1>4 DEF Hold, buttonVars, TimeInv, ClocksAgree
    <2>2. CASE sinceToggle < HOLD_MS /\ pressed
      BY <1>4, <2>1, <2>2 DEF Hold, ButtonWaited
    <2>3. CASE ~(sinceToggle < HOLD_MS /\ pressed)
      <3>1. pc' = "updateLed" /\ sinceToggle' = Capped(sinceToggle + DEBOUNCE_MS)
        BY <1>4, <2>1, <2>3 DEF Hold, Elapse
      <3>2. sinceToggle >= HOLD_MS => sinceToggle' >= HOLD_MS
        BY <3>1, <1>0, TimesTyped DEF Capped
      <3>. QED  BY <1>0, <2>1, <2>3, <3>1, <3>2, TimesTyped DEF ButtonWaited
    <2>. QED  BY <2>2, <2>3
  <1>5. CASE UpdateTemp \/ ProcessTempIndication \/ UpdateLed \/ UpdateScreen
               \/ ProcessReceiver \/ Delay
    <2>1. UNCHANGED <<pressed, upSinceToggle>> /\ pc # "hold" /\ pc' # "hold"
      BY <1>5 DEF UpdateTemp, ProcessTempIndication, UpdateLed, UpdateScreen,
                  ProcessReceiver, Delay, buttonVars
    <2>2. \/ sinceToggle' = sinceToggle
          \/ \E t \in Nat : sinceToggle' = Capped(sinceToggle + t)
      <3>1. CASE ProcessTempIndication \/ UpdateLed \/ UpdateScreen
        BY <3>1 DEF ProcessTempIndication, UpdateLed, UpdateScreen, clockVars
      <3>2. CASE UpdateTemp
        BY <3>2 DEF UpdateTemp, Elapse
      <3>3. CASE ProcessReceiver
        BY <3>3, TimesTyped DEF ProcessReceiver, Elapse
      <3>4. CASE Delay
        <4>1. PICK cpu \in 0..CPU_MS : Elapse(DELAY_MS + cpu, {})
          BY <3>4 DEF Delay
        <4>2. DELAY_MS + cpu \in Nat
          BY TimesTyped
        <4>. QED  BY <4>1, <4>2 DEF Elapse
      <3>. QED  BY <1>5, <3>1, <3>2, <3>3, <3>4
    <2>3. sinceToggle >= HOLD_MS => sinceToggle' >= HOLD_MS
      BY <2>2, <1>0, TimesTyped DEF Capped
    <2>. QED  BY <2>1, <2>3 DEF ButtonWaited
  <1>. QED  BY <1>1, <1>2, <1>3, <1>4, <1>5 DEF Next, MainLoop

\* A button that stays down toggles the display at most once in HOLD_MS.
THEOREM ButtonTogglesOnce == Spec => OneToggleAPress
  <1>1. Init => ButtonWaited
    BY DEF Init, ButtonWaited
  <1>2. ButtonWaited /\ [Next]_dongleVars
          => [tftActive' # tftActive => upSinceToggle \/ sinceToggle >= HOLD_MS]_dongleVars
    <2> SUFFICES ASSUME ButtonWaited, Next, tftActive' # tftActive
                 PROVE  upSinceToggle \/ sinceToggle >= HOLD_MS
      OBVIOUS
    <2>1. pc = "processButton"
      BY DEF Next, MainLoop, UpdateTemp, ProcessTempIndication, ProcessButton, Hold, UpdateLed,
             UpdateScreen, ProcessReceiver, Delay, PressOrRelease, buttonVars
    <2>. QED  BY <2>1 DEF ButtonWaited
  <1>. QED  BY <1>1, <1>2, ButtonStep, TimeInvariant, PTL DEF Spec, OneToggleAPress

\* The invariant that carries all of these, the one the runs check as it stands.
THEOREM DongleInvariant == Spec => []DongleInv
  <1>1. Init => ButtonWaited
    BY DEF Init, ButtonWaited
  <1>2. Spec => []AlarmOnItsWay
    BY AlarmInit, AlarmStep, DongleTypeCorrect, TimeInvariant, PTL DEF Spec
  <1>3. Spec => []ButtonWaited
    BY <1>1, ButtonStep, DongleTypeCorrect, TimeInvariant, PTL DEF Spec
  <1>. QED
    BY <1>2, <1>3, DongleTypeCorrect, TimeInvariant, PTL DEF DongleInv, TimeInv

-----------------------------------------------------------------------------
(* Numbers and colours.                                                    *)

LEMMA ZonesApart ==
  ASSUME NEW s \in Sites
  PROVE  /\ NO_TEMP \in Int /\ RED_C[s] \in Int /\ YELLOW_C[s] \in Int
         /\ RED_C[s] > YELLOW_C[s] /\ YELLOW_C[s] > NO_TEMP
  BY DongleAssumption, HistoryAssumption

LEMMA ColourInit == Init => ColourOnItsWay
  <1> SUFFICES ASSUME Init PROVE ColourOnItsWay
    OBVIOUS
  <1>1. pc = "updateTemp" /\ \A s \in Sites : screen[s].temp = NO_TEMP /\ screen[s].font = "green"
    BY DEF Init
  <1>2. \A s \in Sites : Fits("green", NO_TEMP, s)
    BY ZonesApart DEF Fits
  <1>. QED
    BY <1>1, <1>2 DEF ColourOnItsWay, ColourFitsNumber

LEMMA ColourStep ==
  DongleTypeOK /\ ColourOnItsWay /\ [Next]_dongleVars => ColourOnItsWay'
  <1> SUFFICES ASSUME DongleTypeOK, ColourOnItsWay, [Next]_dongleVars PROVE ColourOnItsWay'
    OBVIOUS
  <1> USE DEF clockVars, readingVars, ledVars, buttonVars, screenVars
  <1>1. CASE ProcessTempIndication
    <2>1. /\ UNCHANGED <<screen, temp>> /\ pc' = "processButton"
          /\ \A s \in Sites : font'[s] = FontColor(s)
      BY <1>1 DEF ProcessTempIndication
    <2>2. ASSUME NEW s \in Sites PROVE Fits(FontColor(s), temp[s], s)
      <3>1. temp[s] \in Int
        BY ZonesApart, DongleAssumption DEF DongleTypeOK, Reported
      <3>2. CASE temp[s] > RED_C[s]
        <4>1. FontColor(s) = "red"
          BY <3>1, <3>2, ZonesApart DEF FontColor
        <4>. QED
          BY <3>1, <3>2, <4>1, ZonesApart DEF Fits
      <3>3. CASE temp[s] <= RED_C[s] /\ temp[s] > YELLOW_C[s]
        <4>1. FontColor(s) = "yellow"
          BY <3>1, <3>3, ZonesApart DEF FontColor
        <4>. QED
          BY <3>1, <3>3, <4>1, ZonesApart DEF Fits
      <3>4. CASE temp[s] <= YELLOW_C[s]
        <4>1. ~(temp[s] > RED_C[s]) /\ ~(temp[s] > YELLOW_C[s])
          BY <3>1, <3>4, ZonesApart
        <4>2. FontColor(s) \in {"blue", "darkgreen"}
          BY <3>4, <4>1 DEF FontColor
        <4>. QED
          BY <4>1, <4>2 DEF Fits
      <3>. QED
        BY <3>1, <3>2, <3>3, <3>4, ZonesApart
    <2>. QED
      BY <2>1, <2>2 DEF ColourOnItsWay, ColourFitsNumber
  <1>2. CASE UpdateScreen
    <2>1. pc = "updateScreen" /\ pc' = "processReceiver"
      BY <1>2 DEF UpdateScreen
    <2>2. CASE UNCHANGED screenVars
      BY <2>1, <2>2 DEF ColourOnItsWay, ColourFitsNumber
    <2>3. CASE \A s \in Sites : screen'[s].temp = temp[s] /\ screen'[s].font = font[s]
      BY <2>1, <2>3 DEF ColourOnItsWay, ColourFitsNumber
    <2>. QED
      BY <1>2, <2>2, <2>3 DEF UpdateScreen
  <1>3. CASE ProcessButton \/ Hold \/ UpdateLed
    <2>1. /\ UNCHANGED <<screen, temp, font>>
          /\ pc \in {"processButton", "hold", "updateLed"}
      BY <1>3 DEF ProcessButton, Hold, UpdateLed
    <2>. QED
      BY <2>1 DEF ColourOnItsWay, ColourFitsNumber
  <1>4. CASE UpdateTemp \/ ProcessReceiver \/ Delay
    <2>1. /\ UNCHANGED screen
          /\ pc' \in {"processTempIndication", "delay", "updateTemp"}
      BY <1>4 DEF UpdateTemp, ProcessReceiver, Delay
    <2>. QED
      BY <2>1 DEF ColourOnItsWay, ColourFitsNumber
  <1>5. CASE PressOrRelease \/ UNCHANGED dongleVars
    <2>1. UNCHANGED <<screen, temp, font, pc>>
      BY <1>5 DEF PressOrRelease, dongleVars
    <2>. QED
      BY <2>1 DEF ColourOnItsWay, ColourFitsNumber
  <1>. QED
    BY <1>1, <1>2, <1>3, <1>4, <1>5 DEF Next, MainLoop

\* The number on the screen never has the colour of another zone, whatever the
\* thresholds and however the readings of the sites come and go.
THEOREM NumbersKeepTheirColour == Spec => []ColourFitsNumber
  <1>1. ColourOnItsWay => ColourFitsNumber
    BY DEF ColourOnItsWay
  <1>. QED
    BY <1>1, ColourInit, ColourStep, DongleTypeCorrect, PTL DEF Spec

-----------------------------------------------------------------------------
(* Numbers and ranges.                                                     *)

LEMMA ReportedInt == Reported \subseteq Int
  BY DongleAssumption, HistoryAssumption DEF Reported

\* A range contains the newest reading of its history.
LEMMA NewestInRange ==
  ASSUME NEW h \in Seq(Reported), Len(h) = HISTORY_SIZE, h[HISTORY_SIZE] # NO_TEMP
  PROVE  /\ FindInHistory(h).min <= h[HISTORY_SIZE]
         /\ h[HISTORY_SIZE] <= FindInHistory(h).max
  <1>1. h \in Seq(Int)
    <2>1. \A i \in 1..Len(h) : h[i] \in Int
      <3> SUFFICES ASSUME NEW i \in 1..Len(h) PROVE h[i] \in Int
        OBVIOUS
      <3>1. h[i] \in Reported
        OBVIOUS
      <3>. QED
        BY <3>1, ReportedInt
    <2>2. h = [i \in 1..Len(h) |-> h[i]] /\ Len(h) \in Nat
      OBVIOUS
    <2>. QED
      BY <2>1, <2>2
  <1>2. IsRangeOf(FindInHistory(h), Seen(h, HISTORY_SIZE))
    BY <1>1, FindIsRange
  <1>3. h[HISTORY_SIZE] \in Seen(h, HISTORY_SIZE)
    BY HistoryAssumption DEF Seen
  <1>4. /\ h[HISTORY_SIZE] \in Int
        /\ FindInHistory(h).min \in Int /\ FindInHistory(h).max \in Int
    <2>1. \A i \in 1..HISTORY_SIZE : h[i] \in Int
      BY <1>1
    <2>2. Seen(h, HISTORY_SIZE) \subseteq Int
      BY <2>1 DEF Seen
    <2>. QED
      BY <1>2, <1>3, <2>2 DEF IsRangeOf
  <1>. QED
    BY <1>2, <1>3, <1>4 DEF IsRangeOf

\* A reading that is stored becomes the newest of its history.
LEMMA AddedIsNewest ==
  ASSUME NEW h \in Seq(Reported), Len(h) = HISTORY_SIZE, NEW t \in Reported
  PROVE  AddToHistory(h, t)[HISTORY_SIZE] = t
  <1>1. h # <<>>
    BY HistoryAssumption, EmptySeq
  <1>2. Tail(h) \in Seq(Reported) /\ Len(Tail(h)) = HISTORY_SIZE - 1
    BY <1>1, HeadTailProperties
  <1>. QED
    BY <1>2, HistoryAssumption, AppendProperties DEF AddToHistory

LEMMA RangeInit == Init => RangeOnItsWay
  <1> SUFFICES ASSUME Init PROVE RangeOnItsWay
    OBVIOUS
  <1>1. /\ DOMAIN history = Sites
        /\ \A s \in Sites : temp[s] = NO_TEMP /\ screen[s].temp = NO_TEMP
    BY DEF Init
  <1>. QED
    BY <1>1 DEF RangeOnItsWay, RangeHoldsNumber

LEMMA RangeStep ==
  DongleTypeOK /\ RangeOnItsWay /\ [Next]_dongleVars => RangeOnItsWay'
  <1> SUFFICES ASSUME DongleTypeOK, RangeOnItsWay, [Next]_dongleVars PROVE RangeOnItsWay'
    OBVIOUS
  <1> USE DEF clockVars, readingVars, ledVars, buttonVars, screenVars
  <1>1. CASE UpdateScreen
    <2>1. UNCHANGED <<temp, history>>
      BY <1>1 DEF UpdateScreen
    <2>2. CASE UNCHANGED screen
      BY <2>1, <2>2 DEF RangeOnItsWay, RangeHoldsNumber
    <2>3. CASE screen' = [s \in Sites |-> [temp |-> temp[s], font |-> font[s],
                                           range |-> FindInHistory(history[s])]]
      <3>1. ASSUME NEW s \in Sites, temp[s] # NO_TEMP
            PROVE  /\ FindInHistory(history[s]).min <= temp[s]
                   /\ temp[s] <= FindInHistory(history[s]).max
        <4>1. /\ history[s] \in Seq(Reported) /\ Len(history[s]) = HISTORY_SIZE
              /\ history[s][HISTORY_SIZE] = temp[s]
          BY <3>1 DEF DongleTypeOK, RangeOnItsWay
        <4>. QED
          BY <3>1, <4>1, NewestInRange
      <3>2. ASSUME NEW s \in Sites
            PROVE  screen'[s].temp = temp[s] /\ screen'[s].range = FindInHistory(history[s])
        BY <2>3
      <3>3. RangeHoldsNumber'
        BY <3>1, <3>2 DEF RangeHoldsNumber
      <3>. QED
        BY <2>1, <3>3 DEF RangeOnItsWay
    <2>. QED
      BY <1>1, <2>2, <2>3 DEF UpdateScreen
  <1>2. CASE ProcessReceiver
    <2>1. UNCHANGED screen
      BY <1>2 DEF ProcessReceiver
    <2>2. ASSUME NEW s \in Sites, NEW t \in Temps, NEW now, Store(s, t, now)
          PROVE  /\ DOMAIN history' = Sites
                 /\ \A r \in Sites : temp'[r] # NO_TEMP => history'[r][HISTORY_SIZE] = temp'[r]
      <3>1. t \in Reported /\ history[s] \in Seq(Reported) /\ Len(history[s]) = HISTORY_SIZE
        BY ReportedTyped DEF DongleTypeOK
      <3>2. AddToHistory(history[s], t)[HISTORY_SIZE] = t
        BY <3>1, AddedIsNewest
      <3>3. ASSUME NEW r \in Sites
            PROVE  /\ r = s => temp'[r] = t /\ history'[r] = AddToHistory(history[s], t)
                   /\ r # s => temp'[r] = temp[r] /\ history'[r] = history[r]
        BY <2>2 DEF Store, DongleTypeOK, RangeOnItsWay
      <3>4. DOMAIN history' = Sites
        BY <2>2 DEF Store, RangeOnItsWay
      <3>. QED
        BY <3>2, <3>3, <3>4 DEF RangeOnItsWay
    <2>. QED
      BY <1>2, <2>1, <2>2 DEF ProcessReceiver, RangeOnItsWay, RangeHoldsNumber
  <1>3. CASE UpdateTemp
    <2>1. /\ UNCHANGED <<screen, history>>
          /\ \A s \in Sites : temp'[s] \in {temp[s], NO_TEMP}
      BY <1>3 DEF UpdateTemp, DongleTypeOK
    <2>. QED
      BY <2>1 DEF RangeOnItsWay, RangeHoldsNumber
  <1>4. CASE ProcessTempIndication \/ ProcessButton \/ Hold \/ UpdateLed \/ Delay
               \/ PressOrRelease \/ UNCHANGED dongleVars
    <2>1. UNCHANGED <<screen, temp, history>>
      BY <1>4 DEF ProcessTempIndication, ProcessButton, Hold, UpdateLed, Delay,
                  PressOrRelease, dongleVars
    <2>. QED
      BY <2>1 DEF RangeOnItsWay, RangeHoldsNumber
  <1>. QED
    BY <1>1, <1>2, <1>3, <1>4 DEF Next, MainLoop

\* The range beside a number on the screen contains it, for every size of the
\* history: what updateScreen() computes in one pass belongs to the same site.
THEOREM RangesHoldTheirNumber == Spec => []RangeHoldsNumber
  <1>1. RangeOnItsWay => RangeHoldsNumber
    BY DEF RangeOnItsWay
  <1>. QED
    BY <1>1, RangeInit, RangeStep, DongleTypeCorrect, PTL DEF Spec

-----------------------------------------------------------------------------
(* The dongle with its sensors: Network.                                   *)

LEMMA NetTimes ==
  /\ Cardinality(Sites) \in Nat /\ TAKE_MAX \in Nat /\ WAIT_MAX \in Nat /\ CYCLE_MS \in Nat
  /\ SLEEP_MS \in Nat /\ QUEUE_SIZE \in Nat /\ MAX_MISSED \in Nat
  /\ TAKE_MAX = BUTTON_MAX + DELAY_MS + CPU_MS
  /\ CYCLE_MS >= SLEEP_MS /\ SLEEP_MS > WAIT_MAX
  <1>1. Cardinality(Sites) \in Nat
    BY NetworkAssumption, FS_CardinalityType
  <1>2. TAKE_MAX \in Nat /\ TAKE_MAX = BUTTON_MAX + DELAY_MS + CPU_MS
    BY TimesTyped DEF TAKE_MAX
  <1>3. WAIT_MAX \in Nat
    BY <1>1, <1>2 DEF WAIT_MAX
  <1>. QED
    BY <1>1, <1>2, <1>3, NetworkAssumption DEF CYCLE_MS

\* Whole cycles.
LEMMA Cycles ==
  ASSUME NEW k \in 0..MAX_MISSED
  PROVE  /\ k * CYCLE_MS \in Nat
         /\ (k + 1) * CYCLE_MS = (k * CYCLE_MS) + CYCLE_MS
         /\ (k + 1) * CYCLE_MS <= (MAX_MISSED + 1) * CYCLE_MS
         /\ (MAX_MISSED + 1) * CYCLE_MS \in Nat
         /\ 0 * CYCLE_MS = 0
  <1> DEFINE d == MAX_MISSED - k
  <1>1. k \in Nat /\ d \in Nat /\ MAX_MISSED = k + d /\ CYCLE_MS \in Nat
    BY NetTimes
  <1>2. (k + 1) * CYCLE_MS = (k * CYCLE_MS) + CYCLE_MS /\ k * CYCLE_MS \in Nat
    BY <1>1
  <1>3. ((k + d) + 1) * CYCLE_MS = ((k + 1) * CYCLE_MS) + (d * CYCLE_MS)
    BY <1>1
  <1>4. d * CYCLE_MS \in Nat
    BY <1>1
  <1>. QED
    BY <1>1, <1>2, <1>3, <1>4

\* Places in the queue.
LEMMA Places ==
  ASSUME NEW i \in Nat \ {0}
  PROVE  /\ (i - 1) * TAKE_MAX \in Nat
         /\ ((i + 1) - 1) * TAKE_MAX = ((i - 1) * TAKE_MAX) + TAKE_MAX
         /\ i <= Cardinality(Sites) => ((i - 1) * TAKE_MAX) + TAKE_MAX <= WAIT_MAX
  <1>1. TAKE_MAX \in Nat /\ Cardinality(Sites) \in Nat
    BY NetTimes
  <1>2. (i - 1) * TAKE_MAX \in Nat /\ ((i - 1) * TAKE_MAX) + TAKE_MAX = i * TAKE_MAX
    BY <1>1
  <1>3. ASSUME i <= Cardinality(Sites)
        PROVE  i * TAKE_MAX <= WAIT_MAX
    <2> DEFINE d == Cardinality(Sites) - i
    <2>1. d \in Nat /\ Cardinality(Sites) = i + d
      BY <1>1, <1>3
    <2>2. (i + d) * TAKE_MAX = (i * TAKE_MAX) + (d * TAKE_MAX)
      BY <1>1, <2>1
    <2>3. d * TAKE_MAX \in Nat
      BY <1>1, <2>1
    <2>. QED
      BY <1>1, <2>1, <2>2, <2>3 DEF WAIT_MAX
  <1>. QED
    BY <1>1, <1>2, <1>3

\* What the sensors' clocks are moved by.
LEMMA TimePassed ==
  ASSUME DongleTypeOK, NEW t \in Nat, t < MILLIS_RANGE, millis' = After(millis, t)
  PROVE  Since(millis', millis) = t
  <1>1. millis \in Millis /\ Since(millis, millis) = 0
    BY SinceTyped DEF DongleTypeOK
  <1>2. Since(After(millis, t), millis) = 0 + t
    BY <1>1, SinceAfter
  <1>. QED
    BY <1>2

LEMMA LeftTyped == DongleTypeOK /\ WithinLimits => Left \in Nat /\ Left <= TAKE_MAX
  <1> SUFFICES ASSUME DongleTypeOK, WithinLimits PROVE Left \in Nat /\ Left <= TAKE_MAX
    OBVIOUS
  <1>1. pc \in Calls /\ sinceToggle \in Nat /\ (pc = "hold" => sinceToggle < HOLD_MS + POLL_MS)
    BY DEF DongleTypeOK, WithinLimits
  <1>. QED
    BY <1>1, NetTimes, TimesTyped DEF Left, Calls

LEMMA SensorTyped ==
  ASSUME NetTypeOK, NEW s \in Sites
  PROVE  /\ sinceSent[s] \in Nat /\ sinceSent[s] <= CYCLE_MS
         /\ missed[s] \in Nat /\ missed[s] \in 0..MAX_MISSED
  <1>1. sinceSent[s] \in 0..CYCLE_MS /\ missed[s] \in 0..MAX_MISSED
    BY DEF NetTypeOK
  <1>. QED
    BY <1>1, NetTimes

LEMMA Shift ==
  ASSUME NEW a \in Nat, NEW b \in Nat, NEW c \in Nat, NEW d \in Nat, NEW p \in Nat,
         NEW w \in Nat, c + d <= b, a + b + p <= w
  PROVE  (a + d) + c + p <= w
  OBVIOUS

\* While d units pass that the wait for the next call gets shorter by, nothing is
\* sent or taken.
LEMMA WaitGoesOn ==
  ASSUME NetInv, NEW d \in Nat, Left \in Nat, Left' \in Nat, Left' + d <= Left,
         \A s \in Sites : sinceSent'[s] = sinceSent[s] + d,
         UNCHANGED <<radioQ, heard, missed>>,
         \A s \in heard : age[s] \in Nat /\ age'[s] \in Nat /\ temp'[s] = temp[s]
                            /\ age'[s] <= age[s] + d
  PROVE  QueueInTime' /\ AgeInCycles'
  <1>1. QueueInTime'
    <2>1. \A i, j \in 1..Len(radioQ') : radioQ'[i] = radioQ'[j] => i = j
      BY DEF NetInv, QueueInTime
    <2>2. ASSUME NEW i \in 1..Len(radioQ)
          PROVE  sinceSent'[radioQ[i]] + Left' + (i - 1) * TAKE_MAX <= WAIT_MAX
      <3>1. radioQ[i] \in Sites /\ i \in Nat \ {0}
        BY ElementOfSeq, LenProperties DEF NetInv, NetTypeOK
      <3>2. PICK s \in Sites : s = radioQ[i]
        BY <3>1
      <3>3. PICK p \in Nat : p = (i - 1) * TAKE_MAX
        BY <3>1, Places
      <3>4. sinceSent[s] + Left + p <= WAIT_MAX
        BY <3>2, <3>3 DEF NetInv, QueueInTime
      <3>5. sinceSent[s] \in Nat /\ sinceSent'[s] = sinceSent[s] + d /\ WAIT_MAX \in Nat
        BY SensorTyped, NetTimes DEF NetInv
      <3>6. Left' + d <= Left
        OBVIOUS
      <3>7. (sinceSent[s] + d) + Left' + p <= WAIT_MAX
        BY <3>4, <3>5, <3>6, Shift
      <3>. QED
        BY <3>2, <3>3, <3>5, <3>7
    <2>. QED
      BY <2>1, <2>2 DEF QueueInTime
  <1>2. ASSUME NEW s \in heard
        PROVE  /\ temp'[s] # NO_TEMP
               /\ ~Queued(s) => age'[s] <= missed[s] * CYCLE_MS + sinceSent'[s]
               /\ Queued(s) => age'[s] <= (MAX_MISSED + 1) * CYCLE_MS + sinceSent'[s]
    <2>1. /\ sinceSent[s] \in Nat /\ sinceSent'[s] = sinceSent[s] + d
          /\ missed[s] \in 0..MAX_MISSED
      BY SensorTyped DEF NetInv, NetTypeOK
    <2>2. missed[s] * CYCLE_MS \in Nat /\ (MAX_MISSED + 1) * CYCLE_MS \in Nat
      BY <2>1, Cycles
    <2>3. /\ temp[s] # NO_TEMP
          /\ ~Queued(s) => age[s] <= missed[s] * CYCLE_MS + sinceSent[s]
          /\ Queued(s) => age[s] <= (MAX_MISSED + 1) * CYCLE_MS + sinceSent[s]
      BY DEF NetInv, AgeInCycles
    <2>. QED
      BY <2>1, <2>2, <2>3
  <1>. QED
    BY <1>1, <1>2 DEF AgeInCycles, Queued

-----------------------------------------------------------------------------
(* The steps of the dongle.                                                *)

\* The facts of the dongle alone, before and after a step.
DongleOK == DongleTypeOK /\ TimeInv

LEMMA Waits ==
  ASSUME DongleOK, DongleOK', NetInv, DongleStep,
         UNCHANGED <<radioQ, heard>>,
         NEW t \in Nat, t < MILLIS_RANGE, millis' = After(millis, t), Left' + t <= Left,
         \A s \in heard : temp'[s] = temp[s] /\ age'[s] <= age[s] + t
  PROVE  QueueInTime' /\ AgeInCycles'
  <1>1. Left \in Nat /\ Left' \in Nat
    <2>1. (DongleTypeOK /\ WithinLimits => Left \in Nat /\ Left <= TAKE_MAX)'
      BY LeftTyped, PTL
    <2>. QED
      BY <2>1, LeftTyped DEF DongleOK, TimeInv
  <1>2. Since(millis', millis) = t
    BY TimePassed DEF DongleOK
  <1>3. UNCHANGED missed /\ \A s \in Sites : sinceSent'[s] = sinceSent[s] + t
    BY <1>2 DEF DongleStep
  <1>4. \A s \in heard : age[s] \in Nat /\ age'[s] \in Nat
    BY DEF DongleOK, DongleTypeOK, NetInv, NetTypeOK
  <1>. QED
    BY <1>1, <1>3, <1>4, WaitGoesOn
LEMMA AgeAtTest ==
  ASSUME NEW a \in Nat, NEW b \in Nat, NEW c \in Nat, NEW g \in Nat, NEW p \in Nat,
         NEW w \in Nat, a <= c + g, g + b + p <= w
  PROVE  a <= c + (w - b)
  OBVIOUS

LEMMA GapFits ==
  ASSUME NEW s \in Sites
  PROVE  /\ BUTTON_MAX <= WAIT_MAX
         /\ (MAX_MISSED + 1) * CYCLE_MS + (WAIT_MAX - BUTTON_MAX) <= TEMP_LIFE_TIME_MS
  <1>1. Cardinality(Sites) # 0 /\ Cardinality(Sites) \in Nat
    BY NetworkAssumption, FS_EmptySet, FS_CardinalityType
  <1>2. ((1 - 1) * TAKE_MAX) + TAKE_MAX <= WAIT_MAX /\ (1 - 1) * TAKE_MAX \in Nat
    BY <1>1, Places
  <1>3. BUTTON_MAX <= TAKE_MAX
    BY NetTimes, TimesTyped
  <1>4. BUTTON_MAX <= WAIT_MAX
    BY <1>2, <1>3, NetTimes, TimesTyped
  <1>. QED
    BY <1>4, NetworkAssumption DEF MAX_GAP

LEMMA WaitsUpdateTemp ==
  ASSUME DongleOK, DongleOK', NetInv, DongleStep, UpdateTemp, UNCHANGED <<radioQ, heard>>
  PROVE  QueueInTime' /\ AgeInCycles'
  <1>1. ASSUME NEW s \in heard
        PROVE  temp'[s] = temp[s] /\ age'[s] <= age[s] + 0
    <2>1. /\ s \in Sites /\ age[s] \in Nat /\ temp[s] # NO_TEMP
          /\ sinceSent[s] \in Nat /\ sinceSent[s] <= CYCLE_MS /\ missed[s] \in 0..MAX_MISSED
      BY SensorTyped DEF NetInv, NetTypeOK, AgeInCycles, DongleOK, DongleTypeOK
    <2>2. Since(millis, lastRcvd[s]) = age[s]
      BY <2>1 DEF DongleOK, TimeInv, ClocksAgree
    <2>3. Left = BUTTON_MAX
      BY DEF UpdateTemp, Left
    <2>4. /\ missed[s] * CYCLE_MS \in Nat /\ (MAX_MISSED + 1) * CYCLE_MS \in Nat
          /\ (missed[s] * CYCLE_MS) + CYCLE_MS <= (MAX_MISSED + 1) * CYCLE_MS
      BY <2>1, Cycles
    <2>5. age[s] <= (MAX_MISSED + 1) * CYCLE_MS + (WAIT_MAX - BUTTON_MAX)
      <3>1. CASE ~Queued(s)
        <4>1. age[s] <= (missed[s] * CYCLE_MS) + sinceSent[s]
          BY <3>1 DEF NetInv, AgeInCycles
        <4>. QED
          BY <4>1, <2>1, <2>4, GapFits, NetTimes, TimesTyped
      <3>2. CASE Queued(s)
        <4>1. age[s] <= ((MAX_MISSED + 1) * CYCLE_MS) + sinceSent[s]
          BY <3>2 DEF NetInv, AgeInCycles
        <4>2. PICK i \in 1..Len(radioQ) : radioQ[i] = s
          BY <3>2 DEF Queued
        <4>3. PICK p \in Nat : p = (i - 1) * TAKE_MAX
          BY Places
        <4>4. sinceSent[s] + BUTTON_MAX + p <= WAIT_MAX
          BY <4>2, <4>3, <2>3 DEF NetInv, QueueInTime
        <4>5. BUTTON_MAX \in Nat /\ WAIT_MAX \in Nat
          BY NetTimes, TimesTyped
        <4>. QED
          BY <4>1, <4>4, <4>5, <2>1, <2>4, AgeAtTest
      <3>. QED
        BY <3>1, <3>2
    <2>6. age[s] <= TEMP_LIFE_TIME_MS
      BY <2>1, <2>4, <2>5, GapFits, NetTimes, TimesTyped
    <2>7. temp'[s] = temp[s]
      BY <2>1, <2>2, <2>6, TimesTyped DEF UpdateTemp
    <2>. QED
      BY <2>1, <2>7 DEF UpdateTemp, Elapse
  <1>2. Left = BUTTON_MAX /\ Left' = BUTTON_MAX /\ millis' = After(millis, 0)
    BY DEF UpdateTemp, Left, Elapse
  <1>. QED
    BY <1>1, <1>2, Waits, TimesTyped
LEMMA WaitsUnmoved ==
  ASSUME DongleOK, DongleOK', NetInv, DongleStep, UNCHANGED <<radioQ, heard>>,
         \/ ProcessTempIndication \/ ProcessButton \/ UpdateLed \/ UpdateScreen
  PROVE  QueueInTime' /\ AgeInCycles'
  <1>1. UNCHANGED <<millis, temp, age>>
    BY DEF ProcessTempIndication, ProcessButton, Toggle, UpdateLed, UpdateScreen,
           clockVars, readingVars
  <1>2. millis' = After(millis, 0)
    BY <1>1, TimesTyped DEF After, DongleOK, DongleTypeOK, Millis
  <1>3. Left' + 0 <= Left
    <2>1. CASE ProcessTempIndication
      BY <2>1, TimesTyped DEF ProcessTempIndication, Left
    <2>2. CASE ProcessButton
      <3>1. CASE pc' = "hold"
        <4>1. sinceToggle' = 0 /\ pc = "processButton"
          BY <2>2, <3>1 DEF ProcessButton, Toggle
        <4>. QED
          BY <4>1, <3>1, TimesTyped DEF Left
      <3>2. CASE pc' # "hold"
        <4>1. pc' = "updateLed" /\ pc = "processButton"
          BY <2>2, <3>2 DEF ProcessButton, Toggle
        <4>. QED
          BY <4>1, TimesTyped DEF Left
      <3>. QED
        BY <3>1, <3>2
    <2>3. CASE UpdateLed
      BY <2>3 DEF UpdateLed, Left
    <2>4. CASE UpdateScreen
      BY <2>4 DEF UpdateScreen, Left
    <2>. QED
      BY <2>1, <2>2, <2>3, <2>4
  <1>4. \A s \in heard : temp'[s] = temp[s] /\ age'[s] <= age[s] + 0
    BY <1>1 DEF NetInv, NetTypeOK, DongleOK, DongleTypeOK
  <1>. QED
    BY <1>2, <1>3, <1>4, Waits, TimesTyped

LEMMA WaitsHold ==
  ASSUME DongleOK, DongleOK', NetInv, DongleStep, UNCHANGED <<radioQ, heard>>, Hold
  PROVE  QueueInTime' /\ AgeInCycles'
  <1>1. /\ pc = "hold" /\ UNCHANGED temp
        /\ sinceToggle \in Nat /\ sinceToggle < HOLD_MS + POLL_MS
    BY DEF Hold, readingVars, DongleOK, DongleTypeOK, TimeInv, WithinLimits
  <1>2. Left = BUTTON_MAX - sinceToggle
    BY <1>1 DEF Left
  <1>3. CASE Since(millis, lastPressedMs) < HOLD_MS /\ pressed
    <2>1. Elapse(POLL_MS, {}) /\ pc' = "hold"
      BY <1>1, <1>3 DEF Hold
    <2>2. sinceToggle < HOLD_MS
      BY <1>1, <1>3 DEF DongleOK, TimeInv, ClocksAgree
    <2>3. sinceToggle' = sinceToggle + POLL_MS
      BY <2>1, <2>2, <1>1, TimesTyped DEF Elapse, Capped
    <2>4. Left' = BUTTON_MAX - sinceToggle'
      BY <2>1 DEF Left
    <2>5. Left' + POLL_MS <= Left
      BY <1>1, <1>2, <2>3, <2>4, TimesTyped
    <2>6. \A s \in heard : temp'[s] = temp[s] /\ age'[s] <= age[s] + POLL_MS
      BY <1>1, <2>1, ElapseAges, TimesTyped DEF NetInv, NetTypeOK, DongleOK
    <2>7. POLL_MS \in Nat /\ POLL_MS < MILLIS_RANGE /\ millis' = After(millis, POLL_MS)
      BY <2>1, TimesTyped DEF Elapse
    <2>. QED
      BY <2>5, <2>6, <2>7, Waits
  <1>4. CASE ~(Since(millis, lastPressedMs) < HOLD_MS /\ pressed)
    <2>1. Elapse(DEBOUNCE_MS, {}) /\ pc' = "updateLed"
      BY <1>1, <1>4 DEF Hold
    <2>2. Left' = 0
      BY <2>1 DEF Left
    <2>3. Left' + DEBOUNCE_MS <= Left
      BY <1>1, <1>2, <2>2, TimesTyped
    <2>4. \A s \in heard : temp'[s] = temp[s] /\ age'[s] <= age[s] + DEBOUNCE_MS
      BY <1>1, <2>1, ElapseAges, TimesTyped DEF NetInv, NetTypeOK, DongleOK
    <2>5. DEBOUNCE_MS \in Nat /\ DEBOUNCE_MS < MILLIS_RANGE
            /\ millis' = After(millis, DEBOUNCE_MS)
      BY <2>1, TimesTyped DEF Elapse
    <2>. QED
      BY <2>3, <2>4, <2>5, Waits
  <1>. QED
    BY <1>3, <1>4

LEMMA WaitsDelay ==
  ASSUME DongleOK, DongleOK', NetInv, DongleStep, UNCHANGED <<radioQ, heard>>, Delay
  PROVE  QueueInTime' /\ AgeInCycles'
  <1>1. PICK cpu \in 0..CPU_MS : Elapse(DELAY_MS + cpu, {})
    BY DEF Delay
  <1>2. /\ cpu \in Nat /\ cpu <= CPU_MS /\ DELAY_MS + cpu \in Nat
        /\ DELAY_MS + cpu < MILLIS_RANGE /\ UNCHANGED temp
    BY TimesTyped DEF Delay, readingVars
  <1>3. Left = TAKE_MAX /\ Left' = BUTTON_MAX
    BY DEF Delay, Left
  <1>4. Left' + (DELAY_MS + cpu) <= Left
    BY <1>2, <1>3, NetTimes, TimesTyped
  <1>5. \A s \in heard : temp'[s] = temp[s] /\ age'[s] <= age[s] + (DELAY_MS + cpu)
    BY <1>1, <1>2, ElapseAges DEF NetInv, NetTypeOK, DongleOK
  <1>6. millis' = After(millis, DELAY_MS + cpu)
    BY <1>1 DEF Elapse
  <1>. QED
    BY <1>2, <1>4, <1>5, <1>6, Waits

\* What processReceiver() does to ages, whether or not it finds a packet.
LEMMA ReceiverTimes ==
  ASSUME DongleOK, ProcessReceiver
  PROVE  \E wait \in 0..RX_WAIT_MS, new \in SUBSET Sites : Elapse(wait, new)
  <1>1. PICK wait \in 0..RX_WAIT_MS :
          \/ UNCHANGED readingVars /\ Elapse(wait, {})
          \/ \E s \in Sites, t \in Temps : Store(s, t, After(millis, wait)) /\ Elapse(wait, {s})
    BY DEF ProcessReceiver
  <1>2. \E new \in SUBSET Sites : Elapse(wait, new)
    <2>1. CASE UNCHANGED readingVars /\ Elapse(wait, {})
      BY <2>1
    <2>2. ASSUME NEW s \in Sites, Elapse(wait, {s})
          PROVE  \E new \in SUBSET Sites : Elapse(wait, new)
      <3>1. {s} \in SUBSET Sites
        OBVIOUS
      <3>. QED
        BY <2>2, <3>1
    <2>. QED
      BY <1>1, <2>1, <2>2
  <1>. QED
    BY <1>2

LEMMA WaitsEmpty ==
  ASSUME DongleOK, DongleOK', NetInv, DongleStep, ProcessReceiver, radioQ = <<>>,
         readingVars' = readingVars, UNCHANGED <<radioQ, heard>>
  PROVE  QueueInTime' /\ AgeInCycles'
  <1>1. QueueInTime'
    <2>1. 1..Len(radioQ') = {}
      BY EmptySeq
    <2>. QED
      BY <2>1 DEF QueueInTime
  <1>2. PICK wait \in 0..RX_WAIT_MS, new \in SUBSET Sites : Elapse(wait, new)
    BY ReceiverTimes
  <1>3. wait \in Nat /\ wait < MILLIS_RANGE /\ millis' = After(millis, wait)
    BY <1>2, TimesTyped DEF Elapse
  <1>4. UNCHANGED missed /\ \A s \in Sites : sinceSent'[s] = sinceSent[s] + wait
    BY <1>3, TimePassed DEF DongleStep, DongleOK
  <1>5. ASSUME NEW s \in heard
        PROVE  /\ temp'[s] # NO_TEMP
               /\ ~Queued(s)' => age'[s] <= missed'[s] * CYCLE_MS + sinceSent'[s]
               /\ Queued(s)' => age'[s] <= (MAX_MISSED + 1) * CYCLE_MS + sinceSent'[s]
    <2>1. /\ s \in Sites /\ sinceSent[s] \in Nat /\ missed[s] \in 0..MAX_MISSED
          /\ age[s] \in Nat /\ age'[s] \in Nat
      BY SensorTyped DEF NetInv, NetTypeOK, DongleOK, DongleTypeOK
    <2>2. 1..Len(radioQ) = {}
      BY EmptySeq
    <2>3. ~Queued(s) /\ ~Queued(s)'
      BY <2>2 DEF Queued
    <2>4. temp[s] # NO_TEMP /\ age[s] <= missed[s] * CYCLE_MS + sinceSent[s]
      BY <2>3 DEF NetInv, AgeInCycles
    <2>5. age'[s] <= age[s] + wait
      BY <1>2, <1>3, <2>1, ElapseAges DEF DongleOK
    <2>6. missed[s] * CYCLE_MS \in Nat
      BY <2>1, Cycles
    <2>7. UNCHANGED temp
      BY DEF readingVars
    <2>8. age'[s] <= missed'[s] * CYCLE_MS + sinceSent'[s]
      BY <1>3, <1>4, <2>1, <2>4, <2>5, <2>6
    <2>. QED
      BY <2>3, <2>4, <2>7, <2>8
  <1>6. heard' = heard
    OBVIOUS
  <1>. QED
    BY <1>1, <1>5, <1>6 DEF AgeInCycles

\* A call that finds a packet takes no time and touches one sensor's reading.
LEMMA TakeIsQuick ==
  ASSUME DongleOK, DongleOK', ProcessReceiver, UNCHANGED millis,
         NEW h \in Sites, NEW t \in Temps, Store(h, t, millis)
  PROVE  /\ temp'[h] # NO_TEMP /\ age'[h] = 0
         /\ \A s \in Sites \ {h} : temp'[s] = temp[s] /\ age'[s] <= age[s]
  <1>1. millis \in Millis
    BY DEF DongleOK, DongleTypeOK
  <1>2. temp'[h] = t /\ lastRcvd'[h] = millis
    BY DEF Store, DongleOK, DongleTypeOK
  <1>3. t # NO_TEMP
    BY DongleAssumption
  <1>4. Since(millis', lastRcvd'[h]) = age'[h]
    BY <1>2, <1>3 DEF DongleOK, TimeInv, ClocksAgree
  <1>5. PICK wait \in 0..RX_WAIT_MS, new \in SUBSET Sites : Elapse(wait, new)
    BY ReceiverTimes
  <1>6. wait \in Nat /\ wait < MILLIS_RANGE /\ millis' = After(millis, wait)
    <2>1. millis' = After(millis, wait)
      BY <1>5 DEF Elapse
    <2>2. wait \in Nat /\ wait < MILLIS_RANGE
      BY TimesTyped
    <2>. QED
      BY <2>1, <2>2
  <1>7. wait = 0
    BY <1>1, <1>6, TimesTyped DEF After, Millis
  <1>8. \A s \in Sites \ {h} : temp'[s] = temp[s]
    BY DEF Store, DongleOK, DongleTypeOK
  <1>9. ASSUME NEW s \in Sites PROVE age'[s] <= age[s]
    <2>1. age[s] \in Nat /\ age'[s] \in Nat
      BY DEF DongleOK, DongleTypeOK
    <2>2. age'[s] <= age[s] + 0
      BY <1>5, <1>6, <1>7, ElapseAges DEF DongleOK
    <2>. QED
      BY <2>1, <2>2
  <1>. QED
    BY <1>1, <1>2, <1>3, <1>4, <1>8, <1>9, SinceTyped

LEMMA WaitsTake ==
  ASSUME DongleOK, DongleOK', NetInv, DongleStep, ProcessReceiver, UNCHANGED millis,
         radioQ # <<>>, radioQ' = Tail(radioQ), heard' = heard \union {Head(radioQ)},
         NEW t \in Temps, Store(Head(radioQ), t, millis)
  PROVE  QueueInTime' /\ AgeInCycles'
  <1>1. /\ Head(radioQ) \in Sites /\ Len(radioQ) \in Nat \ {0}
        /\ Head(radioQ) = radioQ[1] /\ Len(Tail(radioQ)) = Len(radioQ) - 1
        /\ \A i \in 1..Len(Tail(radioQ)) : Tail(radioQ)[i] = radioQ[i + 1]
    <2>1. radioQ \in Seq(Sites)
      BY DEF NetInv, NetTypeOK
    <2>2. Head(radioQ) \in Sites /\ Len(Tail(radioQ)) = Len(radioQ) - 1
            /\ \A i \in 1..Len(Tail(radioQ)) : Tail(radioQ)[i] = radioQ[i + 1]
      BY <2>1, HeadTailProperties
    <2>3. Len(radioQ) \in Nat \ {0}
      BY <2>1, EmptySeq, LenProperties
    <2>4. Head(radioQ) = radioQ[1]
      BY <2>1, <2>3
    <2>. QED
      BY <2>2, <2>3, <2>4
  <1>2. PICK h \in Sites : h = Head(radioQ)
    BY <1>1
  <1>3. /\ temp'[h] # NO_TEMP /\ age'[h] = 0
        /\ \A s \in Sites \ {h} : temp'[s] = temp[s] /\ age'[s] <= age[s]
    BY <1>2, TakeIsQuick
  <1>4. UNCHANGED missed /\ \A s \in Sites : sinceSent'[s] = sinceSent[s]
    <2>1. Since(millis', millis) = 0
      BY SinceTyped DEF DongleOK, DongleTypeOK
    <2>. QED
      BY <2>1, SensorTyped DEF DongleStep, NetInv
  <1>5. /\ \A i \in 1..Len(radioQ') : i + 1 \in 1..Len(radioQ) /\ radioQ'[i] = radioQ[i + 1]
        /\ \A i \in 1..Len(radioQ') : i \in Nat \ {0}
    BY <1>1
  <1>6. \A i, j \in 1..Len(radioQ) : radioQ[i] = radioQ[j] => i = j
    BY DEF NetInv, QueueInTime
  <1>7. QueueInTime'
    <2>1. ASSUME NEW i \in 1..Len(radioQ'), NEW j \in 1..Len(radioQ'), radioQ'[i] = radioQ'[j]
          PROVE  i = j
      <3>1. i + 1 = j + 1
        BY <1>5, <1>6, <2>1
      <3>. QED
        BY <3>1
    <2>2. ASSUME NEW i \in 1..Len(radioQ')
          PROVE  sinceSent'[radioQ'[i]] + Left' + (i - 1) * TAKE_MAX <= WAIT_MAX
      <3>1. PICK s \in Sites : s = radioQ'[i] /\ s = radioQ[i + 1]
        <4>1. radioQ[i + 1] \in Sites
          BY <1>5, ElementOfSeq DEF NetInv, NetTypeOK
        <4>. QED
          BY <4>1, <1>5
      <3>2. PICK p \in Nat : p = (i - 1) * TAKE_MAX /\ ((i + 1) - 1) * TAKE_MAX = p + TAKE_MAX
        BY <1>5, Places
      <3>3. Left = 0 /\ Left' = TAKE_MAX
        BY DEF ProcessReceiver, Left
      <3>4. sinceSent[s] + Left + ((i + 1) - 1) * TAKE_MAX <= WAIT_MAX
        BY <1>5, <3>1 DEF NetInv, QueueInTime
      <3>5. sinceSent[s] \in Nat /\ TAKE_MAX \in Nat /\ WAIT_MAX \in Nat
        BY SensorTyped, NetTimes DEF NetInv
      <3>6. sinceSent[s] + TAKE_MAX + p <= WAIT_MAX
        BY <3>2, <3>3, <3>4, <3>5
      <3>. QED
        BY <1>4, <3>1, <3>2, <3>3, <3>6
    <2>. QED
      BY <2>1, <2>2 DEF QueueInTime
  <1>8. AgeInCycles'
    <2> SUFFICES ASSUME NEW s \in heard'
                 PROVE  /\ temp'[s] # NO_TEMP
                        /\ ~Queued(s)' => age'[s] <= missed'[s] * CYCLE_MS + sinceSent'[s]
                        /\ Queued(s)' => age'[s] <= (MAX_MISSED + 1) * CYCLE_MS + sinceSent'[s]
      BY DEF AgeInCycles
    <2>1. /\ s \in Sites /\ sinceSent[s] \in Nat /\ missed[s] \in 0..MAX_MISSED
          /\ age[s] \in Nat /\ age'[s] \in Nat
      BY <1>1, SensorTyped DEF NetInv, NetTypeOK, DongleOK, DongleTypeOK
    <2>2. missed[s] * CYCLE_MS \in Nat /\ (MAX_MISSED + 1) * CYCLE_MS \in Nat
      BY <2>1, Cycles
    <2>3. CASE s = h
      BY <1>3, <1>4, <2>1, <2>2, <2>3
    <2>4. CASE s # h
      <3>1. s \in heard
        BY <1>2, <2>4
      <3>2. Queued(s)' <=> Queued(s)
        <4>1. ASSUME Queued(s)' PROVE Queued(s)
          <5>1. PICK i \in 1..Len(radioQ') : radioQ'[i] = s
            BY <4>1 DEF Queued
          <5>. QED
            BY <5>1, <1>5 DEF Queued
        <4>2. ASSUME Queued(s) PROVE Queued(s)'
          <5>1. PICK i \in 1..Len(radioQ) : radioQ[i] = s
            BY <4>2 DEF Queued
          <5>2. i # 1
            BY <5>1, <2>4, <1>1, <1>2
          <5>3. i - 1 \in 1..Len(radioQ') /\ (i - 1) + 1 = i
            BY <5>2, <1>1
          <5>. QED
            BY <5>1, <5>3, <1>5 DEF Queued
        <4>. QED
          BY <4>1, <4>2
      <3>3. temp'[s] = temp[s] /\ age'[s] <= age[s]
        BY <1>3, <2>1, <2>4
      <3>4. /\ temp[s] # NO_TEMP
            /\ ~Queued(s) => age[s] <= missed[s] * CYCLE_MS + sinceSent[s]
            /\ Queued(s) => age[s] <= (MAX_MISSED + 1) * CYCLE_MS + sinceSent[s]
        BY <3>1 DEF NetInv, AgeInCycles
      <3>. QED
        BY <1>4, <2>1, <2>2, <3>2, <3>3, <3>4
    <2>. QED
      BY <2>3, <2>4
  <1>. QED
    BY <1>7, <1>8

-----------------------------------------------------------------------------
(* The steps of the sensors.                                               *)

\* A sensor whose packet is due has none in the queue, so that there is room.
LEMMA RoomForDue ==
  ASSUME NetInv, Left \in Nat, NEW s \in Sites, Due(s)
  PROVE  ~Queued(s) /\ Len(radioQ) < Cardinality(Sites)
  <1>1. ASSUME Queued(s) PROVE FALSE
    <2>1. PICK i \in 1..Len(radioQ) : radioQ[i] = s
      BY <1>1 DEF Queued
    <2>2. i \in Nat \ {0}
      BY LenProperties DEF NetInv, NetTypeOK
    <2>3. PICK p \in Nat : p = (i - 1) * TAKE_MAX
      BY <2>2, Places
    <2>4. sinceSent[s] + Left + p <= WAIT_MAX
      BY <2>1, <2>3 DEF NetInv, QueueInTime
    <2>5. sinceSent[s] >= SLEEP_MS /\ sinceSent[s] \in Nat
      BY SensorTyped DEF Due, NetInv
    <2>. QED
      BY <2>4, <2>5, NetTimes
  <1>2. Len(radioQ) < Cardinality(Sites)
    <2> DEFINE I == 1..Len(radioQ)
               O == Sites \ {s}
               f == [i \in I |-> radioQ[i]]
    <2>1. Len(radioQ) \in Nat /\ radioQ \in Seq(Sites)
      BY LenProperties DEF NetInv, NetTypeOK
    <2>2. IsFiniteSet(I) /\ Cardinality(I) = Len(radioQ)
      <3>1. IsFiniteSet(I) /\ Cardinality(I) = IF 1 > Len(radioQ) THEN 0 ELSE Len(radioQ) - 1 + 1
        BY <2>1, FS_Interval
      <3>. QED
        BY <3>1, <2>1
    <2>3. IsFiniteSet(O) /\ Cardinality(O) = Cardinality(Sites) - 1
      BY NetworkAssumption, FS_RemoveElement
    <2>4. \A i \in I : radioQ[i] \in O
      BY <1>1, <2>1, ElementOfSeq DEF Queued
    <2>5. \A i, j \in I : radioQ[i] = radioQ[j] => i = j
      BY DEF NetInv, QueueInTime
    <2>6. f \in Injection(I, O)
      BY <2>4, <2>5 DEF Injection, IsInjective
    <2>7. Cardinality(I) <= Cardinality(O)
      BY <2>2, <2>3, <2>6, FS_Injection
    <2>. QED
      BY <2>1, <2>2, <2>3, <2>7, NetTimes
  <1>. QED
    BY <1>1, <1>2

LEMMA StepSend ==
  ASSUME DongleOK, NetInv, NEW s \in Sites, SendPacket(s)
  PROVE  NetInv'
  <1>1. /\ UNCHANGED <<pc, sinceToggle, temp, age, heard>>
    BY DEF SendPacket, dongleVars, clockVars, readingVars
  <1>2. Left' = Left /\ Left \in Nat /\ Left <= TAKE_MAX
    BY <1>1, LeftTyped DEF Left, DongleOK, TimeInv
  <1>3. ~Queued(s) /\ Len(radioQ) < Cardinality(Sites) /\ Len(radioQ) < QUEUE_SIZE
    BY <1>2, RoomForDue, NetworkAssumption, NetTimes, LenProperties
       DEF SendPacket, NetInv, NetTypeOK
  <1>4. /\ radioQ \in Seq(Sites) /\ Len(radioQ) \in Nat /\ heard \subseteq Sites
        /\ missed \in [Sites -> 0..MAX_MISSED] /\ sinceSent \in [Sites -> 0..CYCLE_MS]
    BY LenProperties DEF NetInv, NetTypeOK
  <1>5. /\ sinceSent' \in [Sites -> 0..CYCLE_MS] /\ sinceSent'[s] = 0
        /\ \A r \in Sites \ {s} : sinceSent'[r] = sinceSent[r]
    BY <1>4, NetTimes DEF SendPacket
  <1>6. \A r \in Sites : ~Queued(r) /\ r \in heard =>
          temp[r] # NO_TEMP /\ age[r] <= missed[r] * CYCLE_MS + sinceSent[r]
    BY DEF NetInv, AgeInCycles
  <1>7. \A r \in heard : /\ temp[r] # NO_TEMP
                         /\ Queued(r) => age[r] <= (MAX_MISSED + 1) * CYCLE_MS + sinceSent[r]
    BY DEF NetInv, AgeInCycles
  \* The age of the sender's own reading, at most one cycle more than it missed.
  <1>8. ASSUME s \in heard
        PROVE  /\ age[s] \in Nat /\ missed[s] \in 0..MAX_MISSED
               /\ age[s] <= (missed[s] + 1) * CYCLE_MS
               /\ age[s] <= (MAX_MISSED + 1) * CYCLE_MS
    <2>1. /\ age[s] \in Nat /\ missed[s] \in 0..MAX_MISSED
          /\ sinceSent[s] \in Nat /\ sinceSent[s] <= CYCLE_MS
      BY SensorTyped DEF DongleOK, DongleTypeOK, NetInv
    <2>2. PICK m \in Nat : m = missed[s] * CYCLE_MS /\ (missed[s] + 1) * CYCLE_MS = m + CYCLE_MS
      BY <2>1, Cycles
    <2>3. age[s] <= m + sinceSent[s]
      BY <1>3, <1>6, <1>8, <2>2
    <2>4. age[s] <= m + CYCLE_MS
      BY <2>1, <2>3, NetTimes
    <2>5. /\ m + CYCLE_MS <= (MAX_MISSED + 1) * CYCLE_MS
          /\ (MAX_MISSED + 1) * CYCLE_MS \in Nat
      BY <2>1, <2>2, Cycles
    <2>. QED
      BY <2>1, <2>2, <2>4, <2>5, NetTimes
  <1>9. CASE radioQ' = Append(radioQ, s) /\ missed' = [missed EXCEPT ![s] = 0]
    <2>1. /\ radioQ' \in Seq(Sites) /\ Len(radioQ') = Len(radioQ) + 1
          /\ radioQ'[Len(radioQ) + 1] = s
          /\ \A i \in 1..Len(radioQ) : radioQ'[i] = radioQ[i]
      BY <1>4, <1>9, AppendProperties
    <2>2. NetTypeOK'
      <3>1. missed' \in [Sites -> 0..MAX_MISSED]
        BY <1>4, <1>9, NetTimes
      <3>. QED
        BY <1>1, <1>4, <1>5, <2>1, <3>1 DEF NetTypeOK
    <2>3. \A i \in 1..Len(radioQ') : i \in 1..Len(radioQ) \/ i = Len(radioQ) + 1
      BY <1>4, <2>1
    <2>4. \A i \in 1..Len(radioQ) : radioQ[i] # s /\ radioQ[i] \in Sites
      BY <1>3, <1>4, ElementOfSeq DEF Queued
    <2>5. \A i, j \in 1..Len(radioQ') : radioQ'[i] = radioQ'[j] => i = j
      <3>1. \A i, j \in 1..Len(radioQ) : radioQ[i] = radioQ[j] => i = j
        BY DEF NetInv, QueueInTime
      <3>. QED
        BY <2>1, <2>3, <2>4, <3>1
    <2>6. ASSUME NEW i \in 1..Len(radioQ')
          PROVE  sinceSent'[radioQ'[i]] + Left' + (i - 1) * TAKE_MAX <= WAIT_MAX
      <3>1. CASE i \in 1..Len(radioQ)
        <4>1. sinceSent[radioQ[i]] + Left + (i - 1) * TAKE_MAX <= WAIT_MAX
          BY <3>1 DEF NetInv, QueueInTime
        <4>. QED
          BY <1>2, <1>5, <2>1, <2>4, <3>1, <4>1
      <3>2. CASE i = Len(radioQ) + 1
        <4>1. i \in Nat \ {0} /\ i <= Cardinality(Sites)
          BY <1>3, <1>4, <3>2, NetTimes
        <4>2. PICK p \in Nat : p = (i - 1) * TAKE_MAX /\ p + TAKE_MAX <= WAIT_MAX
          BY <4>1, Places
        <4>3. sinceSent'[radioQ'[i]] = 0
          BY <1>5, <2>1, <3>2
        <4>4. 0 + Left + p <= WAIT_MAX
          BY <1>2, <4>2, NetTimes
        <4>. QED
          BY <1>2, <4>2, <4>3, <4>4
      <3>. QED
        BY <2>3, <3>1, <3>2
    <2>7. /\ \A r \in Sites : Queued(r) => Queued(r)'
          /\ \A r \in Sites \ {s} : Queued(r)' => Queued(r)
          /\ Queued(s)'
      <3>1. \A i \in 1..Len(radioQ) : i \in 1..Len(radioQ')
        BY <1>4, <2>1
      <3>2. Len(radioQ) + 1 \in 1..Len(radioQ')
        BY <1>4, <2>1
      <3>. QED
        BY <2>1, <2>3, <3>1, <3>2 DEF Queued
    <2>8. ASSUME NEW r \in heard'
          PROVE  /\ temp'[r] # NO_TEMP
                 /\ ~Queued(r)' => age'[r] <= missed'[r] * CYCLE_MS + sinceSent'[r]
                 /\ Queued(r)' => age'[r] <= (MAX_MISSED + 1) * CYCLE_MS + sinceSent'[r]
      <3>1. r \in heard /\ r \in Sites
        BY <1>1, <1>4
      <3>2. CASE r = s
        <4>1. (MAX_MISSED + 1) * CYCLE_MS \in Nat
          BY <1>8, <3>1, <3>2, Cycles
        <4>. QED
          BY <1>1, <1>5, <1>7, <1>8, <2>7, <3>1, <3>2, <4>1
      <3>3. CASE r # s
        <4>1. missed'[r] = missed[r] /\ sinceSent'[r] = sinceSent[r]
          BY <1>4, <1>5, <1>9, <3>1, <3>3
        <4>. QED
          BY <1>1, <1>6, <1>7, <2>7, <3>1, <3>3, <4>1
      <3>. QED
        BY <3>2, <3>3
    <2>. QED
      BY <2>2, <2>5, <2>6, <2>8 DEF NetInv, QueueInTime, AgeInCycles
  <1>10. CASE missed[s] < MAX_MISSED /\ missed' = [missed EXCEPT ![s] = @ + 1] /\ UNCHANGED radioQ
    <2>1. \A r \in Sites : Queued(r)' <=> Queued(r)
      BY <1>10 DEF Queued
    <2>2. /\ missed'[s] = missed[s] + 1 /\ missed' \in [Sites -> 0..MAX_MISSED]
          /\ \A r \in Sites \ {s} : missed'[r] = missed[r]
      BY <1>4, <1>10, NetTimes
    <2>3. NetTypeOK'
      BY <1>1, <1>4, <1>5, <1>10, <2>2 DEF NetTypeOK
    <2>4. QueueInTime'
      <3>1. \A i \in 1..Len(radioQ) : radioQ[i] # s /\ radioQ[i] \in Sites
        BY <1>3, <1>4, ElementOfSeq DEF Queued
      <3>2. \A i \in 1..Len(radioQ) : sinceSent'[radioQ[i]] = sinceSent[radioQ[i]]
        BY <1>5, <3>1
      <3>. QED
        BY <1>2, <1>10, <3>2 DEF NetInv, QueueInTime
    <2>5. ASSUME NEW r \in heard'
          PROVE  /\ temp'[r] # NO_TEMP
                 /\ ~Queued(r)' => age'[r] <= missed'[r] * CYCLE_MS + sinceSent'[r]
                 /\ Queued(r)' => age'[r] <= (MAX_MISSED + 1) * CYCLE_MS + sinceSent'[r]
      <3>1. r \in heard /\ r \in Sites
        BY <1>1, <1>4
      <3>2. CASE r = s
        <4>1. (missed[s] + 1) * CYCLE_MS \in Nat
          BY <1>8, <2>2, <3>1, <3>2, Cycles, NetTimes
        <4>. QED
          BY <1>1, <1>3, <1>5, <1>7, <1>8, <2>1, <2>2, <3>1, <3>2, <4>1
      <3>3. CASE r # s
        BY <1>1, <1>5, <1>6, <1>7, <2>1, <2>2, <3>1, <3>3
      <3>. QED
        BY <3>2, <3>3
    <2>. QED
      BY <2>3, <2>4, <2>5 DEF NetInv, AgeInCycles
  <1>. QED
    BY <1>3, <1>4, <1>9, <1>10, NetTimes DEF SendPacket

-----------------------------------------------------------------------------
(* The composition.                                                        *)

\* A step of the composition is one of the dongle, or none.
LEMMA NetRefines == [NetNext]_<<dongleVars, netVars>> => [Next]_dongleVars
  <1> SUFFICES ASSUME [NetNext]_<<dongleVars, netVars>> PROVE [Next]_dongleVars
    OBVIOUS
  <1>1. CASE DongleStep
    BY <1>1 DEF DongleStep, Receive, OtherCalls, Next, MainLoop
  <1>2. CASE PressOrRelease
    BY <1>2 DEF Next
  <1>3. CASE \E s \in Sites : SendPacket(s)
    BY <1>3 DEF SendPacket
  <1>. QED
    BY <1>1, <1>2, <1>3 DEF NetNext

LEMMA StepDongle ==
  ASSUME DongleOK, DongleOK', NetInv, DongleStep
  PROVE  NetInv'
  <1>1. NetTypeOK'
    <2>1. ASSUME NEW s \in Sites PROVE sinceSent'[s] \in 0..CYCLE_MS
      <3>1. sinceSent'[s] = sinceSent[s] + Since(millis', millis) /\ sinceSent'[s] <= CYCLE_MS
        BY <2>1 DEF DongleStep
      <3>2. sinceSent[s] \in Nat /\ Since(millis', millis) \in Nat
        BY SensorTyped, SinceTyped DEF NetInv, DongleOK, DongleTypeOK
      <3>. QED
        BY <3>1, <3>2, NetTimes
    <2>2. sinceSent' \in [Sites -> 0..CYCLE_MS]
      BY <2>1 DEF DongleStep
    <2>3. radioQ \in Seq(Sites) /\ heard \subseteq Sites /\ missed \in [Sites -> 0..MAX_MISSED]
      BY DEF NetInv, NetTypeOK
    <2>4. CASE UNCHANGED <<radioQ, heard>>
      BY <2>2, <2>3, <2>4 DEF DongleStep, NetTypeOK
    <2>5. CASE radioQ # <<>> /\ radioQ' = Tail(radioQ) /\ heard' = heard \union {Head(radioQ)}
      <3>1. Tail(radioQ) \in Seq(Sites) /\ Head(radioQ) \in Sites
        BY <2>3, <2>5, HeadTailProperties
      <3>. QED
        BY <2>2, <2>3, <2>5, <3>1 DEF DongleStep, NetTypeOK
    <2>. QED
      BY <2>4, <2>5 DEF DongleStep, Receive, OtherCalls
  <1>2. QueueInTime' /\ AgeInCycles'
    <2>1. CASE Receive
      <3>1. CASE radioQ = <<>> /\ readingVars' = readingVars /\ UNCHANGED <<radioQ, heard>>
        BY <2>1, <3>1, WaitsEmpty DEF Receive
      <3>2. ASSUME radioQ # <<>>, radioQ' = Tail(radioQ), UNCHANGED millis,
                   heard' = heard \union {Head(radioQ)},
                   NEW t \in Temps, Store(Head(radioQ), t, millis)
            PROVE  QueueInTime' /\ AgeInCycles'
        BY <2>1, <3>2, WaitsTake DEF Receive
      <3>. QED
        BY <2>1, <3>1, <3>2 DEF Receive
    <2>2. CASE OtherCalls
      BY <2>2, WaitsUpdateTemp, WaitsUnmoved, WaitsHold, WaitsDelay DEF OtherCalls
    <2>. QED
      BY <2>1, <2>2 DEF DongleStep
  <1>. QED
    BY <1>1, <1>2 DEF NetInv

LEMMA NetStep ==
  DongleOK /\ DongleOK' /\ NetInv /\ [NetNext]_<<dongleVars, netVars>> => NetInv'
  <1> SUFFICES ASSUME DongleOK, DongleOK', NetInv, [NetNext]_<<dongleVars, netVars>>
               PROVE  NetInv'
    OBVIOUS
  <1>1. CASE (PressOrRelease /\ UNCHANGED netVars) \/ UNCHANGED <<dongleVars, netVars>>
    <2>1. UNCHANGED <<pc, sinceToggle, temp, age, radioQ, heard, sinceSent, missed>>
      BY <1>1 DEF PressOrRelease, dongleVars, netVars, clockVars, readingVars
    <2>2. Left' = Left
      BY <2>1 DEF Left
    <2>. QED
      BY <2>1, <2>2 DEF NetInv, NetTypeOK, QueueInTime, AgeInCycles, Queued
  <1>. QED
    BY <1>1, StepDongle, StepSend DEF NetNext

LEMMA NetStart == NetInit => NetInv
  <1> SUFFICES ASSUME NetInit PROVE NetInv
    OBVIOUS
  <1>1. radioQ = <<>> /\ heard = {}
        /\ sinceSent = [s \in Sites |-> 0] /\ missed = [s \in Sites |-> 0]
    BY DEF NetInit
  <1>2. NetTypeOK
    BY <1>1, NetTimes DEF NetTypeOK
  <1>3. 1..Len(radioQ) = {}
    BY <1>1, EmptySeq
  <1>. QED
    BY <1>1, <1>2, <1>3 DEF NetInv, QueueInTime, AgeInCycles

\* The dongle keeps in the composition what it keeps alone.
LEMMA NetDongle == NetSpec => []DongleOK
  <1>1. NetInit => DongleOK
    BY TypeInit, TimeInit DEF NetInit, DongleOK
  <1>2. DongleOK /\ [NetNext]_<<dongleVars, netVars>> => DongleOK'
    BY NetRefines, TypeStep, TimeStep DEF DongleOK
  <1>. QED
    BY <1>1, <1>2, PTL DEF NetSpec

\* The queue never holds a packet for longer than WAIT_MAX, and the age of a reading
\* is bounded by the packets its sensor has lost.
THEOREM NetInvariant == NetSpec => []NetInv
  BY NetDongle, NetStart, NetStep, PTL DEF NetSpec

\* A sensor that goes on sending is never shown as unknown, with any number of
\* sensors, if MAX_MISSED lost packets in a row and the waiting fit in the life time.
THEOREM WorkingStaysKnown == NetSpec => []WorkingIsKnown
  <1>1. NetInv => WorkingIsKnown
    BY DEF NetInv, AgeInCycles, WorkingIsKnown
  <1>. QED
    BY <1>1, NetInvariant, PTL


\* The composition implements the dongle: with real sensors, a real queue and packets
\* taken from it, every step is one the dongle alone may take, so that whatever is
\* proved of Spec (fresh numbers, alarms in time, one toggle a press) holds of NetSpec.
THEOREM NetImplementsDongle == NetSpec => Spec
  <1>1. NetInit => Init
    BY DEF NetInit
  <1>. QED
    BY <1>1, NetRefines, PTL DEF NetSpec, Spec
=============================================================================
