-------------------------- MODULE HistoryLogProofs --------------------------
(* What the history array holds, for every size and every set of readings. *)
EXTENDS HistoryLog, TempHistoryProofs

LEMMA LogTypeInit == LogInit => LogTypeOK
  <1> SUFFICES ASSUME LogInit PROVE LogTypeOK
    OBVIOUS
  <1>1. \A i \in 1..HISTORY_SIZE : NO_TEMP \in Temps \union {NO_TEMP}
    OBVIOUS
  <1>2. history \in Seq(Temps \union {NO_TEMP}) /\ Len(history) = HISTORY_SIZE
    BY HistoryAssumption DEF LogInit, ResetHistory
  <1>3. readings \in Seq(Temps)
    BY EmptySeq DEF LogInit
  <1>. QED  BY <1>2, <1>3 DEF LogTypeOK

LEMMA LogTypeStep == LogTypeOK /\ [LogNext]_logVars => LogTypeOK'
  <1> SUFFICES ASSUME LogTypeOK, [LogNext]_logVars PROVE LogTypeOK'
    OBVIOUS
  <1>1. ASSUME NEW t \in Temps, Reading(t)
        PROVE  LogTypeOK'
    <2>1. history # <<>>
      BY HistoryAssumption DEF LogTypeOK
    <2>2. /\ Tail(history) \in Seq(Temps \union {NO_TEMP})
          /\ Len(Tail(history)) = HISTORY_SIZE - 1
      BY <2>1, HeadTailProperties DEF LogTypeOK
    <2>3. /\ Append(Tail(history), t) \in Seq(Temps \union {NO_TEMP})
          /\ Len(Append(Tail(history), t)) = HISTORY_SIZE
      BY <2>2, HistoryAssumption, AppendProperties
    <2>4. readings' \in Seq(Temps)
      BY <1>1, AppendProperties DEF Reading, LogTypeOK
    <2>. QED  BY <1>1, <2>3, <2>4 DEF Reading, AddToHistory, LogTypeOK
  <1>2. CASE UNCHANGED logVars
    BY <1>2 DEF logVars, LogTypeOK
  <1>. QED  BY <1>1, <1>2 DEF LogNext

LEMMA LogHoldsStep ==
  ASSUME LogTypeOK, HistoryHoldsLastReadings, NEW t \in Temps, Reading(t)
  PROVE  HistoryHoldsLastReadings'
  <1> DEFINE n == Len(readings)
  <1>1. /\ n \in Nat /\ Len(readings') = n + 1 /\ readings'[n + 1] = t
        /\ \A k \in 1..n : readings'[k] = readings[k]
    BY AppendProperties, LenProperties DEF Reading, LogTypeOK
  <1>2. history \in Seq(Temps \union {NO_TEMP}) /\ history # <<>> /\ Len(history) = HISTORY_SIZE
    BY HistoryAssumption DEF LogTypeOK
  <1>3. /\ Tail(history) \in Seq(Temps \union {NO_TEMP})
        /\ Len(Tail(history)) = HISTORY_SIZE - 1
        /\ \A i \in 1..(HISTORY_SIZE - 1) : Tail(history)[i] = history[i + 1]
    BY <1>2, HeadTailProperties
  <1>4. /\ \A i \in 1..(HISTORY_SIZE - 1) : history'[i] = history[i + 1]
        /\ history'[HISTORY_SIZE] = t
    BY <1>3, HistoryAssumption, AppendProperties DEF Reading, AddToHistory
  <1> HIDE DEF n
  <1>5. ASSUME NEW i \in 1..HISTORY_SIZE
        PROVE  history'[i] = LET k == (n + 1) - (HISTORY_SIZE - i) IN
                             IF k >= 1 THEN readings'[k] ELSE NO_TEMP
    <2>1. CASE i = HISTORY_SIZE
      BY <2>1, <1>1, <1>4, HistoryAssumption
    <2>2. CASE i # HISTORY_SIZE
      <3> DEFINE k == n - (HISTORY_SIZE - (i + 1))
      <3>1. i \in 1..(HISTORY_SIZE - 1) /\ i + 1 \in 1..HISTORY_SIZE
        BY <2>2, HistoryAssumption
      <3>2. history'[i] = IF k >= 1 THEN readings[k] ELSE NO_TEMP
        BY <3>1, <1>4 DEF HistoryHoldsLastReadings, n
      <3>3. k = (n + 1) - (HISTORY_SIZE - i) /\ k \in Int /\ k <= n
        BY <3>1, <1>1, HistoryAssumption
      <3>4. k >= 1 => readings'[k] = readings[k]
        BY <3>3, <1>1
      <3>. QED  BY <3>2, <3>3, <3>4
    <2>. QED  BY <2>1, <2>2
  <1>. QED  BY <1>1, <1>5 DEF HistoryHoldsLastReadings

\* The history is an array of HISTORY_SIZE slots, whatever has been shifted.
THEOREM LogTypeCorrect == LogSpec => []LogTypeOK
  BY LogTypeInit, LogTypeStep, PTL DEF LogSpec

\* The history holds the last HISTORY_SIZE readings in their order.
THEOREM HistoryIsLastReadings == LogSpec => []HistoryHoldsLastReadings
  <1>1. LogInit => HistoryHoldsLastReadings
    BY HistoryAssumption, EmptySeq DEF LogInit, ResetHistory, HistoryHoldsLastReadings
  <1>2. LogTypeOK /\ HistoryHoldsLastReadings /\ [LogNext]_logVars
          => HistoryHoldsLastReadings'
    <2> SUFFICES ASSUME LogTypeOK, HistoryHoldsLastReadings, [LogNext]_logVars
                 PROVE  HistoryHoldsLastReadings'
      OBVIOUS
    <2>1. CASE UNCHANGED logVars
      BY <2>1 DEF logVars, HistoryHoldsLastReadings
    <2>. QED  BY <2>1, LogHoldsStep DEF LogNext
  <1>. QED  BY <1>1, <1>2, LogTypeCorrect, PTL DEF LogSpec

\* What is in the slots that are not empty are the recent readings.
LEMMA SeenIsRecent ==
  ASSUME LogTypeOK, HistoryHoldsLastReadings
  PROVE  LET first == IF Len(readings) > HISTORY_SIZE THEN Len(readings) - HISTORY_SIZE + 1 ELSE 1
         IN  Seen(history, HISTORY_SIZE) = {readings[k] : k \in first..Len(readings)}
  <1> DEFINE n      == Len(readings)
             first  == IF n > HISTORY_SIZE THEN n - HISTORY_SIZE + 1 ELSE 1
             recent == {readings[k] : k \in first..n}
  <1>1. /\ n \in Nat /\ HISTORY_SIZE \in Nat /\ first \in Nat /\ first >= 1
        /\ first > n - HISTORY_SIZE
        /\ \A k \in 1..n : readings[k] \in Temps /\ readings[k] # NO_TEMP
    BY HistoryAssumption, LogAssumption, LenProperties DEF LogTypeOK
  <1>2. ASSUME NEW i \in 1..HISTORY_SIZE
        PROVE  history[i] = IF n - (HISTORY_SIZE - i) >= 1
                            THEN readings[n - (HISTORY_SIZE - i)] ELSE NO_TEMP
    BY DEF HistoryHoldsLastReadings
  <1> HIDE DEF n
  <1>3. ASSUME NEW i \in 1..HISTORY_SIZE, history[i] # NO_TEMP
        PROVE  history[i] \in recent
    <2> DEFINE k == n - (HISTORY_SIZE - i)
    <2>1. history[i] = readings[k] /\ k >= 1
      BY <1>2, <1>3
    <2>2. k \in first..n
      BY <1>1, <2>1
    <2>. QED
      BY <2>1, <2>2
  <1>4. ASSUME NEW k \in first..n
        PROVE  \E i \in 1..HISTORY_SIZE : history[i] # NO_TEMP /\ history[i] = readings[k]
    <2> DEFINE i == k - n + HISTORY_SIZE
    <2>1. i \in 1..HISTORY_SIZE /\ n - (HISTORY_SIZE - i) = k /\ k >= 1 /\ k \in 1..n
      BY <1>1
    <2>2. history[i] = readings[k]
      BY <1>2, <2>1
    <2>. QED
      BY <1>1, <2>1, <2>2
  <1>. QED
    BY <1>3, <1>4 DEF Seen, n

\* The range on the screen is that of the last readings, for every history size,
\* every set of temperatures and every sequence of readings.
THEOREM RangeIsOfLastReadings == LogSpec => []RangeOfLastReadings
  <1>1. LogTypeOK /\ HistoryHoldsLastReadings => RangeOfLastReadings
    <2> SUFFICES ASSUME LogTypeOK, HistoryHoldsLastReadings PROVE RangeOfLastReadings
      OBVIOUS
    <2>1. history \in Seq(Int) /\ Len(history) = HISTORY_SIZE
      <3>1. Temps \union {NO_TEMP} \subseteq Int
        BY HistoryAssumption, LogAssumption
      <3>. QED
        BY <3>1 DEF LogTypeOK
    <2>2. IsRangeOf(FindInHistory(history), Seen(history, HISTORY_SIZE))
      BY <2>1, FindIsRange
    <2>. QED
      BY <2>2, SeenIsRecent DEF RangeOfLastReadings, IsRangeOf, NoRange
  <1>. QED
    BY <1>1, LogTypeCorrect, HistoryIsLastReadings, PTL
=============================================================================
