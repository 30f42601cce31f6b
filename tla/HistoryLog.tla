----------------------------- MODULE HistoryLog -----------------------------
(***************************************************************************)
(* One history of the dongle beside the log of all readings since boot,    *)
(* which the code does not keep.                                           *)
(***************************************************************************)
EXTENDS TempHistory

CONSTANTS
  Temps,         \* temperatures a sensor may send
  MaxReadings    \* bound: readings in one behaviour

ASSUME LogAssumption == /\ Temps \subseteq Int \ {NO_TEMP}
                        /\ MaxReadings \in Nat

VARIABLES
  history,    \* topHistory or botHistory
  readings    \* history variable: every reading since the start

logVars == <<history, readings>>

LogInit == history = ResetHistory /\ readings = <<>>

Reading(t) == /\ Len(readings) < MaxReadings
              /\ history' = AddToHistory(history, t)
              /\ readings' = Append(readings, t)

LogNext == \E t \in Temps : Reading(t)

LogSpec == LogInit /\ [][LogNext]_logVars

-----------------------------------------------------------------------------

LogTypeOK == /\ history \in Seq(Temps \union {NO_TEMP})
             /\ Len(history) = HISTORY_SIZE
             /\ readings \in Seq(Temps)

\* The array holds the last readings in their order, and empty slots only in
\* front of them, however often it has been shifted.
HistoryHoldsLastReadings ==
  \A i \in 1..HISTORY_SIZE :
    history[i] = LET k == Len(readings) - (HISTORY_SIZE - i) IN
                 IF k >= 1 THEN readings[k] ELSE NO_TEMP

\* The range on the screen is that of the last HISTORY_SIZE readings, and "N/A"
\* exactly as long as there is none.
RangeOfLastReadings ==
  LET first  == IF Len(readings) > HISTORY_SIZE THEN Len(readings) - HISTORY_SIZE + 1 ELSE 1
      recent == {readings[k] : k \in first..Len(readings)}
      found  == FindInHistory(history)
  IN  IF recent = {} THEN found = [min |-> NO_TEMP, max |-> NO_TEMP]
      ELSE /\ found.min \in recent /\ \A t \in recent : found.min <= t
           /\ found.max \in recent /\ \A t \in recent : found.max >= t
=============================================================================
