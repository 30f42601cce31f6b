---------------------------- MODULE TempHistory ----------------------------
(***************************************************************************)
(* The temperature history of src/dongle.cpp: an array of the last         *)
(* HISTORY_SIZE readings, oldest first, in which NO_TEMP marks a slot that *)
(* has not been filled since the start.                                    *)
(***************************************************************************)
EXTENDS Integers, Sequences

CONSTANTS
  HISTORY_SIZE,   \* 100 in the code
  NO_TEMP         \* -400: no reading

ASSUME HistoryAssumption == /\ HISTORY_SIZE \in Nat \ {0}
                            /\ NO_TEMP \in Int

\* resetHistory(), for one of the two arrays.
ResetHistory == [i \in 1..HISTORY_SIZE |-> NO_TEMP]

\* Mutant of AddToHistory: the shift starts one slot late.
AddToHistoryShiftsLate(h, t) == <<Head(h)>> \o Append(Tail(Tail(h)), t)

\* addToHistory(): every reading moves one slot down, t takes the last.
AddToHistory(h, t) == Append(Tail(h), t)

NoRange == [min |-> NO_TEMP, max |-> NO_TEMP]

\* One slot of the pass: an empty one is skipped.
Widen(range, t) ==
  IF t = NO_TEMP THEN range
  ELSE [min |-> IF range.min = NO_TEMP \/ range.min > t THEN t ELSE range.min,
        max |-> IF range.max = NO_TEMP \/ range.max < t THEN t ELSE range.max]

\* Mutant of FindInHistory: the scan starts at 1, like the shift.
FindInHistoryFromOne(h) ==
  LET found[i \in 1..HISTORY_SIZE] == IF i = 1 THEN NoRange ELSE Widen(found[i - 1], h[i])
  IN  found[HISTORY_SIZE]

\* findInHistory(): one pass; found[i] is what the first i slots give.
FindInHistory(h) ==
  LET found[i \in 0..HISTORY_SIZE] == IF i = 0 THEN NoRange ELSE Widen(found[i - 1], h[i])
  IN  found[HISTORY_SIZE]
=============================================================================
