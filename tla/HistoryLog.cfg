SPECIFICATION LogSpec
CONSTANTS
  HISTORY_SIZE = 3
  NO_TEMP <- MCNoTemp
  Temps <- MCTemps
  MaxReadings = 5
INVARIANTS
  HistoryHoldsLastReadings
  RangeOfLastReadings
CHECK_DEADLOCK FALSE
