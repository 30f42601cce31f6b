SPECIFICATION Spec
CONSTANTS
  Sites = {top, bot}
  HISTORY_SIZE = 1
  NO_TEMP <- MCNoTemp
  Temps <- MCTemps
  RED_C <- MCRed
  YELLOW_C <- MCYellow
  MILLIS_RANGE = 6
  TEMP_LIFE_TIME_MS = 2
  TFT_OFF_MS = 1
  HOLD_MS = 1
  POLL_MS = 1
  DEBOUNCE_MS = 0
  SCREEN_MS = 1
  RX_WAIT_MS = 0
  DELAY_MS = 1
  CPU_MS = 0
INVARIANTS
  AlarmShownInTime
  ColourFitsNumber
  RangeHoldsNumber
