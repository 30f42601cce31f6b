SPECIFICATION NetSpec
CONSTANTS
  Sites = {top}
  HISTORY_SIZE = 1
  NO_TEMP <- MCNoTemp
  Temps <- MCOneTemp
  RED_C <- MCRed
  YELLOW_C <- MCYellow
  MILLIS_RANGE = 13
  TEMP_LIFE_TIME_MS = 9
  TFT_OFF_MS = 1
  HOLD_MS = 0
  POLL_MS = 1
  DEBOUNCE_MS = 0
  SCREEN_MS = 0
  RX_WAIT_MS = 1
  DELAY_MS = 1
  CPU_MS = 0
  SLEEP_MS = 3
  AWAKE_MS = 1
  QUEUE_SIZE = 2
  MAX_MISSED = 1
INVARIANTS
  WorkingIsKnown
