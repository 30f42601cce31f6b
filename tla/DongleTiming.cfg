SPECIFICATION Spec
CONSTANTS
  Sites = {top}
  HISTORY_SIZE = 1
  NO_TEMP <- MCNoTemp
  Temps <- MCTwoTemps
  RED_C <- MCRed
  YELLOW_C <- MCYellow
  MILLIS_RANGE = 12
  TEMP_LIFE_TIME_MS = 4
  TFT_OFF_MS = 4
  HOLD_MS = 3
  POLL_MS = 1
  DEBOUNCE_MS = 1
  SCREEN_MS = 2
  RX_WAIT_MS = 1
  DELAY_MS = 1
  CPU_MS = 0
INVARIANTS
  DongleTypeOK
  ReadingIsFresh
  ShownIsFresh
  DisplayTurnsOff
PROPERTIES
  OneToggleAPress
