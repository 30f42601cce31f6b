SPECIFICATION FairSpec
CONSTANTS
  SEND_VCC_AFTER_BOOTS = 3
  Millivolts = {3300}
  ID_RANGE = 4
  ERR_RANGE = 5
  MaxResets = 2
  LED_PIN = 14
  SENSOR_POWER_PIN = 12
  DALLAS_PIN = 15
  GPIO_NUM_0 = 0
  OtherPins <- MCOtherPins
  SleepUs = 3
  INT_MAX = 7
INVARIANTS
  SenderTypeOK
  VccIsRecent
  GapTellsLosses
  SensorPowered
  AsleepIsDark
PROPERTIES
  SleepsAgain
