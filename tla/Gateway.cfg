SPECIFICATION FairSpec
CONSTANTS
  PARAMS = 2
  ENOW_Q_LEN = 1
  KEEPALIVE = 2
  SOCKET_TIMEOUT = 2
  STATUS_INTERVAL = 1
  TRIES = 1
  ITER = 1
  ANSWER = 1
  AGE_MAX = 8
  MaxPackets = 2
  MaxInFlight = 2
  MaxFaults = 2
INVARIANTS
  GatewayTypeOK
  ConnectFirst
  
  DeadLinkNoticed
PROPERTIES
  NoFalseTimeout
  NamesAreFifo
  SessionIsRebuilt
  QueueIsServed
