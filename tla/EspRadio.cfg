SPECIFICATION FairSpec
CONSTANTS
  espThb = espThb
  otherEsp = otherEsp
  Protocols <- MCProtocols
  ESP_PROTOCOL_ID = espThb
  ENOW_Q_LEN = 2
  InboxLen = 2
  MaxFaults = 2
  HeapQueues = 3
  MaxFrames = 6
INVARIANTS
  RadioTypeOK
  NullQueueNeverUsed
  NoStrandedPacket
PROPERTIES
  ImplementsLossyFifo
  CallbackReturns
  QueuedIsDelivered
