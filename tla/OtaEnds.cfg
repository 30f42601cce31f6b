SPECIFICATION LiveSpec
CONSTANTS
  v0 = v0
  v1 = v1
  v2 = v2
  Versions <- MCVersions
  Running0 = v0
  Assignable <- MCOneNew
  Fits <- MCVersions
  Size = 3
  CHUNK_SIZE = 2
  CHUNK_RETRIES = 1
  BigBuffer = FALSE
  PromptTimer = TRUE
  MaxStops = 1
  MaxAssigns = 1
  MaxFaults = 1
  MaxInFlight = 1
PROPERTIES
  UpdateEnds
