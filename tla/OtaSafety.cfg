SPECIFICATION Spec
CONSTANTS
  v0 = v0
  v1 = v1
  v2 = v2
  Versions <- MCVersions
  Running0 = v0
  Assignable <- MCNew
  Fits <- MCVersions
  Size = 4
  CHUNK_SIZE = 2
  CHUNK_RETRIES = 1
  BigBuffer = FALSE
  PromptTimer = FALSE
  MaxStops = 1
  MaxAssigns = 2
  MaxFaults = 1
  MaxInFlight = 1
INVARIANTS
  
  
  UpdateIsWatched
  
SYMMETRY MCSymmetry
PROPERTIES
  HeaderGoesFirst
