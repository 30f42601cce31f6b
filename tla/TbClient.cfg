SPECIFICATION FairSpec
CONSTANTS
  CAPACITY = 2
  MaxRequests = 3
  MaxCallbacks = 1
  MaxFaults = 1
  MaxInFlight = 3
INVARIANTS
  
  WaitingIsInFlight
PROPERTIES
  AnswersArrive
