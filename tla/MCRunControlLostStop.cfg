SPECIFICATION FairSpec
CONSTANTS
  Requests = {q1}
  MaxClicks = 2
PROPERTIES
  CancelStopsExecution
CHECK_DEADLOCK FALSE
