SPECIFICATION Spec
CONSTANTS
  Names <- MCNames
  NoName = NoName
  Kinds <- MCKinds
  EventKinds = {"event"}
  LoadKinds = {"action"}
  TempId <- MCTempId
  ServerName <- MCServerName
  GivenNames <- MCGiven
  NullName <- MCNullName
  EmptyName <- MCEmptyName
  FirstNodes <- MCFirstNodes
  FirstLinks <- MCFirstLinks
  RingSize = 2
  Sessions <- MCSessions
INVARIANTS
  TypeOK
  NodesAgree
  ArrowsAgree
  DanglingArrowPending
  ServerSurvives
  NodesSaved
  BusyIsExecuting
PROPERTIES
  GoneWhenAcknowledged
CHECK_DEADLOCK FALSE
