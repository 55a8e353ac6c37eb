SPECIFICATION FairSpec
CONSTANTS
  Capacity = 2
  Items = {enter, exit}
  NoItem = NoItem
  Browsers = {b1, b2}
  NoReply = NoReply
  MaxEvents = 5
INVARIANTS
  TypeOK
  RingHoldsNewest
  NoSleepOverEvents
  ReplyMovesForward
PROPERTIES
  ImplementsEventLog
  EveryEventReachesEveryBrowser
CHECK_DEADLOCK FALSE
