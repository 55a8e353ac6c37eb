SPECIFICATION FairSpec
CONSTANTS
  start = start
  tick = tick
  click = click
  a = a
  halt = halt
  ld = ld
  f = f
  fa = fa
  late = late
  p = p
  Nodes <- MCLiveNodes
  Events <- MCLiveEvents
  Kept = {}
  Guards = {}
  NoGuard = NoGuard
  Polled = {tick, late}
  Starts = {}
  StopNodes = {}
  Loaders = {}
  FileNodes <- MCLiveFile
  FileLinks <- MCNoLinks
  FirstGraph <- MCLiveGraph
  NoNode = NoNode
  Clients = {c1}
  Menu <- MCLiveMenu
  NoRequest = NoRequest
  MaxRequests = 3
  Endless <- MCEndless
PROPERTIES
  EveryEventChecked
  EveryNotificationServed
  NotifyReturns
  CancelEndsExec
CHECK_DEADLOCK FALSE
