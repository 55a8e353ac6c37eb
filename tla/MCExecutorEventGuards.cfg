SPECIFICATION FairSpec
CONSTANTS
  start = start
  tick = tick
  click = click
  a = a
  halt = halt
  ld = ld
  f = f
  fa = fa
  late = late
  p = p
  Nodes <- MCNodes
  Events <- MCEvents
  Kept = {}
  Guards = {p}
  NoGuard = NoGuard
  Polled = {tick, f, late}
  Starts = {start}
  StopNodes = {halt}
  Loaders = {ld}
  FileNodes <- MCFileNodes
  FileLinks <- MCFileLinks
  FirstGraph <- MCGuardedGraph
  NoNode = NoNode
  Clients = {c1}
  Menu <- MCNotifyMenu
  NoRequest = NoRequest
  MaxRequests = 1
  Endless = {}
PROPERTIES
  EventsChooseAsDocumented
CHECK_DEADLOCK FALSE
