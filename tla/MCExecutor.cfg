SPECIFICATION FairSpec
CONSTANTS
  start = start
  tick = tick
  click = click
  a = a
  halt = halt
  ld = ld
  f = f
  fa = fa
  late = late
  p = p
  Nodes <- MCNodes
  Events <- MCEvents
  Kept = {click}
  Guards = {p}
  NoGuard = NoGuard
  Polled = {tick, f, late}
  Starts = {start}
  StopNodes = {halt}
  Loaders = {ld}
  FileNodes <- MCFileNodes
  FileLinks <- MCFileLinks
  FirstGraph <- MCFirstGraph
  NoNode = NoNode
  Clients = {c1, c2}
  Menu <- MCMenu
  NoRequest = NoRequest
  MaxRequests = 2
  Endless = {}
INVARIANTS
  TypeOK
  EnteredNodesBelong
  AtMostOneStaleCheck
PROPERTIES
  ActionsChooseAsDocumented
CHECK_DEADLOCK FALSE
