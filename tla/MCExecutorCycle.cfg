SPECIFICATION FairSpec
CONSTANTS
  start = start
  tick = tick
  click = click
  a = a
  halt = halt
  ld = ld
  f = f
  fa = fa
  late = late
  p = p
  Nodes <- MCNodes
  Events <- MCEvents
  Kept = {}
  Guards = {p}
  NoGuard = NoGuard
  Polled = {tick, f, late}
  Starts = {start}
  StopNodes = {halt}
  Loaders = {}
  FileNodes <- MCFileNodes
  FileLinks <- MCNoLinks
  FirstGraph <- MCCyclicGraph
  NoNode = NoNode
  Clients = {c1}
  Menu <- MCMenu
  NoRequest = NoRequest
  MaxRequests = 0
  Endless = {}
PROPERTIES
  CancelEndsExec
CHECK_DEADLOCK FALSE
