\* The launchers, the trace recorder, the model store, sub-agents, background trees and MCP.
SPECIFICATION ServicesSpec
CONSTANTS
  l1 = l1
  l2 = l2
  l3 = l3
  p1 = p1
  p2 = p2
  main = main
  other = other
  NoId = NoId
  EraRounds = 3
  GoneRounds = 2
  Parents = {a}
  Slots = 1
  MaxSubs = 2
  MaxSteps = 1
  MaxSwitches = 1
  TreeCalls = 2
  TreeRounds = 2
  TreeStops = 2
  McpCalls = 2
  None = None
  Foreign = Foreign
  Launchers = {l1, l2, l3}
  Dev = {}
  Ports = {p1, p2}
  PortOf <- TwoPorts
  Troubles = {"crash", "reuse"}
INVARIANTS
  OneBackend
  DropsItsOwn
  TraceIsSound
  StoreIsSound
  HelpersAreSound
PROPERTIES
  ServicesSettle
CHECK_DEADLOCK FALSE
