CONSTANTS
  hub = hub
  direct = direct
  relay = relay
  off = off
  ghost = ghost
  hubNode = hubNode
  relayNode = relayNode
  NoPath = NoPath
  NoHealth = NoHealth
  NoLimit = NoLimit
  NoOutcome = NoOutcome
  Paths <- MCPaths
  PathIds <- MCPathIds
  Enabled <- MCEnabled
  Nodes <- MCNodes
  Waypoints <- MCWaypoints
  Priority <- MCPriority
  IdRank <- MCIdRank
  DblMax <- MCDblMax
  ScanPolicies <- MCPolicies
  ScanHealth <- MCHealth
SPECIFICATION Spec
CHECK_DEADLOCK FALSE
INVARIANTS TypeOK ScanAgrees BestSoFar ListIsASet
