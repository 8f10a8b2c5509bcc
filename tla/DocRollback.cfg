CONSTANTS
  hub = hub
  direct = direct
  blank = blank
  ghost = ghost
  k1 = k1
  k2 = k2
  k3 = k3
  toHub = toHub
  fromHub = fromHub
  straight = straight
  unnamed = unnamed
  hubNode = hubNode
  px = px
  py = py
  NoPath = NoPath
  NoHealth = NoHealth
  NoLimit = NoLimit
  NoKey = NoKey
  NoIntent = NoIntent
  Paths <- MCPaths
  PathIds <- MCPathIds
  PathList <- MCPathList
  Nodes <- MCNodes
  Waypoints <- MCWaypoints
  Priority <- MCPriority
  IdRank <- MCIdRank
  DblMax = 1000
  Tunnels <- MCTunnels
  Segments <- MCSegments
  Enabled <- MCPaths
  Keys <- OneKey
  FibPrefixes <- OnePrefix
  RoutePrefix <- SamePrefix
  Renderable <- MCPaths
  Initiable <- MCTunnels
  SwanAdapter = "command"
  VppAdapter = "command"
  ProbeAdapter = "command"
  FailEffects = {"none", "applied"}
  Readings <- LinkReadings
  MaxCandidates = 2
  Intents <- FibIntents
  MaxPaths = 2
  MaxTunnels = 3
  MaxEvents = 16
  MaxErrors = 4
  MaxRestarts = 0
SPECIFICATION Spec
INVARIANTS RollbackRestoresRoute
