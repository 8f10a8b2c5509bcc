CONSTANTS
  hub = hub
  direct = direct
  blank = blank
  ghost = ghost
  k1 = k1
  k2 = k2
  k3 = k3
  toHub = toHub
  fromHub = fromHub
  straight = straight
  unnamed = unnamed
  hubNode = hubNode
  px = px
  py = py
  NoPath = NoPath
  NoHealth = NoHealth
  NoLimit = NoLimit
  NoKey = NoKey
  NoIntent = NoIntent
  Paths <- CrowdPaths
  PathIds <- CrowdPathIds
  PathList <- CrowdPathList
  Nodes <- MCNodes
  Waypoints <- CrowdWaypoints
  Priority <- CrowdPriority
  IdRank <- CrowdIdRank
  DblMax = 1000
  Tunnels <- CrowdTunnels
  Segments <- CrowdSegments
  Enabled <- CrowdPaths
  Keys <- ThreeKeys
  FibPrefixes <- OnePrefix
  RoutePrefix <- CrowdPrefix
  Renderable <- OnlyHub
  Initiable <- MCTunnels
  SwanAdapter = "command"
  VppAdapter = "command"
  ProbeAdapter = "command"
  FailEffects = {"none", "applied"}
  Readings <- LinkReadings
  MaxCandidates = 2
  Intents <- CrowdIntents
  MaxPaths = 3
  MaxTunnels = 2
  MaxEvents = 16
  MaxErrors = 4
  MaxRestarts = 1
SPECIFICATION Spec
INVARIANTS TrailTellsOutcome AppliedNeverDropped
