CONSTANTS
  k1 = k1
  sample = sample
  variant = variant
  damaged = damaged
  NoPath = NoPath
  NoHealth = NoHealth
  NoLimit = NoLimit
  NoKey = NoKey
  NoIntent = NoIntent
  NoId = NoId
  NoOrder = NoOrder
  Unreadable = Unreadable
  Paths <- MCPaths
  PathIds <- MCPathIds
  PathList <- MCPathList
  Nodes <- MCNodes
  Waypoints <- MCWaypoints
  Priority <- MCPriority
  IdRank <- MCIdRank
  DblMax = 100000
  Tunnels <- MCTunnels
  Segments <- MCSegments
  Enabled <- MCPaths
  Keys <- MCKeys
  FibPrefixes <- MCFibPrefixes
  RoutePrefix <- MCRoutePrefix
  Renderable <- MCPaths
  Initiable <- MCTunnels
  SwanAdapter = "mock"
  VppAdapter = "mock"
  ProbeAdapter = "mock"
  FailEffects = {"none"}
  Readings <- MCReadings
  MaxCandidates = 1
  Intents <- MCIntents
  MaxPaths = 5
  MaxTunnels = 6
  MaxEvents = 8
  MaxErrors = 2
  MaxRestarts = 16
  MaxPlanCommands = 8
  Topology <- MCTopology
  Yaml <- MCYaml
  Invocations <- MCInvocations
  MaxComparisons = 8
  MaxCommands = 2
SPECIFICATION ScenarioSpec
CHECK_DEADLOCK FALSE
INVARIANTS ScenarioTypeOK ExplainsDecision FailedNotSelected LogTellsSteps FilesOfOnePath GeneratedAsAsked GeneratedAsDecided RoutesLeadAcross
PROPERTIES CommandsEnd
