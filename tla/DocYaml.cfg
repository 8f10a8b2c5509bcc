SPECIFICATION Spec
CONSTANTS
  Documents <- AnyOrder
  MaxItems <- MCMaxItems
  MaxEntries <- MCMaxEntries
  Number <- MCNumber
  HostName <- MCHostName
  Address <- MCAddress
  MaxPlanCommands = 4
INVARIANTS
  LoadedByIndentation
CHECK_DEADLOCK FALSE
