SPECIFICATION Spec
CONSTANTS
  Documents <- MCDocuments
  MaxItems <- MCMaxItems
  MaxEntries <- MCMaxEntries
  Number <- MCNumber
  HostName <- MCHostName
  Address <- MCAddress
  MaxPlanCommands = 4
INVARIANTS
  LoaderTypeOK
  LoadedAsWritten
  AcceptedIffSound
  AcceptedIsSound
  AcceptedIsPlannable
CHECK_DEADLOCK FALSE
