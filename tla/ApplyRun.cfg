SPECIFICATION Spec
CONSTANTS
  Config <- MCConfig
  MaxIntents = 2
  MaxPlanCommands = 4
INVARIANTS
  TypeOK
  RoutedIsUp
  AppliedRoutes
  EarlyFailureKeepsRoutes
  UndoneLeavesNothing
CHECK_DEADLOCK FALSE
