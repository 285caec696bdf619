SPECIFICATION Spec
CONSTANTS
  Screen <- MCScreen
  Layouts <- MCLayouts
  Relayouts <- MCRelayouts
  Plan <- MCPlan
  TurnLimit = 6
  QueueLimit = 12
  MaxRestarts = 1
INVARIANTS
  DestructionIsCarriedOut
CHECK_DEADLOCK FALSE
