SPECIFICATION Spec
CONSTANTS
  Screen <- MCScreen
  Layouts <- MCLayouts
  Relayouts <- MCRelayouts
  Plan <- MCPlan
  TurnLimit = 6
  QueueLimit = 12
  MaxRestarts = 1
INVARIANTS
  AnswersAreUsable
  StackIsSound
  WindowsStayReachable
CHECK_DEADLOCK FALSE
