CONSTANTS
  ClientConfigs <- MCClientConfigs
  ServerConfigs <- MCServerConfigs
  SocketCapacity = 3
  MaxMessages <- MCMaxMessages
  Vocabulary <- SnapshotVocabulary
SPECIFICATION Spec
CHECK_DEADLOCK FALSE
INVARIANT
  DisconnectReportsSnapshot
