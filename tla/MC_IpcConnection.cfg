CONSTANTS
  ClientConfigs <- MCClientConfigs
  ServerConfigs <- MCServerConfigs
  SocketCapacity = 2
  MaxMessages <- MCMaxMessages
  Vocabulary <- MCVocabulary
SPECIFICATION FairSpec
CHECK_DEADLOCK FALSE
INVARIANT
  PeersUnderstandEachOther
  DeliveredInOrder
PROPERTY
  ConnectionsSettle
