SPECIFICATION FairSpec
CONSTANTS
  Initiator = Initiator
  Responder = Responder
  MaxMessagesPerChain = 2
  MaxNonceCounter = 2
  MaxSkippedMessageKeys = 2
  MaxCachedMetadataKeys = 2
  MaxKeyEpochAge = 2
  MaxSeenNonces = 1
  MaxTotalMessages = 5
  MaxSent <- Sends
INVARIANTS
  KeysAgree
  FreshKeysAndNonces
  Importable
PROPERTIES
  FailureKeepsState
  ImplementsChannel
  EventuallyDecrypted
CHECK_DEADLOCK FALSE
