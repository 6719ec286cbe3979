SPECIFICATION Spec
CONSTANTS
  Initiator = Initiator
  Responder = Responder
  MaxMessagesPerChain = 2
  MaxNonceCounter = 2
  MaxSkippedMessageKeys = 3
  MaxCachedMetadataKeys = 3
  MaxKeyEpochAge = 3
  MaxSeenNonces = 1
  MaxTotalMessages = 3
  MaxSent <- CrossingSends
INVARIANTS
  NextRatchetOpens
CHECK_DEADLOCK FALSE
