SPECIFICATION PartSpec
CONSTANTS
  \* a call
  Interval = 1
  MaxSkip = 1
  MaxRatchetGeneration = 4
  Window = 2
  Scenarios <- MCScenarios
  \* sender keys
  Senders <- MCSenders
  MaxGeneration = 5
  MaxSkippedPerSender = 2
  MaxSkippedTotal = 3
  WINDOW = 3
  Extents <- MCExtents
INVARIANTS
  FramesOnce
  NextFrameAccepted
  RekeysKeepStep
  ConsentIsLatest
  AcceptedOnce
  KeysAccounted
PROPERTIES
  RekeyCompletes
  EventuallySettled
CHECK_DEADLOCK FALSE
