SPECIFICATION FairSpec
CONSTANTS
  d1 = d1
  d2 = d2
  w1 = w1
  w2 = w2
  Devices = {d1, d2}
  Workers = {w1, w2}
  InitTimeout = 0
  IdleTimeout = 0
  MaxLifetime = 0
  MaxRekeyGeneration = 1
  MaxRetries = 2
  MaxSignals = 4
  MaxClock = 1
INVARIANTS
  RetriesArePaidFor
PROPERTIES
  ImplementsRecord
  SignalsAnswered
CHECK_DEADLOCK FALSE
