SPECIFICATION PartSpec
CONSTANTS
  \* the pure algorithms
  MaxLeaves = 40
  Block = 3
  Word = 16
  Bytes = {0, 1, 2, 129}
  MaxLen = 6
  BITS = 3
  MAX_ATTACHMENT_CHUNK_COUNT = 6
  \* the replay window
  WordBits = 64
  Words = 2
  Counters <- BorderCounters
  \* secret sharing
  Secrets <- MCSecrets
  AuthKeys = {k1, k2}
  Random = {199}
  Thresholds = {1, 2, 3}
  ShareCounts = {3}
  MaxSplits = 2
  MaxGathered = 3
  MaxDamaged = 1
  \* group messages
  Members = {0, 2}
  MAX_TTL = 2
  SKEW = 1
  MAX_MENTIONS = 3
  MAX_DEPTH = 1
  MAX_MESSAGE = 5
  MaxTime = 5
  Requests <- Calls
  \* broadcast channels
  Channels = {c1, c2}
  Devices = {d1, d2}
  Senders = {s1, s2}
  Bodies = {x}
  MaxKeys = 2
  MaxPosts = 2
  MaxReads = 1
  \* rotation of the group epoch
  Callers = {t1, t2, t3}
  MaxMessages = 11
  Percent = 10
  MaxEpoch = 2
  CallsEach = 6
  \* sealed snapshots
  Threads = {u1, u2, u3}
  Hosts = {"slot", "blob_first", "tracker_first"}
  MaxSent = 3
  MaxGeneration = 4
  MaxLags = 2
SYMMETRY Symmetry
INVARIANTS
  ChecksExactly
  ArithmeticIsExact
  ReconstructsTheSecret
  BothSidesAgree
  ReadAsPosted
  NeverExhausted
  GenerationsOrdered
  RefusedOnlyIfSuperseded
  NoRollback
CHECK_DEADLOCK FALSE
