SPECIFICATION PartSpec
CONSTANTS
  \* the relay
  a = a
  b = b
  c = c
  Clients = {a, b, c}
  Founders = {a, b}
  MaxMembers = 3
  MaxCommits = 3
  MaxMessages = 1
  MaxAgain = 1
  \* attachments
  t1 = t1
  t2 = t2
  Files = {a, b}
  FileLen = 5
  CHUNK = 2
  BITS = 2
  MAX_ATTACHMENT_CHUNK_COUNT = 4
  Threads = {t1, t2}
  Transfers <- MCTransfers
INVARIANTS
  MembersServed
  ReceivedIsFile
PROPERTIES
  EventuallyCurrent
  EventuallyDownloaded
CHECK_DEADLOCK FALSE
