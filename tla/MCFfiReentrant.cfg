SPECIFICATION HandlesFairSpec
CONSTANTS
  t1 = t1
  t2 = t2
  id = id
  ses = ses
  grp = grp
  str = str
  Threads = {t1, t2}
  MaxDepth = 2
  Handles = {id, ses, grp, str}
  Kind <- MCKind
  Reentrant = {"start", "call", "read", "write", "finish", "get"}
  MaxCalls = 3
PROPERTIES
  EveryCallReturns
CHECK_DEADLOCK FALSE
