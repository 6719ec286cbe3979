SPECIFICATION Spec
CONSTANTS
  h1 = h1
  h2 = h2
  alice = alice
  Instances = {1, 2}
  Handshakes = {h1, h2}
  Initiators = {alice}
  InitiatorOf <- MCInitiatorOf
  Deployments <- MCDeployments
  OpkIds = {1, 2}
  SeedPool = {1}
  MaxSeen = 1
  MaxAccepted = 3
INVARIANTS
  AcceptedAtMostOnce
  FailuresLeaveNothing
  AcceptedIsUsedUp
  FreshAgreedKeys
CHECK_DEADLOCK FALSE
