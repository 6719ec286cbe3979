SPECIFICATION Spec
CONSTANTS
  ann = ann
  bob = bob
  cal = cal
  dee = dee
  Users = {ann, bob, cal, dee}
  MaxLeaves = 4
  Setups <- MCSetups
INVARIANTS
  KeysFollowTree
  RelayFollowsGroup
  ResolutionCoversMembers
CHECK_DEADLOCK FALSE
