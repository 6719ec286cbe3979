SPECIFICATION Spec
CONSTANTS
  ann = ann
  bob = bob
  cal = cal
  dee = dee
  Users = {ann, bob, cal, dee}
  MaxLeaves = 4
  Setups <- LateSetups
INVARIANTS
  MembersKeepUp
CHECK_DEADLOCK FALSE
