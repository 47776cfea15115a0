SPECIFICATION MastersSpec
CONSTANTS
  ann = ann
  bob = bob
  n1 = n1
  n2 = n2
  n3 = n3
  Admins <- TwoAdmins
  Nodes <- ThreeNodes
  One = One
  None = None
  Kinds <- AllKinds
  Days = 2
  MaxNumber = 3
  MaxAccounts = 1
  MaxRequests = 3
SYMMETRY Symmetric
INVARIANTS
  MastersAreSound
PROPERTIES
  OnlyStaleEditsLowerCounter
CHECK_DEADLOCK FALSE
