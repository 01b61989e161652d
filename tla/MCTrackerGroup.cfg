CONSTANTS
  n1 = n1
  n2 = n2
  n3 = n3
  w1 = w1
  w2 = w2
  Nodes <- ThreeNodes
  ann = ann
  bob = bob
  PrivateGroups <- ThreeGroups
  Users <- TwoUsers
  VirtualNodes <- Places
  UserHash <- HashOf
  Workers <- TwoWorkers
  MaxRequests = 2
SYMMETRY Alike
SPECIFICATION Spec
INVARIANTS TablesSound MeshComplete NeverCrashes
PROPERTIES RedirectLeavesOne UsersStay
CHECK_DEADLOCK FALSE
