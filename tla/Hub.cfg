SPECIFICATION HubSpec
CONSTANTS
  RelayHosts = {h1}
  Nodes = {n1, n2}
  NoNode = NoNode
  Hub = Hub
  Calls = {1, 2}
  Capacity <- MCCapacity
  DirScenarios <- MCDirScenarios
  Owners = {o1, o2}
  Nobody = Nobody
  Boxes = {b1, b2}
  Scans = {s1}
  Invites = {j1}
  HostQuota = 1
  HostCalls = {1, 2}
  HostScenarios <- MCHostScenarios
INVARIANTS HostsConsistent
PROPERTIES DirectoryConverges
CHECK_DEADLOCK FALSE
