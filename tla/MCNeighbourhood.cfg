SPECIFICATION FairSpec
CONSTANTS
  a = a
  b = b
  far = far
  i = i
  j = j
  Nbr = {a, b}
  Far = {far}
  Iface = {i, j}
  None = None
  Broken = 9
  mpr_coverage = 1
  Scenario <- MCScenario
INVARIANTS
  TablesSound
  RelaysCover
PROPERTIES
  LostNeighbourLeaves
  ChangesSignalled
CHECK_DEADLOCK FALSE
