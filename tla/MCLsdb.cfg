SPECIFICATION Spec
CONSTANTS
  Node = {1, 2, 3, 4}
  Me = 1
  SeqMod = 8
  AnsnMod = 4
  TC_SEQNO_WINDOW = 2
  TC_SEQNO_WINDOW_MULT = 2
  TC_ANSN_WINDOW = 2
  TC_ANSN_WINDOW_MULT = 1
  MaxIgnored = 2
  Scenario <- MCScenario
INVARIANTS
  TypeOK
  InvMutual
  NoImmortalEdges
  WindowsAreRelative
  BoundedDrops
  AddsPublished
  LocalEdgesUnlessBackoff
CHECK_DEADLOCK FALSE
