SPECIFICATION Spec
CONSTANTS
  a = a
  b = b
  s1 = s1
  s2 = s2
  i1 = i1
  i2 = i2
  i3 = i3
  Nodes <- TwoNodes
  Slots <- OneSlot
  Ids <- TwoIds
  ConnIds = {1}
  MaxRequests = 2
  Null = Null
  NoRow = NoRow
  Faults = {}
SYMMETRY Symmetry
PROPERTIES
  ResolutionSticks
CHECK_DEADLOCK FALSE
