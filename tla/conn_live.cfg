SPECIFICATION FairSpec
CONSTANTS
  a = a
  b = b
  s1 = s1
  s2 = s2
  i1 = i1
  i2 = i2
  i3 = i3
  Nodes <- TwoNodes
  Slots <- OneSlot
  Ids <- TwoIds
  ConnIds = {1, 2, 3}
  MaxRequests = 1
  Null = Null
  NoRow = NoRow
  Faults = {}
PROPERTIES
  RequestsAnswered
  DecisionsArrive
CHECK_DEADLOCK FALSE
