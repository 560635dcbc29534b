SPECIFICATION Spec
CONSTANTS
  a = a
  b = b
  s1 = s1
  s2 = s2
  i1 = i1
  i2 = i2
  x = x
  y = y
  Nodes <- TwoNodes
  Slots <- TwoSlots
  Ids <- TwoIds
  ConnIds = {1, 2}
  Tables <- LinkedTables
  Bodies <- TwoBodies
  MaxNum = 2
  MaxSends <- TwoAndNone
  Null = Null
  NoRow = NoRow
  NoConn = NoConn
  Unset = {NoConn, Null}
  Faults = {}
SYMMETRY Symmetry
INVARIANTS
  ReceivedIsTrue
CHECK_DEADLOCK FALSE
