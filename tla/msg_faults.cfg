SPECIFICATION Spec
CONSTANTS
  a = a
  b = b
  s1 = s1
  s2 = s2
  i1 = i1
  i2 = i2
  x = x
  y = y
  Nodes <- TwoNodes
  Slots <- OneSlot
  Ids <- TwoIds
  ConnIds = {1, 2}
  Tables <- AllTables
  Bodies <- TwoBodies
  MaxNum = 3
  MaxSends <- TwoAndOne
  Null = Null
  NoRow = NoRow
  NoConn = NoConn
  Unset = {NoConn, Null}
  Faults = {"loss", "crash", "stop", "sql"}
SYMMETRY Symmetry
INVARIANTS
  TypeOK
  ReceivedIsTrue
  StoredWasSent
  SettledInv
PROPERTIES
  ImplementsDelivery
CHECK_DEADLOCK FALSE
