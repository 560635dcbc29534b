SPECIFICATION Spec
CONSTANTS
  a = a
  b = b
  s1 = s1
  i1 = i1
  i2 = i2
  x = x
  Nodes <- TwoNodes
  Slots <- OneSlot
  Ids <- TwoIds
  ConnIds = {1, 2}
  MaxRequests = 1
  Bodies <- OneBody
  MaxNum = 2
  MaxSends <- OneEach
  Null = Null
  NoRow = NoRow
  NoConn = NoConn
  Unset = {NoConn}
  Faults = {}
SYMMETRY Symmetry
INVARIANTS
  StoredByConsent
  UnsentIsPending
  ReceivedAtOtherEnd
  MsgInv
  ConsentInv
PROPERTIES
  ImplementsHandshake
CHECK_DEADLOCK FALSE
