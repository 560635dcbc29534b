SPECIFICATION Spec
CONSTANTS
  a = a
  b = b
  s1 = s1
  s2 = s2
  i1 = i1
  i2 = i2
  i3 = i3
  Nodes <- TwoNodes
  Slots <- TwoSlots
  Ids <- TwoIds
  ConnIds = {1, 2}
  MaxRequests = 1
  Null = Null
  NoRow = NoRow
  Faults = {"loss", "crash", "stop", "sql"}
SYMMETRY Symmetry
INVARIANTS
  OnceInv
  OneOfferPerRequest
CHECK_DEADLOCK FALSE
