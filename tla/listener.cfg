SPECIFICATION FairSpec
CONSTANTS
  a = a
  b = b
  s1 = s1
  i1 = i1
  i2 = i2
  Nodes <- TwoNodes
  Slots <- OneSlot
  Ids <- TwoIds
  Null = Null
  NoRow = NoRow
  Faults = {"loss", "crash", "stop"}
  Letters <- BothWays
  QueueLen = 1
  MaxFds = 3
INVARIANTS
  LinkInv
PROPERTIES
  ListenerComesBack
  ImplementsNet
CHECK_DEADLOCK FALSE
