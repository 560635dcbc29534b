SPECIFICATION FairSpec
CONSTANTS
  c1 = c1
  c2 = c2
  lsn = lsn
  Commands <- TwoCommands
  Daemon = lsn
  Started = {"request", "accept", "set"}
INVARIANTS
  DefaultsWhole
  HandshakeIsWritten
  StoreInv
PROPERTIES
  EveryoneEnds
CHECK_DEADLOCK FALSE
