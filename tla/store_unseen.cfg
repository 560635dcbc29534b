SPECIFICATION Spec
CONSTANTS
  c1 = c1
  c2 = c2
  lsn = lsn
  Commands <- OneCommand
  Daemon = lsn
  Started = {"request", "accept", "reject", "send", "select", "set", "get", "conns", "msgs"}
INVARIANTS
  MessageIsWritten
CHECK_DEADLOCK FALSE
