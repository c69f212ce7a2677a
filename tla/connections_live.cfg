\* One entry for two connections: a full array, a MaxClients beyond it, and whether all ends well.
SPECIFICATION FairSpec
CONSTANTS
  Conns = {c1, c2}
  MaxFds = 2
  ArraySize = 1
  Configured = {1, 2}
  NULL = NULL
  MaxLines = 1
INVARIANT TypeOK
PROPERTY Drains
CHECK_DEADLOCK FALSE
