\* Does remove_client close the descriptor of its own client only?
SPECIFICATION Spec
CONSTANTS
  Conns = {c1, c2}
  MaxFds = 2
  ArraySize = 2
  Configured = {2}
  NULL = NULL
  MaxLines = 1
PROPERTY ClosesOwn
CHECK_DEADLOCK FALSE
