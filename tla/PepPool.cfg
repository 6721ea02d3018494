CONSTANTS
  Conns = {c1, c2}
  Workers = {w1, w2}
  ActiveHead = ah
  ReadyHead = rh
  PollerHead = ph
  Nodes = {c1, c2, w1, w2, ah, rh, ph}
  NULL = NULL
  None = None
  MaxSpurious = 2
SPECIFICATION WarmSpec
INVARIANTS QueuesSound OneHolder
PROPERTY HandedBack
CHECK_DEADLOCK FALSE
