SPECIFICATION Spec
CONSTANTS
  None = None
  Procs = {p1, p2}
  Shapes = {s1, s2}
  MaxUnread = 1
  MaxBacklog = 2
INVARIANT OneJobInFlight
CHECK_DEADLOCK FALSE
