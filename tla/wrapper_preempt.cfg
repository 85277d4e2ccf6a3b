SPECIFICATION Spec
CONSTANTS
  None = None
  Procs = {p1, p2}
  Shapes = {s1}
  MaxUnread = 1
  MaxBacklog = 2
INVARIANT PreemptOnlyAdvertised
CHECK_DEADLOCK FALSE
