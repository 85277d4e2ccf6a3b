SPECIFICATION FairSpec
CONSTANTS
  None = None
  Procs = {p1}
  Shapes = {s1, s2}
  MaxUnread = 1
  MaxBacklog = 1
PROPERTY SliceEnds
PROPERTY ForceRestartEnds
CHECK_DEADLOCK FALSE
