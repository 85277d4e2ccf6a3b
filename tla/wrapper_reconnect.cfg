SPECIFICATION FairSpec
CONSTANTS
  None = None
  Procs = {p1}
  Shapes = {s1}
  MaxUnread = 1
  MaxBacklog = 1
PROPERTY ReconnectsAfterLoss
CHECK_DEADLOCK FALSE
