SPECIFICATION HSpec
CONSTANTS
  None = None
  Procs = {p1, p2}
  Shapes = {s1}
  MaxUnread = 1
  MaxBacklog = 1
SYMMETRY ProcSymmetry
INVARIANT TypeOK
INVARIANT NoOrphanDaemon
INVARIANT OneCopyOfTheJob
PROPERTY DesyncOnlyWhenCutShort
PROPERTY ImplementsService
CHECK_DEADLOCK FALSE
