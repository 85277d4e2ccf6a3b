SPECIFICATION Spec
CONSTANTS
  Shares = {s1, s2}
  Tasks = {t1}
  None = None
  MaxSeen = 2
  MaxSessions = 2
INVARIANT FreshHealWindow
CHECK_DEADLOCK FALSE
