SPECIFICATION FairSpec
CONSTANTS
  Shares = {s1, s2}
  Tasks = {t1}
  None = None
  MaxSeen = 2
  MaxSessions = 3
INVARIANTS TypeOK CountersBalance WaiterEntered
PROPERTIES ImplementsLedger SubmissionsEnd HandshakeEnds
CHECK_DEADLOCK FALSE
