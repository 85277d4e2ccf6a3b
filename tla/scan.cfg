SPECIFICATION FairSpec
CONSTANTS
  Parents = {a, b}
  None = None
  Null = Null
  SliceLen = 2
  RangeWidth = 6
  MaxNonce = 6
INVARIANTS TypeOK NoRescan PreemptsDeadTip
PROPERTY TipIsMined
