SPECIFICATION Spec
CONSTANTS
  Parents = {a}
  None = None
  Null = Null
  SliceLen = 3
  MaxNonce = 6
  RangeWidth = 2
INVARIANT SweepsOwnRange
