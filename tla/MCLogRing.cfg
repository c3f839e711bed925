CONSTANTS
  Size = 16
  RecMin = 3
  RecMax = 4
  Wrap = 128
  Starts <- MCStarts
  FaultLines = 2
  MaxAppends = 5
SPECIFICATION Spec
PROPERTIES LogKept PassFaithful
CHECK_DEADLOCK FALSE
