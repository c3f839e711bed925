CONSTANTS
  Sizes <- MCSizes
  SeqSpace = 3
  BlockRetries = 1
  HandshakeRetries = 1
  MaxLate = 1
SPECIFICATION Spec
INVARIANTS PromptsWithC
CHECK_DEADLOCK FALSE
