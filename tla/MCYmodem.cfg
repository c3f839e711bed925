CONSTANTS
  Sizes <- MCSizes
  SeqSpace = 3
  BlockRetries = 1
  HandshakeRetries = 1
  MaxLate = 1
SPECIFICATION FairSpec
INVARIANTS SentMeansDelivered
PROPERTIES TransferKept BothReturn
CHECK_DEADLOCK FALSE
