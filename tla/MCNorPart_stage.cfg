SPECIFICATION Spec
CONSTANTS
  fg = fg
  j1 = j1
  j2 = j2
  data1 = data1
  data2 = data2
  erased = erased
  junk = junk
  absent = absent
  none = none
  Fg = fg
  Jobs <- OneJob
  N = 2
  Patterns <- OnePattern
  Erased = erased
  Junk = junk
  Absent = absent
  None = none
  Readers <- ScanAndBlob
  MaxTxns = 2
INVARIANT
  StageOneUser
