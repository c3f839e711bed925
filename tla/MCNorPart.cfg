SPECIFICATION FairSpec
CONSTANTS
  fg = fg
  j1 = j1
  j2 = j2
  data1 = data1
  data2 = data2
  erased = erased
  junk = junk
  absent = absent
  none = none
  Fg = fg
  Jobs <- TwoJobs
  N = 2
  Patterns <- TwoPatterns
  Erased = erased
  Junk = junk
  Absent = absent
  None = none
  Readers <- AllReaders
  MaxTxns = 3
INVARIANTS
  ReadersCovered
  OwnerExact
  CacheCoherent
  AnswerTrue
  ProgramsInTheDark
PROPERTIES
  PartComesBack
