SPECIFICATION Spec
CONSTANTS
  Tasks = {t1, t2}
  Slots = {s1, s2}
  Names = {n1, n2}
  short = short
  long = long
  Files = {short, long}
  Blocks = 2
  Length <- Lengths
  HeadBlocks = 1
  StageBlocks = 2
  Erased = Erased
  Garbage = Garbage
  Magic = Magic
  Unnamed = Unnamed
  NoFile = NoFile
SYMMETRY Symmetric
INVARIANTS
  ReadsBack
  ValidMeansWhole
  UniqueNames
  FetchSeesItsBlob
PROPERTIES
  OnlyItsOwn
