SPECIFICATION Spec
CONSTANTS
  Consoles = {c1, c2}
  Models = {p1, p2, b}
  Bare = {b}
  Plugged = {p1, p2}
SYMMETRY Sym
INVARIANTS UsedIsWhole InfoOfOneModel AnswerTrue
