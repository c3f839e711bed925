SPECIFICATION FairSpec
CONSTANTS
  nn = nn
  aux = aux
  manual = manual
  c1 = c1
  c2 = c2
  Manual = manual
  MaxHolders = 4
  HalfSpace = 4
  GiveUp = 1
  Joiners = {nn, aux}
  Consoles = {c1}
  FirstGen = 6
  MaxStreams = 2
  MaxRegs = 4
INVARIANTS StreamIffHeld PlacesKept WaitsForItsStream JoinedModeReadable
PROPERTIES UnheldEnds HeldComesBack
