CONSTANTS
  c1 = c1
  c2 = c2
  Consoles <- TwoConsoles
  NSlots = 2
  MapMax = 3
  MaxJobs = 3
  Endless <- MCEndless
SPECIFICATION LiveSpec
INVARIANTS KillExact PrintfRouted
PROPERTIES JobsAccounted KilledEnds
