SPECIFICATION RaceSpec
CONSTANTS
  NoItem = NoItem
  i1 = i1  i2 = i2  i3 = i3  i4 = i4
  p1 = p1  p2 = p2  p3 = p3
  VideoOf <- MCVideoOf
  Items = {i1, i2, i3}
  Procs = {p1, p2}
  MaxSkips = 0
  MaxFaults = 0
SYMMETRY TwinSymmetry
VIEW NoSnapshots
INVARIANT AtMostOnePlaying
CHECK_DEADLOCK FALSE
