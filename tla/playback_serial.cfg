SPECIFICATION RaceLiveSpec
CONSTANTS
  NoItem = NoItem
  i1 = i1  i2 = i2  i3 = i3  i4 = i4
  p1 = p1  p2 = p2  p3 = p3
  VideoOf <- MCVideoOf
  Items = {i1, i2, i3}
  Procs = {p1}
  MaxSkips = 2
  MaxFaults = 2
INVARIANT InSyncAtRest
PROPERTIES
  EndedByItsOwnJob
  EveryVideoLeaves
  ImplementsTimeline
CHECK_DEADLOCK FALSE
