\* Two ticks and a request whose sessions do not overlap, two slots more.
CONSTANTS
  k1 = k1
  k2 = k2
  a1 = a1
  Ticks = {k1, k2}
  Admins = {a1}
  Cadences = {"daily", "interval"}
  Overlap = FALSE
  MaxSlots = 2
  MaxTickDeaths = 1
SPECIFICATION FairSchedule

  
PROPERTIES
  IntervalRuns
CHECK_DEADLOCK FALSE
