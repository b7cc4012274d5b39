\* A fan-out and a request of the user for one job, which two tasks may serve.
CONSTANTS
  j1 = j1
  a1 = a1
  m1 = m1
  id1 = id1
  id2 = id2
  Jobs = {j1}
  Autos = {a1}
  Manuals = {m1}
  Ids = {id1, id2}
  Stable = id1
  PendingCap = 1
  DailyCap = 1
  MaxTries = 2
  TransientTries = 2
  MaxSaves = 2
  MaxDays = 1
  MaxFaults = 1
SPECIFICATION FairSpec
PROPERTIES
  RowsEnd
CHECK_DEADLOCK FALSE
