\* Two automatic callers, three jobs, both caps of one.
CONSTANTS
  j1 = j1
  j2 = j2
  j3 = j3
  a1 = a1
  a2 = a2
  id1 = id1
  Jobs = {j1, j2, j3}
  Autos = {a1, a2}
  Manuals = {}
  Ids = {id1}
  Stable = id1
  PendingCap = 1
  DailyCap = 1
  MaxTries = 1
  TransientTries = 2
  MaxSaves = 1
  MaxDays = 0
  MaxFaults = 1
SPECIFICATION Spec
SYMMETRY Symmetry
INVARIANTS
  PendingOvershoot
  BudgetOvershoot
CHECK_DEADLOCK FALSE
