\* Three jobs of one employer, a request with its background tasks, one actor at a time.
CONSTANTS
  j1 = j1
  j2 = j2
  j3 = j3
  r1 = r1
  None = None
  Jobs = {j1, j2, j3}
  Requests = {r1}
  Employer <- MCEmployer
  Title <- MCTitle
  Url <- MCUrl
  Quick = {}
  Aways <- MCAways
  MaxScore = 2
  Minimums = {1, 2}
  Overlap = FALSE
  MaxSaves = 3
  MaxAsks = 2
  MaxLosses = 1
  MaxEvents = 4
SPECIFICATION Spec
INVARIANTS
  TypeOK
  NoHidingCircle
  HiddenByItsRule
  LowScorersReturned
PROPERTIES
  ManualHidesStay
CHECK_DEADLOCK FALSE
