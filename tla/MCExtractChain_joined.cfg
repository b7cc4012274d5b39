\* Two users and the platform, no faults.
CONSTANTS
  u1 = u1
  u2 = u2
  Users = {u1, u2}
  Platform = platform
  AutoUsers = {}
  Nobody = nobody
  ExtractTries = 1
  EncodeTries = 1
  MaxFaults = 0
SPECIFICATION FairSpec
PROPERTIES
  AnalysisFollows
CHECK_DEADLOCK FALSE
