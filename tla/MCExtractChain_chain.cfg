\* A user whom the fan-out reaches and the platform; each task is tried twice; two faults.
CONSTANTS
  u1 = u1
  Users = {u1}
  Platform = platform
  AutoUsers = {u1}
  Nobody = nobody
  ExtractTries = 2
  EncodeTries = 2
  MaxFaults = 2
SPECIFICATION FairSpec
INVARIANTS
  ChainCarried
  StatusSettles

  
CHECK_DEADLOCK FALSE
