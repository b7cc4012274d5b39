\* One job and a studio tailoring; runs that raise, are cancelled and tried again, workers that die.
CONSTANTS
  j1 = j1
  s1 = s1
  Jobs = {j1}
  Studios = {s1}
  Credits = 1
  MaxTries = 2
  MaxGrants = 1
  MaxErrors = 2
  MaxAcks = 1
  MaxKills = 2
  MaxRefundFails = 1
SPECIFICATION FairSpec
INVARIANTS
  OneCreditPerJob
  PaidIffPrepared
  GiftPerInterruptedCommit
  WorkIsPaid

  
CHECK_DEADLOCK FALSE
