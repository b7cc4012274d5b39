\* Two people, a credit pack and a TEAM pack, two requests at once.
CONSTANTS
  ann = ann
  bob = bob
  c1 = c1
  t1 = t1
  r1 = r1
  r2 = r2
  Nobody = Nobody
  People = {ann, bob}
  CreditPacks = {c1}
  TeamPacks = {t1}
  Requests = {r1, r2}
  SignupCredits = 1
  PackCredits = 2
  Changes <- UseChanges
  MaxAdjusts = 1
SPECIFICATION FairSpec
INVARIANTS
  BalanceAccounted
PROPERTIES
  OnlyOwnHands
  WaitingIsClaimed
CHECK_DEADLOCK FALSE
