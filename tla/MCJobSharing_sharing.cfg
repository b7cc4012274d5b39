\* Three people, one team, two add sessions; three shares, moves and faults together.
CONSTANTS
  ann = ann
  bob = bob
  cat = cat
  Nobody = Nobody
  b1 = b1
  b2 = b2
  s1 = s1
  f1 = f1
  f2 = f2
  People = {ann, bob, cat}
  Owners <- MCOwners
  Runners = {bob}
  OptIns = {bob}
  Batches = {b1, b2}
  Spaces = {s1}
  Fans = {f1, f2}
  Lead <- MCLead
  Team <- MCTeam
  FanLimit = 1
  MaxShares = 2
  MaxMoves = 2
  MaxFaults = 1
  MaxEvents = 3
SPECIFICATION FairSpec
INVARIANTS
  TypeOK
  SightAgrees
  
  FanoutsMeet
PROPERTIES
  CaughtUp
CHECK_DEADLOCK FALSE
