\* Three people, two spaces, two invitations, one request at a time.
CONSTANTS
  ann = ann
  bob = bob
  cat = cat
  s1 = s1
  s2 = s2
  i1 = i1
  i2 = i2
  r1 = r1
  NoAccount = NoAccount
  NoScope = NoScope
  Accounts = {ann, bob, cat}
  Teams = {s1, s2}
  Invites = {i1, i2}
  Requests = {r1}
  ShareDefaults = {"private", "all"}
  MaxPending = 2
SPECIFICATION TeamsSpec
SYMMETRY Symmetry
INVARIANTS
  StaffOK
  
PROPERTIES
  JoinsByOpenInvite
  OnlyLeadsMovePins
CHECK_DEADLOCK FALSE
