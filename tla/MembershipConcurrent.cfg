SPECIFICATION FairSpec
CONSTANTS
  f = f
  a = a
  r1 = r1
  r2 = r2
  Users = {f, a}
  Founder = f
  Requests = {r1, r2}
  Granted = {"OWNER", "SUPPORT"}
  MaxMembers = 2
INVARIANTS
  FounderStaysOwner
  PrivilegesWereHeld
PROPERTIES
  RosterSpec
  CacheSettles
