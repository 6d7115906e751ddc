\* Two requests at a time, one family of three generations: two rotations of one
\* token, and locks that wait in a circle.
SPECIFICATION FairSpec
CONSTANTS
  f1 = f1
  f2 = f2
  f3 = f3
  t1 = t1
  t2 = t2
  t3 = t3
  s1 = s1
  s2 = s2
  u1 = u1
  r1 = r1
  r2 = r2
  Families = {f1}
  Tokens = {t1, t2, t3}
  FamilyOf <- MCFamilyOf
  Requests = {r1, r2}
  AccessTTL = 2
  Leeway = 1
  RefreshTTL = 2
  Grace = 0
  SessionLimit = 1
  MaxTime = 1
INVARIANTS
  TypeOK
  OneLiveToken
  RevocationReachesRedis
  RotatedOnce
PROPERTIES
  RequestsEnd
CHECK_DEADLOCK FALSE
