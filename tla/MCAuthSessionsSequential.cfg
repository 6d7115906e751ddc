\* One request at a time and enough time for every TTL to pass.
SPECIFICATION Spec
CONSTANTS
  f1 = f1
  f2 = f2
  f3 = f3
  t1 = t1
  t2 = t2
  t3 = t3
  s1 = s1
  s2 = s2
  u1 = u1
  r1 = r1
  r2 = r2
  Families = {f1, f2}
  Tokens = {t1, t2, s1}
  FamilyOf <- MCFamilyOf
  Requests = {r1}
  AccessTTL = 2
  Leeway = 1
  RefreshTTL = 2
  Grace = 0
  SessionLimit = 1
  MaxTime = 4
INVARIANTS
  EndedFamiliesHaveNoRows
  EndedFamiliesAreDenied
  WithinSessionLimit
CHECK_DEADLOCK FALSE
