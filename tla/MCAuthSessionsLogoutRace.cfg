\* A logout beside a refresh of the same family.
SPECIFICATION Spec
CONSTANTS
  f1 = f1
  f2 = f2
  f3 = f3
  t1 = t1
  t2 = t2
  t3 = t3
  s1 = s1
  s2 = s2
  u1 = u1
  r1 = r1
  r2 = r2
  Families = {f1}
  Tokens = {t1, t2}
  FamilyOf <- MCFamilyOf
  Requests = {r1, r2}
  AccessTTL = 2
  Leeway = 1
  RefreshTTL = 4
  Grace = 0
  SessionLimit = 2
  MaxTime = 1
INVARIANTS
  EndedFamiliesHaveNoRows
CHECK_DEADLOCK FALSE
