SPECIFICATION Spec
CONSTANTS
  p1 = p1
  p2 = p2
  r1 = r1
  r2 = r2
  u1 = u1
  u2 = u2
  n = n
  None = n
  Blank = ""
  Cards <- MCCards
  UrlKey <- MCUrlKey
  NameKey <- MCNameKey
  Users = {u1}
  Units = {p1, p2}
  Requests = {r1}
INVARIANT
  UnitIsStable
CHECK_DEADLOCK FALSE
