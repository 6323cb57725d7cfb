SPECIFICATION Spec
CONSTANTS
  su = su
  a1 = a1
  a2 = a2
  t1 = t1
  t2 = t2
  t3 = t3
  r1 = r1
  r2 = r2
  None = None
  Accounts = {su, a1, a2}
  Supers = {su}
  Tokens = {t1, t2}
  Requests = {r1, r2}
SYMMETRY MCSymmetry
INVARIANTS
  TypeOK
  SuperAdminStands
  AnsweredAsDone
  EndedStaysOut
PROPERTIES
  OutrankedAlone
CHECK_DEADLOCK FALSE
