SPECIFICATION Spec
CONSTANTS
  u1 = u1
  u2 = u2
  t1 = t1
  t2 = t2
  t3 = t3
  r1 = r1
  r2 = r2
  c1 = c1
  c2 = c2
  None = None
  Users = {u1}
  Tokens = {t1, t2}
  Requests = {r1, r2}
  Cleaners = {c1}
  Ops = {"login", "logout", "logout_device", "logout_all"}
  Faults = {"redis", "crash"}
SYMMETRY MCSymmetry
INVARIANTS
  RevokedStaysOut
  SweptStaysOut
PROPERTIES
  ImplementsContract
CHECK_DEADLOCK FALSE
