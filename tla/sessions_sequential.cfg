SPECIFICATION FairSpec
CONSTANTS
  u1 = u1
  u2 = u2
  t1 = t1
  t2 = t2
  t3 = t3
  r1 = r1
  r2 = r2
  c1 = c1
  c2 = c2
  None = None
  Users = {u1, u2}
  Tokens = {t1, t2}
  Requests = {r1}
  Cleaners = {c1, c2}
  Ops = {"login", "verify_signup", "logout", "logout_device", "logout_all", "delete_account"}
  Faults = {}
INVARIANTS
  CachedIsBacked
PROPERTIES
  ExpiredSessionDies
CHECK_DEADLOCK FALSE
