SPECIFICATION Spec
CONSTANTS
  k1 = k1
  k2 = k2
  k3 = k3
  r1 = r1
  r2 = r2
  r3 = r3
  None = None
  Temps = {k1, k2, k3}
  Requests = {r1, r2}
  MaxCodes = 1
  MaxResends = 0
  MaxIds = 2
  Ops = {"signup", "reset", "delete", "verify", "confirm", "delete_verify"}
PROPERTIES
  VerifiedIsFinal
CHECK_DEADLOCK FALSE
