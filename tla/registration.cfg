SPECIFICATION Spec
CONSTANTS
  k1 = k1
  k2 = k2
  k3 = k3
  r1 = r1
  r2 = r2
  r3 = r3
  None = None
  Temps = {k1, k2, k3}
  Requests = {r1, r2}
  MaxCodes = 3
  MaxResends = 2
  MaxIds = 2
  Ops = {"signup", "reset", "delete", "resend", "admin_resend", "verify", "confirm", "delete_verify"}
SYMMETRY MCSymmetry
INVARIANTS
  StoredCodeWasMailed
  UsedTokenIsGone
  TypeOK
  RowsComplete
PROPERTIES
  FollowsLifecycle
  VerifiedIsFinalAlone
  ActivatesItsOwnPassword
CHECK_DEADLOCK FALSE
