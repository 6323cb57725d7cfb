SPECIFICATION Spec
CONSTANTS
  d1 = d1
  d2 = d2
  d3 = d3
  l1 = l1
  l2 = l2
  r1 = r1
  r2 = r2
  None = None
  Draws = {d1, d2}
  Challenges = {l1}
  Requests = {r1, r2}
  MaxClock = 3
  Steps = {2, 3}
SYMMETRY MCSymmetry
INVARIANTS
  TypeOK
  SecretIffEnabled
  ProvenSecret
  TotpOnce
  OneBatchAlone
  BackupCodeOnce
CHECK_DEADLOCK FALSE
