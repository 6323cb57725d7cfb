SPECIFICATION Spec
CONSTANTS
  v1 = v1
  v2 = v2
  r1 = r1
  r2 = r2
  None = None
  Sections <- MCSections
  Images <- MCImages
  Values = {v1, v2}
  Requests = {r1, r2}
SYMMETRY MCSymmetry
INVARIANTS
  TypeOK
  NoSectionLost
  AvatarAsAnswered
CHECK_DEADLOCK FALSE
