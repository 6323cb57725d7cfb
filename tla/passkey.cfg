SPECIFICATION Spec
CONSTANTS
  c1 = c1
  c2 = c2
  ch1 = ch1
  ch2 = ch2
  ch3 = ch3
  r1 = r1
  r2 = r2
  None = None
  Credentials = {c1}
  Challenges = {ch1, ch2, ch3}
  MaxCount = 2
  Requests = {r1, r2}
SYMMETRY MCSymmetry
INVARIANTS
  TypeOK
  CloneIsCaughtAlone
  AssertionOnceAlone
CHECK_DEADLOCK FALSE
