SPECIFICATION FairSpec
CONSTANTS
  k1 = k1
  k2 = k2
  k3 = k3
  None = None
  Calls = {k1, k2}
  PoolMax = 1
  MaxLines = 2
INVARIANTS
  TypeOK
  AnswersAreTrue
  FramesAreFaithful
  NothingIsLeaked
PROPERTIES
  EveryRequestEnds
CHECK_DEADLOCK FALSE
