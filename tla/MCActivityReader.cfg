SPECIFICATION FairSpec
CONSTANTS
  Callers = {c1, c2, c3}
  MaxDials = 3
INVARIANTS OneConnection NoneLeft
PROPERTIES WaitersReturn
CHECK_DEADLOCK FALSE
