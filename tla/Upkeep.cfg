SPECIFICATION FairSpec
CONSTANTS
  q1 = q1
  r1 = r1
  Requesters = {q1}
  Readers = {r1}
  None = None
  MaxEdits = 1
  MaxUpsets = 1
INVARIANTS CacheIsCurrent
PROPERTIES RefreshFollows GateHeals
