SPECIFICATION Spec
CONSTANTS
  m = m
  r = r
  t1 = t1
  t2 = t2
  t3 = t3
  Nodes = {m}
  Replicas = {}
  Tasks = {t1, t2}
  PersistMaxAttempts = 2
  MaxGrant = 1
  MaxPolls = 1
  MaxCancels = 1
  MaxCrashes = 1
  MaxLosses = 1
  MaxGarbled = 1
  MaxStoreFaults = 2
SYMMETRY TaskSymmetry
INVARIANTS SingleFlight NeverReused SpentIsMarked CacheHoldsStored 
