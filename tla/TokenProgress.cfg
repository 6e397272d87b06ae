SPECIFICATION FairSpec
CONSTANTS
  m = m
  r = r
  t1 = t1
  t2 = t2
  t3 = t3
  Nodes = {m, r}
  Replicas = {r}
  Tasks = {t1, t2}
  PersistMaxAttempts = 1
  MaxGrant = 1
  MaxPolls = 0
  MaxCancels = 0
  MaxCrashes = 0
  MaxLosses = 0
  MaxGarbled = 0
  MaxStoreFaults = 0
PROPERTIES RequestsAnswered StaleIsReplaced
