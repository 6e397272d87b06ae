SPECIFICATION FairSpec
CONSTANTS
  a1 = a1
  a2 = a2
  r1 = r1
  r2 = r2
  r3 = r3
  NoAccount = NoAccount
  Accounts = {a1, a2}
  Requests = {r1, r2}
  Profiles <- UpdateProfiles
  Configs <- UpdateConfigs
  DefaultMaxUnits = 2
  MaxSets = 1
PROPERTIES AdmittedWithinACap EveryCallAnswered
