SPECIFICATION Spec
CONSTANTS
  a1 = a1
  a2 = a2
  r1 = r1
  r2 = r2
  r3 = r3
  NoAccount = NoAccount
  Accounts = {a1, a2}
  Requests = {r1, r2, r3}
  Profiles <- CapProfiles
  Configs <- CapConfigs
  DefaultMaxUnits = 2
  MaxSets = 0
SYMMETRY Callers
INVARIANTS GuardsAccounted CapsHold ReserveKeptForOwners NoStrandedWaiter
