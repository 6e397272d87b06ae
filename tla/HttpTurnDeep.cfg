SPECIFICATION FairSpec
CONSTANTS
  r1 = r1
  r2 = r2
  a1 = a1
  a2 = a2
  a3 = a3
  x1 = x1
  Requests = {r1}
  Accounts = {a1, a2, a3}
  NoAccount = NoAccount
  Authorized = {a1, a2}
  Responses = {x1}
  NoResponse = NoResponse
  Limit = 3
  MaxRides = 2
INVARIANTS RefundsItsOwn
PROPERTIES TurnEnds
