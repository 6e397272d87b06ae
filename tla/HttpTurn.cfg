SPECIFICATION Spec
CONSTANTS
  r1 = r1
  r2 = r2
  a1 = a1
  a2 = a2
  a3 = a3
  x1 = x1
  Requests = {r1, r2}
  Accounts = {a1, a2}
  NoAccount = NoAccount
  Authorized = {a1}
  Responses = {x1}
  NoResponse = NoResponse
  Limit = 2
  MaxRides = 1
SYMMETRY RequestSymmetry
INVARIANTS AnchorStaysHome OwnerHoldsSome FloorKept
PROPERTIES TailStaysPut
