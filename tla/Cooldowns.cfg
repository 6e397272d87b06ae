SPECIFICATION FairSpec
CONSTANTS
  a1 = a1
  a2 = a2
  r1 = r1
  r2 = r2
  Accounts = {a1, a2}
  Requests = {r1, r2}
  Deadlines = {1, 2}
  NoAccount = NoAccount
  Refusals <- Meetings
  MaxFaults = 1
  MaxRestarts = 1
INVARIANTS NoForgottenDeadline BenchSurvives
PROPERTIES QueueDrains
