SPECIFICATION FairSpec
CONSTANTS
  a1 = a1
  a2 = a2
  a3 = a3
  Accounts = {a1, a2, a3}
  NoAccount = NoAccount
  MaxReconnects = 3
  MaxRetries = 2
INVARIANTS TurnsAgree ServedByAccount ResendsCounted
PROPERTIES NoReplayAfterOutput AnchorStaysHome TurnEnds
