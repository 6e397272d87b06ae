SPECIFICATION Spec
CONSTANTS
  a1 = a1
  a2 = a2
  t1 = t1
  t2 = t2
  n1 = n1
  d1 = d1
  None = None
  Tasks = {t1, t2}
  Accounts = {a1, a2}
  Credits = {1, 2, 3}
  Owner <- TwoAndOne
  Later = {2}
  Asked = {a1}
  Named = {3}
  NativeIds = {n1}
  DirectIds = {d1}
INVARIANTS NoCreditIsUnspent AnsweredNotResent HolderUnderWay
PROPERTIES OneShot
SYMMETRY TaskSymmetry
