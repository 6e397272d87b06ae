SPECIFICATION Spec
CONSTANTS
  o1 = o1
  o2 = o2
  Operators = {o1, o2}
  EnvCap = 3
  EnvReserve = 2
  MaxLimit = 2
  Unset = Unset
INVARIANTS RestartAsObserved
