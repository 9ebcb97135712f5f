\* One user, two miners, windows of two blocks cut from chains of up to three.
CONSTANTS
  Users = {u1}
  Miners = {m1, m2}
  UpdatePeriod = 2
  MaxChain = 3
SPECIFICATION Spec
INVARIANTS
  TypeOK
  UserCostsCorrect
