SPECIFICATION Spec
CONSTANTS
  Invites = {i1, i2}
  Creates = {c1}
  Updates = {u1}
  None = None
  Cap = 2
  Life = 2
  Skew = 0
  MaxTime = 1
CHECK_DEADLOCK FALSE
INVARIANTS
  CreateNeverVictim
