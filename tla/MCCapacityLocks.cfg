SPECIFICATION FairSpec
CONSTANTS
  Invites = {i1, i2}
  Creates = {c1, c2}
  Updates = {u1}
  None = None
  Cap = 1
  Life = 2
  Skew = 1
  MaxTime = 1
CHECK_DEADLOCK FALSE
INVARIANTS
  CreateNeverSurprised
PROPERTIES
  FinalIsFinal
  ImplementsSeatLedger
  EveryTransactionEnds
