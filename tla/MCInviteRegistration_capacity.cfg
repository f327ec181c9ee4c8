SPECIFICATION Spec
CONSTANTS
  e1 = e1
  e2 = e2
  i1 = i1
  i2 = i2
  k1 = k1
  k2 = k2
  s1 = s1
  Emails = {e1, e2}
  Invites = {i1, i2}
  Claims = {k1, k2}
  SignUps = {s1}
  None = None
  Cap = 1
  InviteLife = 2
  ReservationTTL = 1
  Skew = 1
  MaxTime = 3
  Faults = {"lost_commit", "abort"}
SYMMETRY Symmetry
PROPERTIES ImplementsSeatLedger
CHECK_DEADLOCK FALSE
