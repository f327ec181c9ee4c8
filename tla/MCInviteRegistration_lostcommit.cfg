SPECIFICATION Spec
CONSTANTS
  e1 = e1
  i1 = i1
  k1 = k1
  s1 = s1
  Emails = {e1}
  Invites = {i1}
  Claims = {k1}
  SignUps = {s1}
  None = None
  Cap = 1
  InviteLife = 3
  ReservationTTL = 1
  Skew = 0
  MaxTime = 2
  Faults = {"lost_commit"}
INVARIANTS NoBurnedSeat
CHECK_DEADLOCK FALSE
