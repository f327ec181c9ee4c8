SPECIFICATION FairSpec
CONSTANTS
  e1 = e1
  i1 = i1
  i2 = i2
  k1 = k1
  k2 = k2
  s1 = s1
  s2 = s2
  Emails = {e1}
  Invites = {i1, i2}
  Claims = {k1, k2}
  SignUps = {s1, s2}
  None = None
  Cap = 2
  InviteLife = 2
  ReservationTTL = 1
  Skew = 0
  MaxTime = 2
  Faults = {"abort", "lost_response"}
INVARIANTS NoBurnedSeat UnfinalizedOnlyInFlight
PROPERTIES InsertedIsResolved
CHECK_DEADLOCK FALSE
