SPECIFICATION Spec
CONSTANTS
  e1 = e1
  e2 = e2
  i1 = i1
  i2 = i2
  k1 = k1
  k2 = k2
  s1 = s1
  s2 = s2
  Emails = {e1, e2}
  Invites = {i1, i2}
  Claims = {k1, k2}
  SignUps = {s1, s2}
  None = None
  Cap = 2
  InviteLife = 3
  ReservationTTL = 1
  Skew = 0
  MaxTime = 3
  Faults = {"lost_commit", "compensation_error", "crash"}
SYMMETRY Symmetry
INVARIANTS SeatBacked OneActiveInvitePerEmail
PROPERTIES FinalStatusIsFinal CompensationKeepsReservation
CHECK_DEADLOCK FALSE
