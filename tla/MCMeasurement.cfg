SPECIFICATION Spec
CONSTANTS
  A = A
  B = B
  Members <- TwoMembers
  CohortOf <- OwnCohort
  ChannelOf <- OneChannel
  RoleOf <- BothBuckets
  Entries = {w1}
  Seconds = {60, 300}
  Lengths = {10, 40}
  Week = 1
  MinSample = 1
  GroupMin = 1
  MinDays = 1
  Others = FALSE
  MaxDay = 1
  None = None
CHECK_DEADLOCK FALSE
INVARIANTS
  OpenGateAdmits
