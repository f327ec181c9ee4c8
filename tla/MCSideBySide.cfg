SPECIFICATION AllSpec
CONSTANTS
  None = None
  Users = {u1, u2}
  Questions = {y1, y2}
  Submits = {x1, x2}
  Reads = {r1}
  Onboardings = {x1, x2, x3}
  Faulty = TRUE
  Evaluations = {x1, x2}
  Answers = {a1}
  Ttl = 2
  DepthTime = 4
  Commits = {x1, x2}
  Checksum <- SameChecksum
  Cases = {case}
  MaxAge = 1
  Careful = TRUE
  EvidenceTime = 2
  Facts = {y1}
  Ahead = 1
  Tolerance = 1
  MaxReport = 1
  MaxTechnical = 1
  MaxReview = 1
  MaxException = 2
  LaunchTime = 4
  A = A
  B = B
  Members <- Both
  CohortOf <- OwnCohort
  ChannelOf <- SameChannel
  RoleOf <- OwnRole
  Entries = {w1}
  Seconds = {60, 300}
  Lengths = {10, 40}
  Week = 1
  MinSample = 1
  GroupMin = 1
  MinDays = 1
  Others = TRUE
  MaxDay = 1
SYMMETRY Symmetry
CHECK_DEADLOCK FALSE
INVARIANTS
  AllTypeOK
  UnlocksAreEarned
  UnlockedOnce
  NeverDuplicate
  PrivateIsEarned
  QuestionStaysConfigured
  OnboardedIsComplete
  UndisturbedRetrySucceeds
  SomebodyCompletes
  ScoringStopsWithinTtl
  EmbeddingOfLastEvaluation
  
  LaunchIsCurrent

  
