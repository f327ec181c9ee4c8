SPECIFICATION TablesSpec
CONSTANTS
  Keys = {"long", "short"}
  Policy <- MCPolicy
  Requests = {x1, x2}
  Servers = {"exact", "ahead"}
  Skew <- MCSkew
  Retention = 4
  Second = 2
  MaxDelay = 1
  MaxTime = 4
  MaxCount = 2
  Users = {u1, u2}
  Submits = {x1, x2}
  Browsers = {b1, b2}
  Emails = {e1}
  Calls = {x1, x2}
  Tokens = {t1, t2}
  MaxDay = 2
  Runs = {x1, x2}
  MaxEpoch = 1
  None = None
SYMMETRY Symmetry
CHECK_DEADLOCK FALSE
INVARIANTS
  TablesTypeOK
  
  UndisturbedReportSucceeds
  OneReportOnFile
  DeletionSweepsReports
  VisitDaysSound
  
  UndisturbedSmokePasses
PROPERTIES
  ImplementsRateQuota
  OnlyTheRegistrantWithdraws
