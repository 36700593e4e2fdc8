SPECIFICATION Spec
CONSTANTS
  Credentials = {c1, c2}
  Requests = {r1, r2}
  Rotates = {TRUE, FALSE}
  LoginGives = {TRUE, FALSE}
  MayRefuse = TRUE
  MayLose = TRUE
  MayRestart = TRUE
  MayLogin = TRUE
  MayDelete = TRUE
  MaxGrants = 5
  None = None
SYMMETRY Symmetric
INVARIANT RenewalsLeaveUsable
PROPERTIES SingleFlight
CHECK_DEADLOCK FALSE
