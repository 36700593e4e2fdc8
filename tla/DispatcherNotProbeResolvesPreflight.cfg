SPECIFICATION BusySpec
CONSTANTS
  p1 = p1  p2 = p2  m1 = m1  m2 = m2  k1 = k1  k2 = k2  r1 = r1  r2 = r2
  None = None
  Providers = {p1}
  Models = {m1}
  Credentials = {k1}
  Requests = {r1, r2}
  Plans <- OnePlan
  Worlds <- OneWorld
  CredentialIds <- OneId
  Preflight = TRUE
  Streams = {FALSE}
  Happens <- Outage
  QuotaAllows = {TRUE}
  VaultHas = {TRUE}
  MayCancel = FALSE
  CredentialThreshold = 2
  Base = 1
  MaxCooldown = 1
  FailureBound = 2
PROPERTY ProbeResolves
