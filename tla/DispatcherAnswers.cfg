SPECIFICATION FairStructuralSpec
CONSTANTS
  p1 = p1  p2 = p2  m1 = m1  m2 = m2  k1 = k1  k2 = k2  r1 = r1  r2 = r2  r3 = r3
  None = None
  Providers = {p1}
  Models = {m1, m2}
  Credentials = {k1}
  Requests = {r1, r2, r3}
  Linear = {r1}
  Loops <- TwoLoops
  Shapes <- Combos
  Plans <- TwoSteps
  Worlds <- TwoWorlds
  CredentialIds <- OneId
  Preflight = TRUE
  Streams = {TRUE, FALSE}
  Happens <- Shaky
  QuotaAllows = {TRUE, FALSE}
  VaultHas = {TRUE, FALSE}
  MayCancel = TRUE
  CredentialThreshold = 2
  Base = 1
  MaxCooldown = 1
  FailureBound = 2
ACTION_CONSTRAINT Alone
PROPERTY ServesOn
