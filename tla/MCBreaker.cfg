SPECIFICATION Spec
CONSTANTS
  p1 = p1  m1 = m1  k1 = k1
  None = None
  a1 = a1  a2 = a2  a3 = a3
  Callers = {a1, a2}
  Providers = {p1}
  Models = {m1}
  Credentials = {k1}
  Asked <- Mixed
  Results <- DispatcherResults
  CredentialThreshold = 2
  Base = 1
  MaxCooldown = 2
  FailureBound = 2
SYMMETRY SymmetricCallers
INVARIANTS Consistent AllowStrandsNothing
PROPERTIES TerminalAbsorbs CooldownNeverExtended
