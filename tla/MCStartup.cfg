SPECIFICATION AccessSpec
CONSTANTS
  None = None
  d = d  c1 = c1  r1 = r1  r2 = r2
  Procs = {d, c1}
  Credentials = {1}
  Worlds <- AllWorlds
  Latest = 2
  MaxTokens = 3
  MaxStarts = 2
  MayCrash = TRUE
  Daemon = d
  Requests = {r1, r2}
  KeyIds = {1, 2}
  LoginLimit = 2
  LoginWindow = 2
  RotationWindow = 1
  Rate = 2
  Interval = 2
INVARIANTS MigratedBeforeUse TokenFileOpens SealedOpens SettingsHonest GatesInOrder
INVARIANTS OnlyEntitledServed RateHonoured
PROPERTY GuessesBounded
SYMMETRY Slots
CONSTRAINT FewStarts
CHECK_DEADLOCK FALSE
