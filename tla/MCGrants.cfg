SPECIFICATION FairSpec
CONSTANTS
  None = None
  s1 = s1  s2 = s2  a1 = a1  a2 = a2  q1 = q1  q2 = q2
  Sessions = {s1, s2}
  Ports = {q1, q2}
  Accounts = {a1, a2}
  Calls <- AllCalls
  OnboardAttempts = 2
  MaxStrays = 1
  MayFail = TRUE
  Intervals = {0, 1, 2}
  Lifetimes = {0, 4, 8}
  DefaultInterval = 2
  DefaultTTL = 6
  SlowDown = 2
  MaxSlowDown = 4
  MaxTime = 10
INVARIANTS LoginHonest PollsUnhurried
PROPERTIES EveryGrantEnds
CHECK_DEADLOCK FALSE
