SPECIFICATION FairSpec
CONSTANTS
  Ids = {i1, i2}
  Procs = {g1, g2, g3}
  Entries = {e1, e2, e3}
  None = None
INVARIANT Reclaimed
PROPERTIES ImplementsContract Served
