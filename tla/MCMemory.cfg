SPECIFICATION FairMemorySpec
CONSTANTS
  None = None
  h1 = h1  h2 = h2  h3 = h3  a1 = a1  a2 = a2
  Handlers = {h1, h2, h3}
  Capacity = 1
  MayAbandon = TRUE
  Conversations <- Talks
  Secrets = {"key"}
  TTL = 2
  RetrievalLimit = 2
  MaxTime = 2
INVARIANTS Drained OrderlyShutdown
PROPERTY Responsive RecallsTruly
CHECK_DEADLOCK FALSE
