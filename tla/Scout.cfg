SPECIFICATION FairSpec
CONSTANTS
  Arrs = {"sonarr"}
  Sizes = {1, 3}
  OrderIds = {}
  HasFeed = TRUE
  Cadences <- WithPoll
  RetryLatch = 2
  LatchTicks = 2
  TickEscalation = 2
  ReconcileEscalation = 2
  ShrunkAccept = 3
  Troubles <- UpstreamFaults
INVARIANTS StandingPersisted EscalatesInTime ClosesOnce
PROPERTIES EndsOnEvidence Settles
