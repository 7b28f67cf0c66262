SPECIFICATION Spec
CONSTANTS
  Arrs = {"sonarr"}
  Sizes = {3}
  OrderIds = {}
  HasFeed = TRUE
  Cadences <- NoTicks
  RetryLatch = 2
  LatchTicks = 2
  TickEscalation = 2
  ReconcileEscalation = 2
  ShrunkAccept = 3
  Troubles <- WindowFaults
INVARIANT TickConditionsDropped
