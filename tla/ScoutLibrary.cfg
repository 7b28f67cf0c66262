SPECIFICATION Spec
CONSTANTS
  Arrs = {"sonarr"}
  Sizes = {1, 3}
  OrderIds = {121}
  HasFeed = FALSE
  Cadences <- Looped
  RetryLatch = 2
  LatchTicks = 2
  TickEscalation = 2
  ReconcileEscalation = 2
  ShrunkAccept = 3
  Troubles <- LibraryOrStoreFaults
INVARIANT PassInv
PROPERTY ShrinkGuarded
PROPERTY OrdersReleased
