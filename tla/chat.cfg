SPECIFICATION MCSpec
CONSTANTS
  None = None
  Handlers = {h1, h2}
  Gone = Gone
  Owners = {u1, u2}
  Tracks = {t1}
  Limit = 1
  MaxLists = 3
  MaxSongs = 2
  Faults = {"error", "answer"}
  RequestFaults = {"error"}
  MaxUpdates = 2
  Self = self
  Others = {p1}
  Kinds = {"camera"}
  MaxEvents = 5
  MaxPending = 2
SYMMETRY MCSymmetry
CONSTRAINT Followed
CHECK_DEADLOCK FALSE
INVARIANTS TypesOK LimitOvershoot NoTwins CacheInStep ActiveMeansIn SourcesInStep MutedInStep
PROPERTIES DeletedStaysGone OwnersOnly
