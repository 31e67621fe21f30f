SPECIFICATION MCSpec
CONSTANTS
  None = None
  Broadcasts = {b1, b2}
  Workers = 2
  MaxTargets = 4
  Handlers = {h1, h2}
  MaxStreams = 2
  Chunks = 1
  Faults = {"error", "exit"}
  MaxDials = 2
  MaxCalls = 3
  CallFaults = {"error"}
  Downloaders = {d1, d2, d3}
  Names = {n1}
  Blocks = 2
  MaxDownloads = 4
  DownloadFaults = {"error", "restart"}
CHECK_DEADLOCK FALSE
INVARIANTS TypesOK OneAtATime CancelStops Accounted RunningIsListed AnswersOnly NothingStays WholeFiles
PROPERTIES BroadcastsEnd NothingLeft PlayersEnd
