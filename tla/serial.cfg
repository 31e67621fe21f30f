SPECIFICATION EndingSpec
CONSTANTS
  None = None
  Tracks = {t1, t2, t3, t4}
  MediaTracks = {t2}
  TooLong = {}
  TrackID <- OwnID
  Handlers = {h1}
  MaxQueue = 2
  MaxBatch = 3
  MaxLoop = 2
  Faults = {"download", "media"}
  Events = {"vc_started", "vc_ended", "assistant_left", "bot_left"}
INVARIANTS HeadOnAir
PROPERTIES NoUntriedDropped SongsLeave
