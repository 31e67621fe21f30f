SPECIFICATION Spec
CONSTANTS
  None = None
  Tracks = {t1, t2, t3}
  MediaTracks = {t2}
  TooLong = {t2}
  TrackID <- OwnID
  Handlers = {h1, h2}
  MaxQueue = 1
  MaxBatch = 2
  MaxLoop = 1
  Faults = {"download", "media"}
  Events = {"vc_ended", "bot_left"}
INVARIANTS TypeOK
PROPERTIES KeepsSongQueue RemoveSparesHead
